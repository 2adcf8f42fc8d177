---------------------------- MODULE ServicesProofs ----------------------------
(***************************************************************************)
(* What the services keep by themselves, however their workers and callers *)
(* overlap: the limit of a token bucket over every stretch of time, for    *)
(* all rates, capacities and times of expiry (Buckets), and the reports of *)
(* the gaps in what is known, for all questions and runs (Gaps); and, for  *)
(* all sets of asks, budgets and retries, that what an investigation says  *)
(* of its own review is true and how much an ask and a day can spend       *)
(* (Asks), that a reply rests on what was found (Grounding), and that a    *)
(* search finds what its reader may have, each once (Retrieval).           *)
(***************************************************************************)
EXTENDS MCServices, Buckets, Foundations, SequenceTheorems

-----------------------------------------------------------------------------
(* Token buckets: what is used and not yet refilled, and what may be taken,*)
(* are never more than the capacity together.                              *)

Limits == [rate : Rates, capacity : Capacities \cup {NoCapacity}, shared : BOOLEAN]

Stores == [kept : BOOLEAN, tokens : Nat, age : Nat]

Naps == [told : BOOLEAN, ticks : Nat]

BucketTypes ==
    /\ limit \in Limits
    /\ bucket \in Stores
    /\ bucket.tokens <= Capacity /\ bucket.age <= TTL
    /\ level \in Nat
    /\ sleeps \in [Callers -> Naps]
    /\ \A c \in Callers : sleeps[c].ticks <= Wait(0)
    /\ waived \in BOOLEAN

\* Every unit is in the bucket, on its way back into it, or beyond the limit.
MeterInv == waived \/ level + Refilled <= Capacity

\* When a caller wakes that was told to sleep, there will be a token, if nobody else
\* is served before.
SleepInv ==
    waived \/ \A c \in Callers :
        sleeps[c].told => /\ bucket.kept
                          /\ bucket.tokens + (bucket.age + sleeps[c].ticks) * limit.rate >= Unit

BucketInv == BucketTypes /\ MeterInv /\ SleepInv

\* Multiplying keeps an order.
LEMMA Products ==
    ASSUME NEW a \in Nat, NEW b \in Nat, NEW y \in Nat
    PROVE  /\ a * y \in Nat
           /\ a <= b => a * y <= b * y
           /\ (a + b) * y = a * y + b * y
           /\ (a + 1) * y = a * y + y
<1>1. a * y \in Nat
    OBVIOUS
<1>2. ASSUME a <= b PROVE a * y <= b * y
    BY <1>2
<1>3. (a + b) * y = a * y + b * y /\ (a + 1) * y = a * y + y
    OBVIOUS
<1> QED
    BY <1>1, <1>2, <1>3

\* Rounding up (Ceiling) gives enough, and more for more.
LEMMA CeilingFacts ==
    ASSUME NEW x \in Nat, NEW z \in Nat, NEW y \in Nat \ {0}
    PROVE  /\ Ceiling(x, y) \in Nat
           /\ Ceiling(x, y) * y >= x
           /\ x <= z => Ceiling(x, y) <= Ceiling(z, y)
<1> DEFINE q == (x + y - 1) \div y
<1> DEFINE p == (z + y - 1) \div y
<1>1. q \in Nat /\ p \in Nat
    OBVIOUS
<1>2. /\ q * y <= x + y - 1 /\ x + y - 1 < (q + 1) * y
      /\ p * y <= z + y - 1 /\ z + y - 1 < (p + 1) * y
    OBVIOUS
<1> HIDE DEF q, p
<1>3. q * y >= x
    BY <1>1, <1>2
<1>4. ASSUME x <= z PROVE q <= p
  <2>1. q * y < (p + 1) * y
      BY <1>1, <1>2, <1>4
  <2>2. (p + 1) <= q => (p + 1) * y <= q * y
      BY <1>1, Products
  <2> QED
      BY <1>1, <2>1, <2>2
<1> QED
    BY <1>1, <1>3, <1>4 DEF Ceiling, q, p

\* What a limiter is given: there is room for a token, and redis forgets a bucket only
\* after twice the time that fills it (effective_capacity, the TTL of the script).
LEMMA LimitFacts ==
    ASSUME limit \in Limits
    PROVE  /\ limit.rate \in Nat \ {0} /\ limit.shared \in BOOLEAN
           /\ Unit \in Nat \ {0}
           /\ Capacity \in Nat /\ Capacity >= Unit
           /\ Initial \in Nat /\ Initial <= Capacity
           /\ TTL \in Nat /\ TTL * limit.rate >= 2 * Capacity
<1>1. limit.rate \in Nat \ {0} /\ limit.shared \in BOOLEAN /\ Unit \in Nat \ {0} /\ MinTTL \in Nat
    BY BucketConstants DEF Limits
<1>2. Capacity \in Nat /\ Capacity >= Unit /\ Initial \in Nat /\ Initial <= Capacity
  <2>1. CASE limit.capacity = NoCapacity
      BY <1>1, <2>1 DEF Capacity, Initial, Larger
  <2>2. CASE limit.capacity # NoCapacity
    <3>1. limit.capacity \in Capacities
        BY <2>2 DEF Limits
    <3>2. limit.capacity \in Nat /\ limit.capacity >= Unit
        BY <3>1, BucketConstants
    <3>3. Capacity = limit.capacity /\ Initial = limit.capacity
        BY <2>2 DEF Capacity, Initial
    <3> QED
        BY <3>2, <3>3
  <2> QED
      BY <2>1, <2>2
<1> DEFINE n == Ceiling(2 * Capacity, limit.rate)
<1>3. n \in Nat /\ n * limit.rate >= 2 * Capacity
    BY <1>1, <1>2, CeilingFacts
<1>4. TTL = Larger(MinTTL, n)
    BY DEF TTL
<1> HIDE DEF n
<1>5. TTL \in Nat /\ TTL >= n
    BY <1>1, <1>3, <1>4 DEF Larger
<1>6. TTL * limit.rate >= n * limit.rate
    BY <1>1, <1>3, <1>5, Products
<1>7. TTL * limit.rate \in Nat /\ n * limit.rate \in Nat
    BY <1>1, <1>3, <1>5
<1> QED
    BY <1>1, <1>2, <1>3, <1>5, <1>6, <1>7
\* What a bucket holds after refilling (_refill).
Refilling ==
    /\ Refilled \in Nat /\ Refilled <= Capacity
    /\ bucket.tokens \in Nat /\ bucket.age \in Nat /\ bucket.age * limit.rate \in Nat
    /\ bucket.kept /\ Refilled < Capacity => Refilled = bucket.tokens + bucket.age * limit.rate
    /\ bucket.kept /\ bucket.tokens + bucket.age * limit.rate >= Capacity => Refilled = Capacity
    /\ bucket.kept => Refilled <= bucket.tokens + bucket.age * limit.rate
    /\ ~bucket.kept => Refilled = Initial

\* Whatever is stored refills like this, in the script and in a process.
LEMMA RefilledFacts == BucketTypes => Refilling
<1> SUFFICES ASSUME BucketTypes PROVE Refilling
    OBVIOUS
<1>1. limit \in Limits /\ bucket.tokens \in Nat /\ bucket.age \in Nat
    BY DEF BucketTypes, Stores
<1>2. /\ limit.rate \in Nat /\ Capacity \in Nat /\ Initial \in Nat /\ Initial <= Capacity
    BY <1>1, LimitFacts
<1> DEFINE back == bucket.age * limit.rate
<1>3. back \in Nat
    BY <1>1, <1>2, Products
<1>4. Refilled = IF bucket.kept THEN Smaller(Capacity, bucket.tokens + back) ELSE Initial
    BY DEF Refilled
<1> HIDE DEF back
<1>5. /\ Refilled \in Nat /\ Refilled <= Capacity
      /\ bucket.kept /\ Refilled < Capacity => Refilled = bucket.tokens + back
      /\ bucket.kept /\ bucket.tokens + back >= Capacity => Refilled = Capacity
      /\ bucket.kept => Refilled <= bucket.tokens + back
      /\ ~bucket.kept => Refilled = Initial
    BY <1>1, <1>2, <1>3, <1>4 DEF Smaller
<1> QED
    BY <1>1, <1>3, <1>5 DEF back, Refilling

\* The same of the bucket that a step leaves.
LEMMA RefilledNext == BucketTypes' => Refilling'
    BY RefilledFacts, PTL

\* How long a caller is told to sleep: long enough for the token, and no longer than for
\* one from an empty bucket (acquire).
LEMMA WaitFacts ==
    ASSUME limit \in Limits, NEW t \in Nat, t <= Unit
    PROVE  /\ Wait(t) \in Nat /\ Wait(t) <= Wait(0)
           /\ t + Wait(t) * limit.rate >= Unit
<1>1. limit.rate \in Nat \ {0} /\ Unit \in Nat
    BY LimitFacts
<1>2. Unit - t \in Nat /\ Unit - 0 \in Nat /\ Unit - t <= Unit - 0
    BY <1>1
<1> DEFINE n == Ceiling(Unit - t, limit.rate)
<1> DEFINE m == Ceiling(Unit - 0, limit.rate)
<1>3. n \in Nat /\ m \in Nat /\ n * limit.rate >= Unit - t /\ n <= m
    BY <1>1, <1>2, CeilingFacts
<1>4. Wait(t) = Larger(1, n) /\ Wait(0) = Larger(1, m)
    BY DEF Wait
<1> HIDE DEF n, m
<1>5. Wait(t) \in Nat /\ Wait(t) <= Wait(0) /\ n <= Wait(t)
    BY <1>3, <1>4 DEF Larger
<1>6. n * limit.rate <= Wait(t) * limit.rate
    BY <1>1, <1>3, <1>5, Products
<1>7. n * limit.rate \in Nat /\ Wait(t) * limit.rate \in Nat
    BY <1>1, <1>3, <1>5
<1> QED
    BY <1>1, <1>2, <1>3, <1>5, <1>6, <1>7
\* What a caller may have slept (acquire), after it was told or untold.
LEMMA NapFacts ==
    ASSUME sleeps \in [Callers -> Naps]
    PROVE  /\ Awake \in Naps /\ ~Awake.told /\ Awake.ticks = 0
           /\ Untold \in [Callers -> Naps]
           /\ \A c \in Callers : ~Untold[c].told /\ Untold[c].ticks = sleeps[c].ticks
           /\ \A c \in Callers : sleeps[c].ticks \in Nat /\ sleeps[c].told \in BOOLEAN
<1>1. Awake \in Naps /\ ~Awake.told /\ Awake.ticks = 0
    BY DEF Awake, Naps
<1>2. \A c \in Callers : sleeps[c].ticks \in Nat /\ sleeps[c].told \in BOOLEAN
    BY DEF Naps
<1>3. ASSUME NEW c \in Callers
      PROVE  /\ [sleeps[c] EXCEPT !.told = FALSE] \in Naps
             /\ ~[sleeps[c] EXCEPT !.told = FALSE].told
             /\ [sleeps[c] EXCEPT !.told = FALSE].ticks = sleeps[c].ticks
    BY DEF Naps
<1>4. Untold = [c \in Callers |-> [sleeps[c] EXCEPT !.told = FALSE]]
    BY DEF Untold
<1> QED
    BY <1>1, <1>2, <1>3, <1>4

\* What is stored reads back, and holds no more than it did (the script's HSET).
LEMMA StoredFacts ==
    ASSUME NEW t \in Nat
    PROVE  /\ Stored(t) \in Stores
           /\ Stored(t).kept /\ Stored(t).tokens = t /\ Stored(t).age = 0
    BY DEF Stored, Stores

\* A limit stays what it was made with (RateLimiter.__init__).
LEMMA SameLimit ==
    ASSUME limit' = limit
    PROVE  Capacity' = Capacity /\ Initial' = Initial /\ TTL' = TTL
           /\ \A t : Wait(t)' = Wait(t)
    BY DEF Capacity, Initial, TTL, Wait, Larger, Ceiling

\* Taking a token moves a unit of the bucket to what is used: acquire and try_acquire.
LEMMA TakeKeeps ==
    ASSUME BucketInv, Take, UNCHANGED <<limit, waived>>,
           sleeps' \in [Callers -> Naps],
           \A c \in Callers : ~sleeps'[c].told /\ sleeps'[c].ticks <= sleeps[c].ticks
    PROVE  BucketInv'
<1>1. BucketTypes /\ limit \in Limits /\ level \in Nat
    BY DEF BucketInv, BucketTypes
<1>2. /\ Capacity \in Nat /\ Initial \in Nat /\ TTL \in Nat
      /\ Unit \in Nat /\ limit.rate \in Nat
    BY <1>1, LimitFacts
<1>3. Refilled \in Nat /\ Refilled <= Capacity /\ Refilled >= Unit
    BY <1>1, RefilledFacts DEF Take, Refilling
<1>4. Refilled - Unit \in Nat
    BY <1>2, <1>3
<1>5. bucket' = Stored(Refilled - Unit)
    BY DEF Take
<1>6. bucket' \in Stores /\ bucket'.kept /\ bucket'.tokens = Refilled - Unit /\ bucket'.age = 0
    BY <1>4, <1>5, StoredFacts
<1>7. Capacity' = Capacity /\ Initial' = Initial /\ TTL' = TTL /\ Wait(0)' = Wait(0)
    BY SameLimit
<1>8. level' \in Nat /\ level' <= level + Unit
    BY <1>1, <1>2 DEF Take, Used, Smaller
<1>9. BucketTypes'
  <2>1. Wait(0) \in Nat
      BY <1>1, <1>2, WaitFacts
  <2>2. \A c \in Callers : sleeps'[c].ticks <= Wait(0)
    <3> TAKE c \in Callers
    <3>1. sleeps[c].ticks \in Nat /\ sleeps[c].ticks <= Wait(0)
        BY <1>1 DEF BucketTypes, Naps
    <3>2. sleeps'[c].ticks \in Nat /\ sleeps'[c].ticks <= sleeps[c].ticks
        BY DEF Naps
    <3> QED
        BY <2>1, <3>1, <3>2
  <2>3. bucket'.tokens <= Capacity /\ bucket'.age <= TTL
      BY <1>2, <1>3, <1>6
  <2> QED
      BY <1>1, <1>6, <1>7, <1>8, <2>2, <2>3 DEF BucketTypes
<1>10. Refilled' <= Refilled - Unit
  <2>1. Refilled' <= bucket'.tokens + bucket'.age * limit'.rate
      BY <1>6, <1>9, RefilledNext DEF Refilling
  <2>2. bucket'.tokens + bucket'.age * limit'.rate = Refilled - Unit
      BY <1>2, <1>4, <1>6
  <2> QED
      BY <2>1, <2>2
<1>11. MeterInv'
  <2>1. Refilled' \in Nat
      BY <1>9, RefilledNext DEF Refilling
  <2>2. waived \/ level + Refilled <= Capacity
      BY DEF BucketInv, MeterInv
  <2> DEFINE metered == level'
             refilled == Refilled'
             before == Refilled
             capacity == Capacity
  <2>3. /\ metered \in Nat /\ refilled \in Nat /\ before \in Nat /\ capacity \in Nat
        /\ level \in Nat /\ Unit \in Nat
      BY <1>1, <1>2, <1>3, <1>8, <2>1
  <2>4. metered <= level + Unit /\ refilled <= before - Unit
      BY <1>8, <1>10
  <2>5. waived \/ level + before <= capacity
      BY <2>2
  <2> HIDE DEF metered, refilled, before, capacity
  <2>6. waived \/ metered + refilled <= capacity
      BY <2>3, <2>4, <2>5
  <2> USE DEF metered, refilled, before, capacity
  <2>7. waived \/ level' + Refilled' <= Capacity
      BY <2>6
  <2> QED
      BY <1>7, <2>7 DEF MeterInv
<1> QED
    BY <1>9, <1>11 DEF BucketInv, SleepInv

\* A refusal writes the refill back and takes nothing: acquire, that is told how long
\* to sleep, and try_acquire.
LEMMA RefusalKeeps ==
    ASSUME BucketInv, Refilled < Unit, bucket' = Stored(Refilled),
           UNCHANGED <<limit, waived, level>>,
           sleeps' \in [Callers -> Naps],
           \A c \in Callers : \/ sleeps'[c] = sleeps[c]
                              \/ sleeps'[c] = [told |-> TRUE, ticks |-> Wait(Refilled)]
    PROVE  BucketInv'
<1>1. BucketTypes /\ limit \in Limits /\ level \in Nat
    BY DEF BucketInv, BucketTypes
<1>2. /\ Capacity \in Nat /\ Initial \in Nat /\ TTL \in Nat /\ Capacity >= Unit
      /\ Unit \in Nat /\ limit.rate \in Nat
    BY <1>1, LimitFacts
<1>3. Refilling
    BY <1>1, RefilledFacts
<1>4. Refilled \in Nat /\ Refilled <= Capacity /\ Refilled <= Unit
    BY <1>2, <1>3 DEF Refilling
<1>5. bucket' \in Stores /\ bucket'.kept /\ bucket'.tokens = Refilled /\ bucket'.age = 0
    BY <1>4, StoredFacts
<1>6. Capacity' = Capacity /\ Initial' = Initial /\ TTL' = TTL /\ Wait(0)' = Wait(0)
    BY SameLimit
<1>7. /\ Wait(Refilled) \in Nat /\ Wait(Refilled) <= Wait(0)
      /\ Refilled + Wait(Refilled) * limit.rate >= Unit
    BY <1>1, <1>4, WaitFacts
<1> DEFINE W == Wait(Refilled)
<1>8. \A c \in Callers : \/ sleeps'[c] = sleeps[c]
                         \/ sleeps'[c].ticks = W
    OBVIOUS
<1> HIDE DEF W
<1>9. \A c \in Callers : sleeps'[c].ticks \in Nat /\ sleeps[c].ticks \in Nat
    BY <1>1 DEF BucketTypes, Naps
<1>10. BucketTypes'
  <2>1. \A c \in Callers : sleeps'[c].ticks <= Wait(0)
      BY <1>1, <1>7, <1>8 DEF BucketTypes, W
  <2>2. bucket'.tokens <= Capacity /\ bucket'.age <= TTL
      BY <1>2, <1>4, <1>5
  <2> QED
      BY <1>1, <1>5, <1>6, <2>1, <2>2 DEF BucketTypes
<1>11. MeterInv'
  <2>1. Refilled' <= bucket'.tokens + bucket'.age * limit'.rate /\ Refilled' \in Nat
      BY <1>5, <1>10, RefilledNext DEF Refilling
  <2>2. bucket'.tokens + bucket'.age * limit'.rate = Refilled
      BY <1>2, <1>4, <1>5
  <2>3. waived \/ level + Refilled <= Capacity
      BY DEF BucketInv, MeterInv
  <2> DEFINE before == Refilled
             after == Refilled'
  <2>4. before \in Nat /\ after \in Nat /\ after <= before
      BY <1>4, <2>1, <2>2
  <2>5. waived \/ level + before <= Capacity
      BY <2>3
  <2> HIDE DEF before, after
  <2>6. waived \/ level + after <= Capacity
      BY <1>1, <1>2, <2>4, <2>5
  <2>7. waived \/ level + Refilled' <= Capacity
      BY <2>6 DEF after
  <2> QED
      BY <1>6, <2>7 DEF MeterInv
<1>12. SleepInv'
  <2>1. CASE waived
      BY <2>1 DEF SleepInv
  <2>2. CASE ~waived
    <3> SUFFICES ASSUME NEW c \in Callers, sleeps'[c].told
                 PROVE  bucket'.tokens + (bucket'.age + sleeps'[c].ticks) * limit'.rate >= Unit
        BY <1>5 DEF SleepInv
    <3>1. bucket'.age + sleeps'[c].ticks = sleeps'[c].ticks
        BY <1>5, <1>9
    <3>2. SUFFICES Refilled + sleeps'[c].ticks * limit.rate >= Unit
        BY <1>5, <3>1
    <3>3. CASE sleeps'[c].ticks = W
        BY <1>7, <3>3 DEF W
    <3>4. CASE sleeps'[c] = sleeps[c]
      <4> DEFINE n == sleeps[c].ticks
      <4>1. bucket.kept /\ bucket.tokens + (bucket.age + n) * limit.rate >= Unit
          BY <2>2, <3>4 DEF BucketInv, SleepInv
      <4>2. n \in Nat /\ bucket.age \in Nat /\ bucket.tokens \in Nat
          BY <1>3, <1>9 DEF Refilling
      <4> HIDE DEF n
      <4>3. (bucket.age + n) * limit.rate = bucket.age * limit.rate + n * limit.rate
          BY <1>2, <4>2, Products
      <4>4. Refilled = bucket.tokens + bucket.age * limit.rate
          BY <1>2, <1>3, <1>4, <4>1 DEF Refilling
      <4>5. bucket.age * limit.rate \in Nat /\ n * limit.rate \in Nat
          BY <1>2, <4>2
      <4>6. Refilled + n * limit.rate >= Unit
          BY <1>2, <4>1, <4>2, <4>3, <4>4, <4>5
      <4> QED
          BY <3>4, <4>6 DEF n
    <3> QED
        BY <1>8, <3>3, <3>4
  <2> QED
      BY <2>1, <2>2
<1> QED
    BY <1>10, <1>11, <1>12 DEF BucketInv

\* Callers of acquire and of try_acquire, in a process or through redis.
LEMMA CallsKeep ==
    ASSUME BucketInv, NEW c \in Callers, Acquire(c) \/ TryAcquire(c)
    PROVE  BucketInv'
<1>1. sleeps \in [Callers -> Naps] /\ limit \in Limits /\ BucketTypes
    BY DEF BucketInv, BucketTypes
<1>2. /\ Awake \in Naps /\ ~Awake.told /\ Awake.ticks = 0
      /\ Untold \in [Callers -> Naps]
      /\ \A d \in Callers : ~Untold[d].told /\ Untold[d].ticks = sleeps[d].ticks
      /\ \A d \in Callers : sleeps[d].ticks \in Nat
    BY <1>1, NapFacts
<1>3. UNCHANGED <<limit, waived>>
    BY DEF Acquire, TryAcquire
<1>4. CASE Take /\ sleeps' = [Untold EXCEPT ![c] = Awake]
  <2>1. sleeps' \in [Callers -> Naps]
      BY <1>2, <1>4
  <2>2. \A d \in Callers : sleeps'[d] = IF d = c THEN Awake ELSE Untold[d]
      BY <1>2, <1>4
  <2>3. \A d \in Callers : ~sleeps'[d].told /\ sleeps'[d].ticks <= sleeps[d].ticks
      BY <1>2, <2>2
  <2> QED
      BY <1>3, <1>4, <2>1, <2>3, TakeKeeps
<1>5. CASE Take /\ sleeps' = Untold
  <2>1. \A d \in Callers : ~sleeps'[d].told /\ sleeps'[d].ticks <= sleeps[d].ticks
      BY <1>2, <1>5
  <2> QED
      BY <1>2, <1>3, <1>5, <2>1, TakeKeeps
<1>6. CASE /\ Refilled < Unit /\ bucket' = Stored(Refilled) /\ UNCHANGED level
           /\ sleeps' = [sleeps EXCEPT ![c] = [told |-> TRUE, ticks |-> Wait(Refilled)]]
  <2>1. Refilled \in Nat /\ Refilled <= Unit
      BY <1>1, <1>6, RefilledFacts, LimitFacts DEF Refilling
  <2>2. Wait(Refilled) \in Nat
      BY <1>1, <2>1, WaitFacts
  <2>3. [told |-> TRUE, ticks |-> Wait(Refilled)] \in Naps
      BY <2>2 DEF Naps
  <2>4. sleeps' \in [Callers -> Naps]
      BY <1>1, <1>6, <2>3
  <2>5. \A d \in Callers : \/ sleeps'[d] = sleeps[d]
                           \/ sleeps'[d] = [told |-> TRUE, ticks |-> Wait(Refilled)]
      BY <1>1, <1>6
  <2> QED
      BY <1>3, <1>6, <2>4, <2>5, RefusalKeeps
<1>7. CASE Refilled < Unit /\ bucket' = Stored(Refilled) /\ UNCHANGED <<level, sleeps>>
  <2>1. sleeps' \in [Callers -> Naps] /\ \A d \in Callers : sleeps'[d] = sleeps[d]
      BY <1>1, <1>7
  <2> QED
      BY <1>3, <1>7, <2>1, RefusalKeeps
<1> QED
    BY <1>4, <1>5, <1>6, <1>7 DEF Acquire, TryAcquire

\* An outage of redis, and a restart of what keeps the bucket, wait for nothing.
LEMMA OutagesKeep ==
    ASSUME BucketInv, FailsOpen \/ StoreIsEmptied
    PROVE  BucketInv'
<1>1. waived' /\ waived' \in BOOLEAN /\ UNCHANGED <<limit, level, sleeps>>
    BY DEF FailsOpen, StoreIsEmptied
<1>2. Capacity' = Capacity /\ Initial' = Initial /\ TTL' = TTL /\ Wait(0)' = Wait(0)
    BY <1>1, SameLimit
<1>3. BucketTypes /\ limit \in Limits
    BY DEF BucketInv, BucketTypes
<1>4. Capacity \in Nat /\ TTL \in Nat
    BY <1>3, LimitFacts
<1>5. bucket' \in Stores /\ bucket'.tokens <= Capacity /\ bucket'.age <= TTL
  <2>1. CASE bucket' = bucket
      BY <1>3, <2>1 DEF BucketTypes
  <2>2. CASE bucket' = Forgotten
      BY <1>4, <2>2 DEF Forgotten, Stores
  <2> QED
      BY <2>1, <2>2 DEF FailsOpen, StoreIsEmptied
<1>6. BucketTypes'
    BY <1>1, <1>2, <1>3, <1>5 DEF BucketTypes
<1> QED
    BY <1>1, <1>6 DEF BucketInv, MeterInv, SleepInv

\* A tick leaves callers a tick less to sleep; nobody counts on a bucket that is gone.
LEMMA TickedSleeps ==
    ASSUME sleeps \in [Callers -> Naps], Tick
    PROVE  /\ sleeps' \in [Callers -> Naps]
           /\ \A c \in Callers :
                 /\ sleeps'[c].ticks \in Nat
                 /\ sleeps'[c].ticks <= sleeps[c].ticks
                 /\ sleeps[c].ticks <= sleeps'[c].ticks + 1
                 /\ sleeps'[c].told => sleeps[c].told /\ ~Expires
<1> DEFINE S == IF Expires THEN Untold ELSE sleeps
<1>1. sleeps' = [c \in Callers |-> [S[c] EXCEPT !.ticks = @ - Smaller(@, 1)]]
    BY DEF Tick
<1>2. S \in [Callers -> Naps]
    BY NapFacts
<1>3. \A c \in Callers : S[c].ticks = sleeps[c].ticks /\ (S[c].told => sleeps[c].told /\ ~Expires)
  <2>1. CASE Expires
      BY <2>1, NapFacts
  <2>2. CASE ~Expires
      BY <2>2
  <2> QED
      BY <2>1, <2>2
<1> HIDE DEF S
<1>4. ASSUME NEW c \in Callers
      PROVE  /\ [S[c] EXCEPT !.ticks = @ - Smaller(@, 1)] \in Naps
             /\ sleeps'[c].ticks \in Nat
             /\ sleeps'[c].ticks <= sleeps[c].ticks
             /\ sleeps[c].ticks <= sleeps'[c].ticks + 1
             /\ sleeps'[c].told = S[c].told
  <2> DEFINE r == S[c]
  <2> DEFINE q == [r EXCEPT !.ticks = @ - Smaller(@, 1)]
  <2>1. r \in Naps
      BY <1>2
  <2>2. sleeps'[c] = q
      BY <1>1
  <2> HIDE DEF r
  <2>3. r.ticks \in Nat /\ r.told \in BOOLEAN
      BY <2>1 DEF Naps
  <2>4. q \in Naps /\ q.ticks = r.ticks - Smaller(r.ticks, 1) /\ q.told = r.told
      BY <2>1, <2>3 DEF Naps, Smaller
  <2>5. q.ticks \in Nat /\ q.ticks <= r.ticks /\ r.ticks <= q.ticks + 1
      BY <2>3, <2>4 DEF Smaller
  <2>6. r.ticks = sleeps[c].ticks
      BY <1>3 DEF r
  <2> HIDE DEF q
  <2>7. q \in Naps /\ sleeps'[c].told = r.told
      BY <2>2, <2>4
  <2>8. /\ sleeps'[c].ticks \in Nat /\ sleeps'[c].ticks <= sleeps[c].ticks
        /\ sleeps[c].ticks <= sleeps'[c].ticks + 1
      BY <2>2, <2>5, <2>6
  <2> QED
      BY <2>7, <2>8 DEF q, r
<1>5. sleeps' \in [Callers -> Naps]
    BY <1>1, <1>4
<1> QED
    BY <1>3, <1>4, <1>5

\* What a tick lets flow back into a bucket that stays: no more than the rate.
LEMMA TickedRefill ==
    ASSUME BucketTypes, BucketTypes', Tick, bucket.kept, ~Expires
    PROVE  Refilled' <= Refilled + limit.rate
<1>1. limit \in Limits /\ bucket \in Stores
    BY DEF BucketTypes
<1>2. limit.rate \in Nat /\ Capacity \in Nat /\ TTL \in Nat
    BY <1>1, LimitFacts
<1>3. Refilling /\ Refilling'
    BY RefilledFacts, RefilledNext
<1>4. bucket' = [bucket EXCEPT !.age = Smaller(@ + 1, TTL)] /\ limit' = limit
    BY DEF Tick
<1>5. /\ bucket'.kept = bucket.kept /\ bucket'.tokens = bucket.tokens
      /\ bucket'.age = Smaller(bucket.age + 1, TTL)
    BY <1>1, <1>4 DEF Stores
<1>6. bucket.age \in Nat /\ bucket'.age \in Nat /\ bucket.tokens \in Nat
    BY <1>3 DEF Refilling
<1>7. bucket'.age <= bucket.age + 1
    BY <1>2, <1>5, <1>6 DEF Smaller
<1>8. Capacity' = Capacity
    BY <1>4, SameLimit
<1> DEFINE old == bucket.age * limit.rate
<1> DEFINE new == bucket'.age * limit.rate
<1>9. old \in Nat /\ new \in Nat /\ new <= old + limit.rate
  <2>1. bucket.age + 1 \in Nat
      BY <1>6
  <2>2. new <= (bucket.age + 1) * limit.rate
      BY <1>2, <1>6, <1>7, <2>1, Products
  <2>3. (bucket.age + 1) * limit.rate = old + limit.rate
      BY <1>2, <1>6, Products
  <2>4. old \in Nat /\ new \in Nat
      BY <1>2, <1>6, Products
  <2> QED
      BY <2>2, <2>3, <2>4
<1>10. /\ Refilled' <= bucket.tokens + new /\ Refilled' <= Capacity
       /\ Refilled' \in Nat /\ Refilled \in Nat /\ Refilled <= Capacity
       /\ Refilled < Capacity => Refilled = bucket.tokens + old
    BY <1>3, <1>4, <1>5, <1>8 DEF Refilling
<1> HIDE DEF old, new
<1> QED
    BY <1>2, <1>6, <1>9, <1>10

\* What has been idle until redis forgets it had refilled, but for the last tick.
LEMMA IdleIsFull ==
    ASSUME BucketTypes, bucket.kept, Expires
    PROVE  Refilled = Capacity \/ limit.rate > Capacity
<1>1. limit \in Limits
    BY DEF BucketTypes
<1>2. limit.rate \in Nat /\ Capacity \in Nat /\ TTL \in Nat /\ TTL * limit.rate >= 2 * Capacity
    BY <1>1, LimitFacts
<1>3. Refilling
    BY RefilledFacts
<1>4. bucket.age \in Nat /\ bucket.tokens \in Nat /\ bucket.age + 1 >= TTL
    BY <1>3 DEF Refilling, Expires
<1> DEFINE old == bucket.age * limit.rate
<1> DEFINE due == TTL * limit.rate
<1>5. old \in Nat /\ due \in Nat /\ due >= 2 * Capacity
    BY <1>2, <1>4, Products
<1>6. due <= old + limit.rate
  <2>1. bucket.age + 1 \in Nat
      BY <1>4
  <2>2. due <= (bucket.age + 1) * limit.rate
      BY <1>2, <1>4, <2>1, Products
  <2>3. (bucket.age + 1) * limit.rate = old + limit.rate
      BY <1>2, <1>4, Products
  <2> QED
      BY <2>2, <2>3
<1>7. bucket.tokens + old >= Capacity => Refilled = Capacity
    BY <1>3 DEF Refilling
<1> HIDE DEF old, due
<1> QED
    BY <1>2, <1>4, <1>5, <1>6, <1>7

\* Time passing: what was used flows back no faster than the reference meter lets it
\* (the refill of the script and of a process, and the TTL).
LEMMA TickKeeps ==
    ASSUME BucketInv, Tick
    PROVE  BucketInv'
<1>1. BucketTypes /\ limit \in Limits /\ level \in Nat /\ bucket \in Stores
    BY DEF BucketInv, BucketTypes
<1>2. /\ Capacity \in Nat /\ Initial \in Nat /\ Initial <= Capacity /\ TTL \in Nat
      /\ Capacity >= Unit /\ TTL * limit.rate >= 2 * Capacity
      /\ Unit \in Nat /\ limit.rate \in Nat
    BY <1>1, LimitFacts
<1>3. Refilling
    BY <1>1, RefilledFacts
<1>4. UNCHANGED <<limit, waived>>
    BY DEF Tick
<1>5. Capacity' = Capacity /\ Initial' = Initial /\ TTL' = TTL /\ Wait(0)' = Wait(0)
    BY <1>4, SameLimit
<1>6. /\ sleeps' \in [Callers -> Naps]
      /\ \A c \in Callers :
            /\ sleeps'[c].ticks \in Nat
            /\ sleeps'[c].ticks <= sleeps[c].ticks
            /\ sleeps[c].ticks <= sleeps'[c].ticks + 1
            /\ sleeps'[c].told => sleeps[c].told /\ ~Expires
    BY <1>1, TickedSleeps DEF BucketTypes
<1>7. \A c \in Callers : sleeps[c].ticks \in Nat /\ sleeps[c].ticks <= Wait(0)
    BY <1>1 DEF BucketTypes, Naps
<1>8. /\ level' \in Nat /\ level' <= level
      /\ level <= limit.rate => level' = 0
      /\ level > limit.rate => level' = level - limit.rate
  <2>1. level' = level - Smaller(level, limit.rate)
      BY DEF Tick
  <2> QED
      BY <1>1, <1>2, <2>1 DEF Smaller
<1>9. bucket.tokens \in Nat /\ bucket.age \in Nat
    BY <1>3 DEF Refilling
<1>10. CASE ~bucket.kept
  <2>1. bucket' = bucket
      BY <1>10 DEF Tick
  <2>2. BucketTypes'
    <3>1. \A c \in Callers : sleeps'[c].ticks <= Wait(0)
      <4>1. Wait(0) \in Nat
          BY <1>1, <1>2, WaitFacts
      <4> QED
          BY <1>6, <1>7, <4>1
    <3> QED
        BY <1>1, <1>4, <1>5, <1>6, <1>8, <2>1, <3>1 DEF BucketTypes
  <2>3. Refilled' = Refilled
      BY <1>3, <1>5, <1>10, <2>1, <2>2, RefilledNext DEF Refilling
  <2>4. MeterInv'
    <3>1. waived \/ level + Refilled <= Capacity
        BY DEF BucketInv, MeterInv
    <3>2. Refilled \in Nat
        BY <1>3 DEF Refilling
    <3>3. level \in Nat /\ Capacity \in Nat /\ level' \in Nat /\ level' <= level
        BY <1>1, <1>2, <1>8
    <3> DEFINE new == level'
    <3> HIDE DEF new
    <3>4. new \in Nat /\ new <= level
        BY <3>3 DEF new
    <3>5. level + Refilled <= Capacity => new + Refilled <= Capacity
        BY <3>2, <3>3, <3>4
    <3> QED
        BY <1>4, <1>5, <2>3, <3>1, <3>5 DEF MeterInv, new
  <2>5. SleepInv'
      BY <1>4, <1>6, <1>10 DEF BucketInv, SleepInv
  <2> QED
      BY <2>2, <2>4, <2>5 DEF BucketInv
<1>11. CASE bucket.kept /\ Expires
  <2>1. bucket' = Forgotten
      BY <1>11 DEF Tick
  <2>2. bucket' \in Stores /\ ~bucket'.kept /\ bucket'.tokens = 0 /\ bucket'.age = 0
      BY <2>1 DEF Forgotten, Stores
  <2>3. BucketTypes'
    <3>1. \A c \in Callers : sleeps'[c].ticks <= Wait(0)
      <4>1. Wait(0) \in Nat
          BY <1>1, <1>2, WaitFacts
      <4> QED
          BY <1>6, <1>7, <4>1
    <3>2. bucket'.tokens <= Capacity /\ bucket'.age <= TTL
        BY <1>2, <2>2
    <3> QED
        BY <1>1, <1>4, <1>5, <1>6, <1>8, <2>2, <3>1, <3>2 DEF BucketTypes
  <2>4. Refilled' = Initial
      BY <1>5, <2>2, <2>3, RefilledNext DEF Refilling
  <2>5. MeterInv'
    <3>1. waived \/ level + Refilled <= Capacity
        BY DEF BucketInv, MeterInv
    <3>2. Refilled = Capacity \/ limit.rate > Capacity
        BY <1>1, <1>11, IdleIsFull
    <3>3. Refilled \in Nat
        BY <1>3 DEF Refilling
    <3>4. waived \/ level' = 0
        BY <1>1, <1>2, <1>8, <3>1, <3>2, <3>3
    <3>5. waived \/ level' + Initial <= Capacity
        BY <1>2, <3>4
    <3> QED
        BY <1>4, <1>5, <2>4, <3>5 DEF MeterInv
  <2>6. SleepInv'
      BY <1>6, <1>11 DEF SleepInv
  <2> QED
      BY <2>3, <2>5, <2>6 DEF BucketInv
<1>12. CASE bucket.kept /\ ~Expires
  <2>1. bucket' = [bucket EXCEPT !.age = Smaller(@ + 1, TTL)]
      BY <1>12 DEF Tick
  <2>2. /\ bucket'.kept /\ bucket'.tokens = bucket.tokens
        /\ bucket'.age = Smaller(bucket.age + 1, TTL)
      BY <1>1, <1>12, <2>1 DEF Stores
  <2>3. Smaller(bucket.age + 1, TTL) \in Nat /\ Smaller(bucket.age + 1, TTL) <= TTL
      BY <1>2, <1>9 DEF Smaller
  <2>4. bucket' \in Stores
      BY <1>1, <2>1, <2>3 DEF Stores
  <2>5. BucketTypes'
    <3>1. \A c \in Callers : sleeps'[c].ticks <= Wait(0)
      <4>1. Wait(0) \in Nat
          BY <1>1, <1>2, WaitFacts
      <4> QED
          BY <1>6, <1>7, <4>1
    <3>2. bucket'.tokens <= Capacity /\ bucket'.age <= TTL
        BY <1>1, <2>2, <2>3 DEF BucketTypes
    <3> QED
        BY <1>1, <1>4, <1>5, <1>6, <1>8, <2>4, <3>1, <3>2 DEF BucketTypes
  <2>6. MeterInv'
    <3>1. waived \/ level + Refilled <= Capacity
        BY DEF BucketInv, MeterInv
    <3>2. Refilled' <= Refilled + limit.rate
        BY <1>1, <1>12, <2>5, TickedRefill
    <3>3. Refilled' \in Nat /\ Refilled' <= Capacity /\ Refilled \in Nat
        BY <1>3, <1>5, <2>5, RefilledNext DEF Refilling
    <3>4. Capacity \in Nat /\ limit.rate \in Nat /\ level \in Nat
        BY <1>1, <1>2
    <3> DEFINE new == level'
    <3> DEFINE back == Refilled'
    <3> HIDE DEF new, back
    <3>5. /\ new \in Nat /\ back \in Nat /\ back <= Capacity
          /\ back <= Refilled + limit.rate
          /\ level <= limit.rate => new = 0
          /\ level > limit.rate => new = level - limit.rate
        BY <1>8, <3>2, <3>3 DEF new, back
    <3>6. level + Refilled <= Capacity => new + back <= Capacity
        BY <3>3, <3>4, <3>5
    <3> QED
        BY <1>4, <1>5, <3>1, <3>6 DEF MeterInv, new, back
  <2>7. SleepInv'
    <3>1. CASE waived
        BY <1>4, <3>1 DEF SleepInv
    <3>2. CASE ~waived
      <4> SUFFICES ASSUME NEW c \in Callers, sleeps'[c].told
                   PROVE  bucket'.tokens + (bucket'.age + sleeps'[c].ticks) * limit'.rate >= Unit
          BY <2>2 DEF SleepInv
      <4> DEFINE m == bucket.age + sleeps[c].ticks
      <4> DEFINE n == bucket'.age + sleeps'[c].ticks
      <4>1. /\ sleeps[c].ticks \in Nat /\ sleeps'[c].ticks \in Nat
            /\ sleeps[c].ticks <= sleeps'[c].ticks + 1 /\ sleeps[c].told
          BY <1>6, <1>7
      <4>2. bucket.tokens + m * limit.rate >= Unit
          BY <3>2, <4>1 DEF BucketInv, SleepInv
      <4>3. m \in Nat /\ n \in Nat /\ (n >= m \/ n >= TTL)
          BY <1>2, <1>9, <2>2, <2>3, <4>1 DEF Smaller
      <4> HIDE DEF m, n
      <4>4. /\ m * limit.rate \in Nat /\ n * limit.rate \in Nat /\ TTL * limit.rate \in Nat
            /\ m <= n => m * limit.rate <= n * limit.rate
            /\ TTL <= n => TTL * limit.rate <= n * limit.rate
          BY <1>2, <4>3, Products
      <4>5. bucket.tokens + n * limit.rate >= Unit
          BY <1>2, <1>9, <4>2, <4>3, <4>4
      <4>6. limit' = limit /\ bucket'.tokens = bucket.tokens
          BY <1>4, <2>2
      <4> QED
          BY <4>5, <4>6 DEF n
    <3> QED
        BY <3>1, <3>2
  <2> QED
      BY <2>5, <2>6, <2>7 DEF BucketInv
<1> QED
    BY <1>10, <1>11, <1>12

\* A limiter starts with what Initial says, and nothing used.
LEMMA BucketsStart == BucketInit => BucketInv
<1> SUFFICES ASSUME BucketInit PROVE BucketInv
    OBVIOUS
<1>1. limit \in Limits
    BY DEF BucketInit, Limits
<1>2. /\ Capacity \in Nat /\ Initial \in Nat /\ Initial <= Capacity /\ TTL \in Nat
    BY <1>1, LimitFacts
<1>3. bucket \in Stores /\ ~bucket.kept /\ bucket.tokens = 0 /\ bucket.age = 0
    BY DEF BucketInit, Forgotten, Stores
<1>4. sleeps \in [Callers -> Naps] /\ \A c \in Callers : ~sleeps[c].told /\ sleeps[c].ticks = 0
    BY DEF BucketInit, Awake, Naps
<1>5. 0 <= Wait(0)
  <2>1. 0 <= Unit
      BY <1>1, LimitFacts
  <2> QED
      BY <1>1, <2>1, WaitFacts
<1>6. BucketTypes
  <2>1. bucket.tokens <= Capacity /\ bucket.age <= TTL
      BY <1>2, <1>3
  <2>2. \A c \in Callers : sleeps[c].ticks <= Wait(0)
      BY <1>4, <1>5
  <2>3. level \in Nat /\ waived \in BOOLEAN
      BY DEF BucketInit
  <2> QED
      BY <1>1, <1>3, <1>4, <2>1, <2>2, <2>3 DEF BucketTypes
<1>7. MeterInv
  <2>1. Refilled = Initial /\ level = 0
      BY <1>3, <1>6, RefilledFacts DEF Refilling, BucketInit
  <2> QED
      BY <1>2, <2>1 DEF MeterInv
<1>8. SleepInv
    BY <1>4 DEF SleepInv
<1> QED
    BY <1>6, <1>7, <1>8 DEF BucketInv

\* The books of a limiter are kept by every call, outage and tick.
THEOREM BucketInvariant == BucketSpec => []BucketInv
<1>1. BucketInv /\ [BucketNext]_bucketVars => BucketInv'
  <2> SUFFICES ASSUME BucketInv, [BucketNext]_bucketVars PROVE BucketInv'
      OBVIOUS
  <2>1. CASE \E c \in Callers : Acquire(c) \/ TryAcquire(c)
      BY <2>1, CallsKeep
  <2>2. CASE FailsOpen \/ StoreIsEmptied
      BY <2>2, OutagesKeep
  <2>3. CASE Tick
      BY <2>3, TickKeeps
  <2>4. CASE UNCHANGED bucketVars
    <3>1. BucketTypes'
      <4>1. UNCHANGED <<limit, bucket, level, sleeps, waived>>
          BY <2>4 DEF bucketVars
      <4>2. Capacity' = Capacity /\ TTL' = TTL /\ Wait(0)' = Wait(0)
          BY <4>1, SameLimit
      <4> QED
          BY <4>1, <4>2 DEF BucketInv, BucketTypes
    <3>2. MeterInv' /\ SleepInv'
      <4>1. UNCHANGED <<limit, bucket, level, sleeps, waived>>
          BY <2>4 DEF bucketVars
      <4>2. Capacity' = Capacity /\ Initial' = Initial
          BY <4>1, SameLimit
      <4>3. Refilled' = Refilled
          BY <4>1, <4>2 DEF Refilled, Smaller
      <4> QED
          BY <4>1, <4>2, <4>3 DEF BucketInv, MeterInv, SleepInv
    <3> QED
        BY <3>1, <3>2 DEF BucketInv
  <2> QED
      BY <2>1, <2>2, <2>3, <2>4 DEF BucketNext
<1> QED
    BY <1>1, BucketsStart, PTL DEF BucketSpec

\* The state of a limiter stays what its fields are declared as (shared/rate_limiter).
THEOREM BucketTypesHold == BucketSpec => []BucketTypeOK
<1>1. BucketInv => BucketTypeOK
  <2> SUFFICES ASSUME BucketInv PROVE BucketTypeOK
      OBVIOUS
  <2>1. BucketTypes /\ limit \in Limits
      BY DEF BucketInv, BucketTypes
  <2>2. Capacity \in Nat /\ TTL \in Nat
      BY <2>1, LimitFacts
  <2>3. Wait(0) \in Nat
    <3>1. 0 <= Unit
        BY <2>1, LimitFacts
    <3> QED
        BY <2>1, <3>1, WaitFacts
  <2>4. bucket \in [kept : BOOLEAN, tokens : 0..Capacity, age : 0..TTL]
      BY <2>1, <2>2 DEF BucketTypes, Stores
  <2>5. \A c \in Callers : sleeps[c] \in [told : BOOLEAN, ticks : 0..Wait(0)]
      BY <2>1, <2>3 DEF BucketTypes, Naps
  <2>6. sleeps \in [Callers -> [told : BOOLEAN, ticks : 0..Wait(0)]]
      BY <2>1, <2>5 DEF BucketTypes
  <2> QED
      BY <2>1, <2>4, <2>6 DEF BucketTypes, BucketTypeOK, Limits
<1> QED
    BY <1>1, BucketInvariant, PTL

\* However callers, ticks and the expiry of an idle bucket interleave, no more is served
\* than the limit allows, and a caller that slept as told is served (_ACQUIRE_LUA and
\* the limiter of a process), but for an outage or a restart.
THEOREM LimitAlwaysHolds == BucketSpec => []LimitHolds
<1>1. BucketInv => LimitHolds
  <2> SUFFICES ASSUME BucketInv, ~waived PROVE LimitHolds
      BY DEF LimitHolds
  <2>1. BucketTypes /\ limit \in Limits /\ level \in Nat
      BY DEF BucketInv, BucketTypes
  <2>2. Capacity \in Nat /\ Capacity >= Unit /\ Unit \in Nat /\ limit.rate \in Nat
      BY <2>1, LimitFacts
  <2>3. Refilling
      BY <2>1, RefilledFacts
  <2>4. level <= Capacity
    <3>1. level + Refilled <= Capacity /\ Refilled \in Nat
        BY <2>3 DEF BucketInv, MeterInv, Refilling
    <3> QED
        BY <2>1, <2>2, <3>1
  <2>5. ASSUME NEW c \in Callers, sleeps[c].told, sleeps[c].ticks = 0
        PROVE  Refilled >= Unit
    <3>1. /\ bucket.kept
          /\ bucket.tokens + (bucket.age + sleeps[c].ticks) * limit.rate >= Unit
        BY <2>5 DEF BucketInv, SleepInv
    <3>2. bucket.age + sleeps[c].ticks = bucket.age
        BY <2>3, <2>5 DEF Refilling
    <3>3. bucket.tokens + bucket.age * limit.rate >= Unit
        BY <3>1, <3>2
    <3>4. Refilled < Capacity => Refilled = bucket.tokens + bucket.age * limit.rate
        BY <2>3, <3>1 DEF Refilling
    <3>5. Refilled \in Nat /\ Refilled <= Capacity
        BY <2>3 DEF Refilling
    <3> QED
        BY <2>2, <3>3, <3>4, <3>5
  <2> QED
      BY <2>4, <2>5 DEF LimitHolds
<1> QED
    BY <1>1, BucketInvariant, PTL

-----------------------------------------------------------------------------
(* Gaps: a run may rely on the reports it has read, as long as no other    *)
(* run that was under way has read the same topic.                         *)

GapRows == [status : {"absent", "open", "dismissed"}, topic : Topics \cup {NoTopic},
            ids : SUBSET Questions]

GapCopies == [phase : {"idle", "embedding", "naming"}, seen : SUBSET Questions,
              open : SUBSET Reports, ids : [Reports -> SUBSET Questions]]

GapTypes ==
    /\ asked \subseteq Questions
    /\ reports \in [Reports -> GapRows]
    /\ runs \in [Runs -> GapCopies]
    /\ together \subseteq Topics
    /\ given \in [Reports -> SUBSET Questions]

\* What two runs under way have both read is known to be read together.
ReadTogether ==
    \A v, w \in Runs :
        v # w /\ runs[v].phase # "idle" /\ runs[w].phase # "idle" =>
            Repeated(runs[v].seen) \cap Repeated(runs[w].seen) \subseteq together

\* A run that has read the reports knows every open one of its topics, and all of it.
CopiesHold ==
    \A v \in Runs, r \in Reports :
        /\ runs[v].phase = "naming"
        /\ reports[r].topic \in Repeated(runs[v].seen)
        /\ reports[r].topic \notin together
        => /\ reports[r].status = "open" => r \in runs[v].open
           /\ r \in runs[v].open => runs[v].ids[r] = reports[r].ids

\* A row that was not made is empty.
NotMade ==
    \A r \in Reports :
        reports[r].status = "absent" =>
            reports[r].topic = NoTopic /\ reports[r].ids = {} /\ given[r] = {}

GapInv == GapTypes /\ ReadTogether /\ CopiesHold /\ NotMade /\ GapsAreReportedOnce

\* The row that no run has written yet, and the run that has not begun (models.py).
LEMMA GapBlanks ==
    /\ NoReport \in GapRows /\ NoReport.status = "absent" /\ NoReport.topic = NoTopic
    /\ NoReport.ids = {}
    /\ NoRun \in GapCopies /\ NoRun.phase = "idle"
<1>1. [r \in Reports |-> {}] \in [Reports -> SUBSET Questions]
    OBVIOUS
<1>2. NoReport \in GapRows /\ NoReport.status = "absent" /\ NoReport.topic = NoTopic
      /\ NoReport.ids = {}
    BY DEF NoReport, GapRows
<1>3. NoRun \in GapCopies /\ NoRun.phase = "idle"
    BY <1>1 DEF NoRun, GapCopies
<1> QED
    BY <1>2, <1>3

\* What the fields of rows and runs hold.
LEMMA GapFields ==
    ASSUME GapTypes
    PROVE  /\ \A r \in Reports : /\ reports[r] \in GapRows
                                 /\ reports[r].status \in {"absent", "open", "dismissed"}
                                 /\ reports[r].topic \in Topics \cup {NoTopic}
                                 /\ reports[r].ids \subseteq Questions
           /\ \A w \in Runs : /\ runs[w] \in GapCopies
                              /\ runs[w].seen \subseteq Questions
                              /\ runs[w].open \subseteq Reports
                              /\ \A r \in Reports : runs[w].ids[r] \subseteq Questions
<1>1. \A r \in Reports : reports[r] \in GapRows
    BY DEF GapTypes
<1>2. \A x \in GapRows : /\ x.status \in {"absent", "open", "dismissed"}
                         /\ x.topic \in Topics \cup {NoTopic} /\ x.ids \subseteq Questions
    BY DEF GapRows
<1>3. \A w \in Runs : runs[w] \in GapCopies
    BY DEF GapTypes
<1>4. \A x \in GapCopies : /\ x.seen \subseteq Questions /\ x.open \subseteq Reports
                           /\ \A r \in Reports : x.ids[r] \subseteq Questions
    BY DEF GapCopies
<1> QED
    BY <1>1, <1>2, <1>3, <1>4

\* Nothing is reported at first.
LEMMA GapsStart == GapInit => GapInv
<1> SUFFICES ASSUME GapInit PROVE GapInv
    OBVIOUS
<1>1. /\ \A r \in Reports : reports[r] = NoReport /\ given[r] = {}
      /\ \A w \in Runs : runs[w] = NoRun
    BY DEF GapInit
<1>2. GapTypes
    BY GapBlanks DEF GapInit, GapTypes
<1>3. ReadTogether /\ CopiesHold
    BY <1>1, GapBlanks DEF ReadTogether, CopiesHold
<1>4. NotMade /\ GapsAreReportedOnce
    BY <1>1, GapBlanks DEF NotMade, GapsAreReportedOnce
<1> QED
    BY <1>2, <1>3, <1>4 DEF GapInv

\* Answers come and go (AgentExecution).
LEMMA AnswersKeep ==
    ASSUME GapInv, NEW q \in Questions, AnswerPoorly(q) \/ Forget(q)
    PROVE  GapInv'
<1>1. UNCHANGED <<reports, runs, together, given>>
    BY DEF AnswerPoorly, Forget
<1>2. GapTypes'
    BY <1>1 DEF GapInv, GapTypes, AnswerPoorly, Forget
<1>3. ReadTogether' /\ CopiesHold'
    BY <1>1 DEF GapInv, ReadTogether, CopiesHold
<1>4. NotMade' /\ GapsAreReportedOnce'
    BY <1>1 DEF GapInv, NotMade, GapsAreReportedOnce, OpenReports
<1> QED
    BY <1>2, <1>3, <1>4 DEF GapInv

\* A person closes a report (dismiss_gap_report).
LEMMA DismissKeeps ==
    ASSUME GapInv, NEW r \in Reports, Dismiss(r)
    PROVE  GapInv'
<1>1. GapTypes /\ UNCHANGED <<asked, runs, together, given>>
    BY DEF Dismiss, GapInv
<1> DEFINE x == [reports[r] EXCEPT !.status = "dismissed"]
<1>2. /\ x \in GapRows /\ x.status = "dismissed"
      /\ x.topic = reports[r].topic /\ x.ids = reports[r].ids
  <2>1. reports[r] \in GapRows
      BY <1>1, GapFields
  <2> QED
      BY <2>1 DEF GapRows
<1>3. reports' = [reports EXCEPT ![r] = x]
    BY DEF Dismiss
<1> HIDE DEF x
<1>4. reports \in [Reports -> GapRows]
    BY <1>1 DEF GapTypes
<1>5. reports' \in [Reports -> GapRows]
    BY <1>2, <1>3, <1>4
<1>6. \A s \in Reports : reports'[s] = IF s = r THEN x ELSE reports[s]
    BY <1>3, <1>4
<1>7. \A s \in Reports :
         /\ reports'[s].topic = reports[s].topic /\ reports'[s].ids = reports[s].ids
         /\ reports'[s].status = "open" => reports[s].status = "open"
         /\ reports'[s].status = "absent" => reports[s].status = "absent"
         /\ reports[s].status = "absent" => s # r
    BY <1>2, <1>6 DEF Dismiss
<1>8. reports[r].status # "absent"
    BY DEF Dismiss
<1>9. GapTypes'
    BY <1>1, <1>5 DEF GapTypes
<1>10. ReadTogether' /\ CopiesHold' /\ NotMade'
    BY <1>1, <1>7 DEF GapInv, ReadTogether, CopiesHold, NotMade
<1>11. GapsAreReportedOnce'
    BY <1>1, <1>6, <1>7, <1>8 DEF GapInv, GapsAreReportedOnce, OpenReports
<1> QED
    BY <1>9, <1>10, <1>11 DEF GapInv

\* A run fails, and its transaction is rolled back (the job of arq).
LEMMA FailureKeeps ==
    ASSUME GapInv, NEW w \in Runs, RunFails(w)
    PROVE  GapInv'
<1>1. GapTypes /\ UNCHANGED <<asked, reports, together, given>>
    BY DEF RunFails, GapInv
<1>2. runs \in [Runs -> GapCopies] /\ runs' = [runs EXCEPT ![w] = NoRun]
    BY <1>1 DEF RunFails, GapTypes
<1>3. runs' \in [Runs -> GapCopies]
    BY <1>2, GapBlanks
<1>4. \A v \in Runs : runs'[v] = IF v = w THEN NoRun ELSE runs[v]
    BY <1>2
<1>5. GapTypes'
    BY <1>1, <1>3 DEF GapTypes
<1>6. ReadTogether' /\ CopiesHold'
    BY <1>1, <1>4, GapBlanks DEF GapInv, ReadTogether, CopiesHold
<1>7. NotMade' /\ GapsAreReportedOnce'
    BY <1>1 DEF GapInv, NotMade, GapsAreReportedOnce, OpenReports
<1> QED
    BY <1>5, <1>6, <1>7 DEF GapInv

\* A run reads the questions (list_low_confidence_executions).
LEMMA StartKeeps ==
    ASSUME GapInv, NEW w \in Runs, StartRun(w)
    PROVE  GapInv'
<1>1. GapTypes /\ UNCHANGED <<asked, reports, given>>
    BY DEF StartRun, GapInv
<1> DEFINE x == [NoRun EXCEPT !.phase = "embedding", !.seen = asked]
<1>2. x \in GapCopies /\ x.phase = "embedding" /\ x.seen = asked
  <2>1. asked \in SUBSET Questions
      BY <1>1 DEF GapTypes
  <2> QED
      BY <2>1, GapBlanks DEF GapCopies
<1>3. runs \in [Runs -> GapCopies] /\ runs' = [runs EXCEPT ![w] = x]
    BY <1>1 DEF StartRun, GapTypes
<1> HIDE DEF x
<1>4. runs' \in [Runs -> GapCopies]
    BY <1>2, <1>3
<1>5. \A v \in Runs : runs'[v] = IF v = w THEN x ELSE runs[v]
    BY <1>3
<1>6. together' = together \cup (Repeated(asked) \cap ReadElsewhere(w))
    BY DEF StartRun
<1>7. \A s : Repeated(s) \subseteq Topics
    BY DEF Repeated
<1>8. \A v \in Runs : v # w /\ runs[v].phase # "idle" =>
         Repeated(runs[v].seen) \subseteq ReadElsewhere(w)
    BY DEF ReadElsewhere
<1>9. GapTypes'
    BY <1>1, <1>4, <1>6, <1>7 DEF GapTypes
<1>10. ReadTogether'
  <2> SUFFICES ASSUME NEW v \in Runs, NEW u \in Runs, v # u,
                      runs'[v].phase # "idle", runs'[u].phase # "idle"
               PROVE  Repeated(runs'[v].seen) \cap Repeated(runs'[u].seen) \subseteq together'
      BY DEF ReadTogether
  <2>1. CASE v = w
      BY <1>2, <1>5, <1>6, <1>8, <2>1
  <2>2. CASE u = w
      BY <1>2, <1>5, <1>6, <1>8, <2>2
  <2>3. CASE v # w /\ u # w
      BY <1>5, <1>6, <2>3 DEF GapInv, ReadTogether
  <2> QED
      BY <2>1, <2>2, <2>3
<1>11. CopiesHold'
  <2>1. \A v \in Runs : runs'[v].phase = "naming" => runs'[v] = runs[v]
      BY <1>2, <1>5
  <2>2. \A r \in Reports : reports[r].topic \notin together' => reports[r].topic \notin together
      BY <1>6
  <2> QED
      BY <1>1, <2>1, <2>2 DEF GapInv, CopiesHold
<1>12. NotMade' /\ GapsAreReportedOnce'
    BY <1>1, <1>6 DEF GapInv, NotMade, GapsAreReportedOnce, OpenReports
<1> QED
    BY <1>9, <1>10, <1>11, <1>12 DEF GapInv

\* A run reads the open reports (list_open_gap_reports).
LEMMA ReadingKeeps ==
    ASSUME GapInv, NEW w \in Runs, ReadReports(w)
    PROVE  GapInv'
<1>1. GapTypes /\ UNCHANGED <<asked, reports, together, given>> /\ runs[w].phase = "embedding"
    BY DEF ReadReports, GapInv
<1> DEFINE old == [r \in Reports |-> IF r \in OpenReports THEN reports[r].ids ELSE {}]
<1> DEFINE x == [runs[w] EXCEPT !.phase = "naming", !.open = OpenReports, !.ids = old]
<1>2. old \in [Reports -> SUBSET Questions] /\ \A r \in OpenReports : old[r] = reports[r].ids
  <2>1. \A r \in Reports : reports[r].ids \subseteq Questions
      BY <1>1, GapFields
  <2> QED
      BY <2>1 DEF OpenReports
<1>3. runs \in [Runs -> GapCopies] /\ runs' = [runs EXCEPT ![w] = x]
    BY <1>1 DEF ReadReports, GapTypes
<1>4. OpenReports \subseteq Reports
    BY DEF OpenReports
<1> HIDE DEF old
<1>5. /\ x \in GapCopies /\ x.phase = "naming" /\ x.seen = runs[w].seen
      /\ x.open = OpenReports /\ x.ids = old
  <2>1. runs[w] \in GapCopies
      BY <1>3
  <2> QED
      BY <1>2, <1>4, <2>1 DEF GapCopies
<1> HIDE DEF x
<1>6. runs' \in [Runs -> GapCopies]
    BY <1>3, <1>5
<1>7. \A v \in Runs : runs'[v] = IF v = w THEN x ELSE runs[v]
    BY <1>3
<1>8. GapTypes'
    BY <1>1, <1>6 DEF GapTypes
<1>9. ReadTogether'
  <2>1. \A v \in Runs : /\ runs'[v].seen = runs[v].seen
                        /\ runs'[v].phase # "idle" => runs[v].phase # "idle"
      BY <1>1, <1>5, <1>7
  <2> QED
      BY <1>1, <2>1 DEF GapInv, ReadTogether
<1>10. CopiesHold'
  <2> SUFFICES ASSUME NEW v \in Runs, NEW r \in Reports, runs'[v].phase = "naming",
                      reports[r].topic \in Repeated(runs'[v].seen),
                      reports[r].topic \notin together
               PROVE  /\ reports[r].status = "open" => r \in runs'[v].open
                      /\ r \in runs'[v].open => runs'[v].ids[r] = reports[r].ids
      BY <1>1 DEF CopiesHold
  <2>1. CASE v = w
      BY <1>2, <1>5, <1>7, <2>1 DEF OpenReports
  <2>2. CASE v # w
      BY <1>7, <2>2 DEF GapInv, CopiesHold
  <2> QED
      BY <2>1, <2>2
<1>11. NotMade' /\ GapsAreReportedOnce'
    BY <1>1 DEF GapInv, NotMade, GapsAreReportedOnce, OpenReports
<1> QED
    BY <1>8, <1>9, <1>10, <1>11 DEF GapInv

\* What a run commits: every repeated topic goes into a row of its own, one that it had
\* read or one that was not made yet (pipeline.py).
Committed(w, into) ==
    /\ \A t, u \in Repeated(runs[w].seen) : into[t] = into[u] => t = u
    /\ \A t \in Repeated(runs[w].seen) :
          \/ into[t] \in Mergeable(w, t) /\ reports'[into[t]] = Merged(w, into[t])
          \/ /\ Mergeable(w, t) = {} /\ reports[into[t]].status = "absent"
             /\ reports'[into[t]] = Inserted(w, t)
    /\ \A r \in Reports :
          \/ reports'[r] = reports[r]
          \/ \E t \in Repeated(runs[w].seen) : r = into[t]
    /\ DOMAIN reports' = Reports /\ reports' = [r \in Reports |-> reports'[r]]
    /\ given' = [r \in Reports |-> given[r] \cup reports'[r].ids]

\* That is what CommitRun does, in whichever order it takes the topics and the rows.
LEMMA CommitFacts ==
    ASSUME NEW w \in Runs, CommitRun(w)
    PROVE  \E into \in [Repeated(runs[w].seen) -> Reports] : Committed(w, into)
<1> DEFINE topics == Repeated(runs[w].seen)
<1> DEFINE old == {t \in topics : Mergeable(w, t) # {}}
<1> DEFINE absent == {r \in Reports : reports[r].status = "absent"}
<1> DEFINE topicOf(f, r) == CHOOSE t \in topics : f[t] = r
<1> DEFINE now(f) == [r \in Reports |->
                        IF r \notin {f[t] : t \in topics} THEN reports[r]
                        ELSE IF topicOf(f, r) \in old THEN Merged(w, r)
                        ELSE Inserted(w, topicOf(f, r))]
<1>1. PICK into \in [topics -> Reports] :
        /\ IsInjective(into)
        /\ \A t \in topics : into[t] \in IF t \in old THEN Mergeable(w, t) ELSE absent
        /\ reports' = now(into)
        /\ given' = [r \in Reports |-> given[r] \cup now(into)[r].ids]
    BY DEF CommitRun
<1>2. \A t, u \in topics : into[t] = into[u] => t = u
    BY <1>1 DEF IsInjective
<1>3. \A t \in topics : topicOf(into, into[t]) = t
    BY <1>2
<1> HIDE DEF topicOf, topics
<1>4. \A r \in Reports : reports'[r] = now(into)[r]
    BY <1>1
<1>5. ASSUME NEW t \in topics
      PROVE  \/ into[t] \in Mergeable(w, t) /\ reports'[into[t]] = Merged(w, into[t])
             \/ /\ Mergeable(w, t) = {} /\ reports[into[t]].status = "absent"
                /\ reports'[into[t]] = Inserted(w, t)
  <2>1. into[t] \in Reports
      BY <1>1
  <2>2. reports'[into[t]] = IF t \in old THEN Merged(w, into[t]) ELSE Inserted(w, t)
      BY <1>3, <1>4, <2>1
  <2>3. CASE t \in old
      BY <1>1, <2>2, <2>3
  <2>4. CASE t \notin old
      BY <1>1, <2>2, <2>4
  <2> QED
      BY <2>3, <2>4
<1>6. \A r \in Reports : reports'[r] = reports[r] \/ \E t \in topics : r = into[t]
    BY <1>4
<1>7. /\ DOMAIN reports' = Reports /\ reports' = [r \in Reports |-> reports'[r]]
      /\ given' = [r \in Reports |-> given[r] \cup reports'[r].ids]
    BY <1>1
<1> QED
    BY <1>1, <1>2, <1>5, <1>6, <1>7 DEF topics, Committed

\* A row after a merge keeps its status and topic, and holds the questions of the run;
\* one that was inserted is open (_find_mergeable_report, the merge and the insert).
LEMMA WrittenRows ==
    ASSUME GapTypes, NEW w \in Runs, NEW r \in Reports
    PROVE  /\ Merged(w, r) \in GapRows
           /\ Merged(w, r).status = reports[r].status /\ Merged(w, r).topic = reports[r].topic
           /\ reports[r].ids = runs[w].ids[r] => reports[r].ids \subseteq Merged(w, r).ids
           /\ \A t \in Topics : /\ Inserted(w, t) \in GapRows
                                /\ Inserted(w, t).status = "open" /\ Inserted(w, t).topic = t
<1> DEFINE ids == runs[w].ids[r] \cup Cluster(runs[w].seen, reports[r].topic)
<1> DEFINE x == [reports[r] EXCEPT !.ids = ids]
<1>1. \A t : Cluster(runs[w].seen, t) \subseteq Questions
    BY GapFields DEF Cluster
<1>2. ids \subseteq Questions /\ runs[w].ids[r] \subseteq ids /\ reports[r] \in GapRows
    BY <1>1, GapFields
<1>3. Merged(w, r) = IF ids = runs[w].ids[r] THEN reports[r] ELSE x
    BY DEF Merged
<1> HIDE DEF ids
<1>4. x \in GapRows /\ x.status = reports[r].status /\ x.topic = reports[r].topic /\ x.ids = ids
    BY <1>2 DEF GapRows
<1>5. ASSUME NEW t \in Topics
      PROVE  /\ Inserted(w, t) \in GapRows
             /\ Inserted(w, t).status = "open" /\ Inserted(w, t).topic = t
    BY <1>1 DEF Inserted, GapRows
<1> HIDE DEF x
<1>6. CASE ids = runs[w].ids[r]
    BY <1>2, <1>3, <1>5, <1>6
<1>7. CASE ids # runs[w].ids[r]
    BY <1>2, <1>3, <1>4, <1>5, <1>7
<1> QED
    BY <1>6, <1>7

\* A run commits (run_knowledge_gap_agent): its topics are nobody else's, or are known to
\* be read together.
LEMMA CommitKeeps ==
    ASSUME GapInv, NEW w \in Runs, CommitRun(w)
    PROVE  GapInv'
<1> DEFINE topics == Repeated(runs[w].seen)
<1>1. GapTypes /\ UNCHANGED <<asked, together>> /\ runs[w].phase = "naming"
    BY DEF CommitRun, GapInv
<1>2. runs \in [Runs -> GapCopies] /\ runs' = [runs EXCEPT ![w] = NoRun]
    BY <1>1 DEF CommitRun, GapTypes
<1>3. runs' \in [Runs -> GapCopies]
    BY <1>2, GapBlanks
<1>4. \A v \in Runs : runs'[v] = IF v = w THEN NoRun ELSE runs[v]
    BY <1>2
<1>5. topics \subseteq Topics
    BY DEF Repeated
<1>6. PICK into \in [Repeated(runs[w].seen) -> Reports] : Committed(w, into)
    BY CommitFacts
<1>61. /\ \A t, u \in topics : into[t] = into[u] => t = u
       /\ \A t \in topics :
             \/ into[t] \in Mergeable(w, t) /\ reports'[into[t]] = Merged(w, into[t])
             \/ /\ Mergeable(w, t) = {} /\ reports[into[t]].status = "absent"
                /\ reports'[into[t]] = Inserted(w, t)
       /\ \A r \in Reports : reports'[r] = reports[r] \/ \E t \in topics : r = into[t]
       /\ DOMAIN reports' = Reports /\ reports' = [r \in Reports |-> reports'[r]]
       /\ given' = [r \in Reports |-> given[r] \cup reports'[r].ids]
    BY <1>6 DEF Committed
<1> HIDE DEF topics
<1> DEFINE Same(r) == reports'[r] = reports[r]
<1> DEFINE Grown(r) ==
        /\ reports[r].topic \in topics /\ r \in runs[w].open
        /\ reports'[r].status = reports[r].status /\ reports'[r].topic = reports[r].topic
        /\ reports[r].ids = runs[w].ids[r] => reports[r].ids \subseteq reports'[r].ids
<1> DEFINE Made(r) ==
        \E t \in topics : /\ Mergeable(w, t) = {} /\ into[t] = r
                          /\ reports[r].status = "absent"
                          /\ reports'[r].status = "open" /\ reports'[r].topic = t
<1>7. ASSUME NEW r \in Reports
      PROVE  reports'[r] \in GapRows /\ (Same(r) \/ Grown(r) \/ Made(r))
  <2>1. CASE Same(r)
      BY <1>1, <2>1, GapFields
  <2>2. ASSUME NEW t \in topics, r = into[t]
        PROVE  reports'[r] \in GapRows /\ (Grown(r) \/ Made(r))
    <3>1. CASE into[t] \in Mergeable(w, t) /\ reports'[into[t]] = Merged(w, into[t])
      <4>1. r \in runs[w].open /\ reports[r].topic = t
          BY <2>2, <3>1 DEF Mergeable
      <4>2. reports'[r] = Merged(w, r)
          BY <2>2, <3>1
      <4> QED
          BY <1>1, <4>1, <4>2, WrittenRows
    <3>2. CASE /\ Mergeable(w, t) = {} /\ reports[into[t]].status = "absent"
               /\ reports'[into[t]] = Inserted(w, t)
      <4>1. t \in Topics /\ reports'[r] = Inserted(w, t)
          BY <1>5, <2>2, <3>2
      <4> QED
          BY <1>1, <2>2, <3>2, <4>1, WrittenRows
    <3> QED
        BY <1>61, <2>2, <3>1, <3>2
  <2> QED
      BY <1>61, <2>1, <2>2
<1>8. \A r, s \in Reports : Made(r) /\ Made(s) /\ reports'[r].topic = reports'[s].topic => r = s
    OBVIOUS
<1>9. \A r \in Reports : given'[r] = given[r] \cup reports'[r].ids
    BY <1>61
<1>10. \A t : t \in Topics => t # NoTopic
    BY GapConstants
<1> HIDE DEF Same, Grown, Made
<1>11. GapTypes'
  <2>1. reports' \in [Reports -> GapRows]
      BY <1>61, <1>7
  <2>2. \A r \in Reports : given[r] \cup reports'[r].ids \in SUBSET Questions
    <3>1. \A x \in GapRows : x.ids \subseteq Questions
        BY DEF GapRows
    <3> QED
        BY <1>1, <1>7, <3>1 DEF GapTypes
  <2>3. given' \in [Reports -> SUBSET Questions]
      BY <1>61, <2>2
  <2> QED
      BY <1>1, <1>3, <2>1, <2>3 DEF GapTypes
<1>12. ReadTogether'
    BY <1>1, <1>4, GapBlanks DEF GapInv, ReadTogether
\* no other run has read a topic of this one
<1>13. ASSUME NEW v \in Runs, v # w, runs[v].phase = "naming",
              NEW t \in Repeated(runs[v].seen), t \notin together
       PROVE  t \notin topics
    BY <1>1, <1>13 DEF GapInv, ReadTogether, topics
<1>14. CopiesHold'
  <2> SUFFICES ASSUME NEW v \in Runs, NEW r \in Reports, runs'[v].phase = "naming",
                      reports'[r].topic \in Repeated(runs'[v].seen),
                      reports'[r].topic \notin together
               PROVE  /\ reports'[r].status = "open" => r \in runs'[v].open
                      /\ r \in runs'[v].open => runs'[v].ids[r] = reports'[r].ids
      BY <1>1 DEF CopiesHold
  <2>1. v # w /\ runs'[v] = runs[v]
      BY <1>4, GapBlanks
  <2>2. reports'[r].topic \notin topics
      BY <1>13, <2>1
  <2>3. Same(r)
    <3>1. ~Grown(r) /\ ~Made(r)
        BY <2>2 DEF Grown, Made
    <3> QED
        BY <1>7, <3>1
  <2> QED
      BY <2>1, <2>3 DEF Same, GapInv, CopiesHold
<1>15. NotMade'
  <2> SUFFICES ASSUME NEW r \in Reports, reports'[r].status = "absent"
               PROVE  reports'[r].topic = NoTopic /\ reports'[r].ids = {} /\ given'[r] = {}
      BY DEF NotMade
  <2>1. ~Made(r)
      BY DEF Made
  <2>2. ~Grown(r)
    <3>1. Grown(r) => reports[r].status = "absent" /\ reports[r].topic \in Topics
        BY <1>5 DEF Grown
    <3> QED
        BY <1>10, <3>1 DEF GapInv, NotMade
  <2>3. Same(r)
      BY <1>7, <2>1, <2>2
  <2> QED
      BY <1>9, <2>3 DEF Same, GapInv, NotMade
<1>16. GapsAreReportedOnce'
  <2> SUFFICES ASSUME NEW r \in Reports, reports'[r].status # "absent",
                      reports'[r].topic \notin together
               PROVE  /\ reports'[r].ids = given'[r]
                      /\ reports'[r].status = "open" =>
                            \A s \in Reports \ {r} :
                                reports'[s].status = "open" => reports'[s].topic # reports'[r].topic
      BY <1>1 DEF GapsAreReportedOnce, OpenReports
  <2>1. reports'[r].ids = given'[r]
    <3>1. CASE Same(r)
        BY <1>9, <3>1 DEF Same, GapInv, GapsAreReportedOnce
    <3>2. CASE Grown(r)
      <4>1. reports[r].topic \in topics /\ reports[r].topic \notin together /\ r \in runs[w].open
          BY <3>2 DEF Grown
      <4>2. reports[r].ids = runs[w].ids[r]
          BY <1>1, <4>1 DEF GapInv, CopiesHold, topics
      <4>3. reports[r].ids = given[r]
          BY <3>2, <4>1 DEF Grown, GapInv, GapsAreReportedOnce
      <4> QED
          BY <1>9, <3>2, <4>2, <4>3 DEF Grown
    <3>3. CASE Made(r)
        BY <1>9, <3>3 DEF Made, GapInv, NotMade
    <3> QED
        BY <1>7, <3>1, <3>2, <3>3
  <2>2. ASSUME NEW s \in Reports, s # r, reports'[r].status = "open",
               reports'[s].status = "open", reports'[s].topic = reports'[r].topic
        PROVE  FALSE
    \* an open row of the topic that was there before the run committed
    <3>1. \A a \in Reports : Same(a) \/ Grown(a) =>
             reports[a].status = reports'[a].status /\ reports[a].topic = reports'[a].topic
        BY DEF Same, Grown
    \* the run would have merged with it
    <3>2. ASSUME NEW a \in Reports, NEW b \in Reports, Made(a), ~Made(b),
                 reports'[b].status = "open", reports'[b].topic = reports'[a].topic,
                 reports'[a].topic \notin together
          PROVE  FALSE
      <4>1. reports[b].status = "open" /\ reports[b].topic = reports'[a].topic
          BY <1>7, <3>1, <3>2
      <4>2. reports'[a].topic \in topics /\ Mergeable(w, reports'[a].topic) = {}
          BY <3>2 DEF Made
      <4>3. b \in runs[w].open
          BY <1>1, <3>2, <4>1, <4>2 DEF GapInv, CopiesHold, topics
      <4> QED
          BY <4>1, <4>2, <4>3 DEF Mergeable
    <3>3. ~Made(r) /\ ~Made(s)
        BY <1>8, <2>2, <3>2
    <3>4. /\ reports[r].status = "open" /\ reports[s].status = "open"
          /\ reports[r].topic = reports[s].topic /\ reports[r].topic \notin together
        BY <1>7, <2>2, <3>1, <3>3
    <3> QED
        BY <2>2, <3>4 DEF GapInv, GapsAreReportedOnce, OpenReports
  <2> QED
      BY <2>1, <2>2
<1> QED
    BY <1>11, <1>12, <1>14, <1>15, <1>16 DEF GapInv

\* What the runs of an organization keep, however many of them are under way.
THEOREM GapsInvariant == GapSpec => []GapInv
<1>1. GapInv /\ [GapNext]_gapVars => GapInv'
  <2> SUFFICES ASSUME GapInv, [GapNext]_gapVars PROVE GapInv'
      OBVIOUS
  <2>1. CASE \E q \in Questions : AnswerPoorly(q) \/ Forget(q)
      BY <2>1, AnswersKeep
  <2>2. ASSUME NEW w \in Runs, StartRun(w) \/ ReadReports(w) \/ CommitRun(w) \/ RunFails(w)
        PROVE  GapInv'
      BY <2>2, StartKeeps, ReadingKeeps, CommitKeeps, FailureKeeps
  <2>3. CASE \E r \in Reports : Dismiss(r)
      BY <2>3, DismissKeeps
  <2>4. CASE UNCHANGED gapVars
    <3>1. UNCHANGED <<asked, reports, runs, together, given>>
        BY <2>4 DEF gapVars
    <3> QED
        BY <3>1 DEF GapInv, GapTypes, ReadTogether, CopiesHold, NotMade, GapsAreReportedOnce,
                    OpenReports
  <2> QED
      BY <2>1, <2>2, <2>3, <2>4 DEF GapNext
<1> QED
    BY <1>1, GapsStart, PTL DEF GapSpec

\* Reports and runs stay what their fields are declared as (knowledge_gap/models.py).
THEOREM GapTypesHold == GapSpec => []GapTypeOK
<1>1. GapInv => GapTypeOK
    BY DEF GapInv, GapTypes, GapTypeOK, GapRows, GapCopies
<1> QED
    BY <1>1, GapsInvariant, PTL

\* However often the job runs, fails and overlaps with another, and a person closes
\* reports, a topic has one open report and a report loses no question, but for topics
\* that two runs had read at one time (pipeline.py: "Idempotency across scheduled runs").
THEOREM GapsAreAlwaysReportedOnce == GapSpec => []GapsAreReportedOnce
<1>1. GapInv => GapsAreReportedOnce
    BY DEF GapInv
<1> QED
    BY <1>1, GapsInvariant, PTL

-----------------------------------------------------------------------------
(* Asks: every step of an ask changes only its own record, so the invariant*)
(* of the review is one of a single record: what its stage tells of the    *)
(* drafts, of the verdicts on them and of the calls that were made so far. *)

\* The types of an ask, with their sets named one by one.
AskStages == UnderWay \cup Ended \cup {"new"}
Rows == {"none", "running", "succeeded", "failed"}
EvidenceCounts == 0..MinEvidence
DraftOrNone == Drafts \cup {"none"}
Reviews == {"not_reviewed", "reviewed", "review_failed"}
VerdictOrNone == Verdicts \cup {"none"}
Judgements == [Drafts -> VerdictOrNone]
Answers == {"none", "answered", "no_answer", "investigation", "generic", "postmortem"}
AskRecords ==
    [kind : AskKinds, stage : AskStages, incident : BOOLEAN, row : Rows, spent : Nat,
     broken : BOOLEAN, evidence : EvidenceCounts, draft : DraftOrNone, review : Reviews,
     verdict : VerdictOrNone, judged : Judgements, reply : Answers]

TypeInv ==
    /\ asks \in [Asks -> AskRecords]
    /\ window \subseteq Asks
    /\ critique \in BOOLEAN
    /\ width \in 0..Cardinality(Asks)

\* No draft has been made, nor judged.
Untried(r) ==
    /\ r.draft = "none" /\ r.verdict = "none"
    /\ r.judged["original"] = "none" /\ r.judged["revised"] = "none"

\* What is delivered is what the review made of it.
Earned(r) ==
    /\ r.verdict = "accept" => r.review = "reviewed" /\ r.draft \in Drafts
                               /\ r.judged[r.draft] = "accept"
    /\ r.verdict = "reject" => r.draft = "none"
    /\ r.draft = "revised" => r.judged["original"] = "revise"
    /\ r.draft \in Drafts /\ critique /\ r.verdict # "accept" =>
            r.review = "review_failed" /\ r.judged[r.draft] \in {"none", "revise"}

\* How far the review of r has come.
ReviewInv(r) ==
    /\ r.stage \in {"new", "rewrite", "search", "answer", "evidence", "hypotheses"} => Untried(r)
    /\ r.stage \in {"hypotheses", "critique", "revision", "critique_revision"} =>
            r.reply = "investigation"
    /\ r.stage = "critique" =>
            r.draft = "original" /\ r.judged["original"] = "none" /\ r.judged["revised"] = "none"
    /\ r.stage = "revision" =>
            r.draft = "original" /\ r.judged["original"] = "revise" /\ r.judged["revised"] = "none"
    /\ r.stage = "critique_revision" =>
            r.draft = "revised" /\ r.judged["original"] = "revise" /\ r.judged["revised"] = "none"
    /\ r.stage = "attach" => Earned(r)
    /\ r.stage = "finish" /\ r.reply = "investigation" => Earned(r)

\* The calls that were made before a stage.
CallsBefore(stage) ==
    CASE stage \in {"rewrite", "timeline", "root_cause"} -> 0
      [] stage \in {"search", "answer", "evidence", "hypotheses", "action_items"} -> 1
      [] stage = "critique" -> 2
      [] stage = "revision" -> 3
      [] stage = "critique_revision" -> 4
      [] stage \in {"attach", "finish", "done"} -> 5
      [] stage \in {"new", "refused", "lost"} -> 0

SpendInv(r) == r.spent <= CallsBefore(r.stage) * Attempts

IndInv == TypeInv /\ \A a \in Asks : ReviewInv(asks[a]) /\ SpendInv(asks[a])

-----------------------------------------------------------------------------
\* A call is tried at least once, and at most Attempts times.
LEMMA AttemptFacts ==
    /\ Attempts \in Nat \ {0}
    /\ Succeeding \subseteq Exhausting
    /\ \A n \in Exhausting : n \in Nat /\ n <= Attempts
BY AskConstants DEF Attempts, Succeeding, Exhausting

\* A request that has not come in says nothing of a review and has spent nothing.
LEMMA NewAskFacts ==
    /\ NewAsk \in AskRecords
    /\ ReviewInv(NewAsk) /\ SpendInv(NewAsk)
    /\ NewAsk.stage = "new" /\ Untried(NewAsk)
<1>1. 0 \in EvidenceCounts
    BY AskConstants DEF EvidenceCounts
<1>2. [d \in Drafts |-> "none"] \in Judgements
    BY DEF Judgements, VerdictOrNone
<1>3. NewAsk \in AskRecords
    BY <1>1, <1>2 DEF NewAsk, AskRecords, AskKinds, AskStages, Rows, DraftOrNone, Reviews,
       VerdictOrNone, Answers
<1>4. NewAsk.stage = "new" /\ NewAsk.spent = 0 /\ Untried(NewAsk)
    BY DEF NewAsk, Untried, Drafts
<1>5. ReviewInv(NewAsk) /\ SpendInv(NewAsk)
    BY <1>4, AttemptFacts DEF ReviewInv, SpendInv, CallsBefore
<1> QED
    BY <1>3, <1>4, <1>5

\* Nothing has been asked yet.
LEMMA Initially == AskInit => IndInv
<1> SUFFICES ASSUME AskInit PROVE IndInv
    OBVIOUS
<1>1. Cardinality(Asks) \in Nat
    BY AskConstants, FS_CardinalityType
<1> QED
    BY <1>1, NewAskFacts DEF AskInit, IndInv, TypeInv

\* A step that changes the record of one ask.
LEMMA OneChanges ==
    ASSUME IndInv, NEW a \in Asks, NEW r \in AskRecords, ReviewInv(r), SpendInv(r), Becomes(a, r)
    PROVE  IndInv'
<1>1. TypeInv'
    BY DEF IndInv, TypeInv, Becomes
<1>2. \A b \in Asks : asks'[b] = IF b = a THEN r ELSE asks[b]
    BY DEF IndInv, TypeInv, Becomes
<1>3. \A x : (ReviewInv(x)' <=> ReviewInv(x)) /\ (SpendInv(x)' <=> SpendInv(x))
    BY DEF ReviewInv, SpendInv, Earned, Becomes
<1> QED
    BY <1>1, <1>2, <1>3 DEF IndInv

\* An exception leaves a record that says nothing of a review, and no spending.
LEMMA RaisedFacts ==
    ASSUME NEW r \in AskRecords
    PROVE  /\ Raised(r) \in AskRecords /\ ReviewInv(Raised(r)) /\ SpendInv(Raised(r))
           /\ FailedAndRaised(r) \in AskRecords
           /\ ReviewInv(FailedAndRaised(r)) /\ SpendInv(FailedAndRaised(r))
<1>1. ASSUME NEW s \in AskRecords
      PROVE  Raised(s) \in AskRecords /\ ReviewInv(Raised(s)) /\ SpendInv(Raised(s))
  <2>1. Raised(s) = [NewAsk EXCEPT !.stage = "lost", !.row = s.row]
    BY DEF Raised
  <2>2. "lost" \in AskStages /\ s.row \in Rows
    BY DEF AskStages, Ended, AskRecords
  <2>3. Raised(s) \in AskRecords
    BY <2>1, <2>2, NewAskFacts DEF AskRecords
  <2>4. Raised(s).stage = "lost" /\ Raised(s).spent = NewAsk.spent /\ NewAsk.spent = 0
    BY <2>1, NewAskFacts DEF AskRecords, NewAsk
  <2>5. ReviewInv(Raised(s))
    BY <2>4 DEF ReviewInv
  <2>6. SpendInv(Raised(s))
    BY <2>4, AttemptFacts DEF SpendInv, CallsBefore
  <2> QED
    BY <2>3, <2>5, <2>6
<1>2. [r EXCEPT !.row = "failed"] \in AskRecords
  <2>1. "failed" \in Rows
    BY DEF Rows
  <2> QED
    BY <2>1 DEF AskRecords
<1> QED
    BY <1>1, <1>2 DEF FailedAndRaised

\* What is delivered keeps the judgements, and may have cost one call more.
LEMMA DeliveredFacts ==
    ASSUME NEW r \in AskRecords, NEW sketch \in DraftOrNone, NEW review \in Reviews,
           NEW verdict \in VerdictOrNone, NEW n \in Nat
    PROVE  LET s == [Delivered(r, sketch, review, verdict) EXCEPT !.spent = @ + n] IN
           /\ s \in AskRecords
           /\ s.stage = "attach" /\ s.draft = sketch /\ s.review = review /\ s.verdict = verdict
           /\ s.judged = r.judged /\ s.reply = r.reply /\ s.spent = r.spent + n
<1> DEFINE d == [r EXCEPT !.stage = "attach", !.evidence = 0, !.draft = sketch,
                          !.review = review, !.verdict = verdict]
<1>1. Delivered(r, sketch, review, verdict) = d
    BY DEF Delivered
<1>2. "attach" \in AskStages /\ 0 \in EvidenceCounts
    BY AskConstants DEF AskStages, UnderWay, Graph, EvidenceCounts
<1>3. /\ d \in AskRecords
      /\ d.stage = "attach" /\ d.draft = sketch /\ d.review = review /\ d.verdict = verdict
      /\ d.judged = r.judged /\ d.reply = r.reply /\ d.spent = r.spent
    BY <1>2 DEF AskRecords
<1>4. r.spent + n \in Nat
    BY DEF AskRecords
<1> HIDE DEF d
<1> DEFINE s == [d EXCEPT !.spent = @ + n]
<1>5. s = [d EXCEPT !.spent = r.spent + n]
    BY <1>3
<1> HIDE DEF s
<1>6. /\ s \in AskRecords
      /\ s.stage = "attach" /\ s.draft = sketch /\ s.review = review /\ s.verdict = verdict
      /\ s.judged = r.judged /\ s.reply = r.reply /\ s.spent = r.spent + n
    BY <1>3, <1>4, <1>5 DEF AskRecords
<1> QED
    BY <1>1, <1>5, <1>6 DEF s

\* What has been decided is an end of the review within the five calls.
LEMMA AttachFacts ==
    ASSUME NEW r \in AskRecords, r.stage = "attach", Earned(r), r.spent <= 5 * Attempts
    PROVE  ReviewInv(r) /\ SpendInv(r)
BY DEF ReviewInv, SpendInv, CallsBefore

\* A draft goes to a stage of the review, or is rejected unseen.
LEMMA ForReviewFacts ==
    ASSUME NEW r \in AskRecords, NEW sketch \in Drafts,
           NEW stage \in {"critique", "critique_revision"}, NEW n \in Nat
    PROVE  LET s == [ForReview(r, sketch, stage) EXCEPT !.spent = @ + n] IN
           /\ s \in AskRecords /\ s.spent = r.spent + n
           /\ s.judged = r.judged /\ s.reply = r.reply
           /\ \/ s.stage = "attach" /\ s.draft = "none" /\ s.verdict = "reject"
              \/ s.stage = stage /\ s.draft = sketch
<1>1. "none" \in DraftOrNone /\ "reviewed" \in Reviews /\ "reject" \in VerdictOrNone
      /\ sketch \in DraftOrNone /\ stage \in AskStages
    BY DEF DraftOrNone, Reviews, VerdictOrNone, Verdicts, AskStages, UnderWay, Graph
<1>2. CASE r.evidence < MinEvidence
  <2>1. ForReview(r, sketch, stage) = Delivered(r, "none", "reviewed", "reject")
      BY <1>2 DEF ForReview, Rejected
  <2> DEFINE s == [Delivered(r, "none", "reviewed", "reject") EXCEPT !.spent = @ + n]
  <2>2. /\ s \in AskRecords /\ s.stage = "attach" /\ s.draft = "none" /\ s.verdict = "reject"
        /\ s.judged = r.judged /\ s.reply = r.reply /\ s.spent = r.spent + n
      BY <1>1, DeliveredFacts
  <2> HIDE DEF s
  <2> QED
      BY <2>1, <2>2 DEF s
<1>3. CASE ~(r.evidence < MinEvidence)
  <2> DEFINE d == [r EXCEPT !.stage = stage, !.draft = sketch]
  <2>1. ForReview(r, sketch, stage) = d
      BY <1>3 DEF ForReview
  <2>2. /\ d \in AskRecords /\ d.stage = stage /\ d.draft = sketch
        /\ d.judged = r.judged /\ d.reply = r.reply /\ d.spent = r.spent
      BY <1>1 DEF AskRecords
  <2>3. r.spent + n \in Nat
      BY DEF AskRecords
  <2> HIDE DEF d
  <2> DEFINE s == [d EXCEPT !.spent = @ + n]
  <2>4. s = [d EXCEPT !.spent = r.spent + n]
      BY <2>2
  <2> HIDE DEF s
  <2>5. /\ s \in AskRecords /\ s.stage = stage /\ s.draft = sketch
        /\ s.judged = r.judged /\ s.reply = r.reply /\ s.spent = r.spent + n
      BY <2>2, <2>3, <2>4 DEF AskRecords
  <2> QED
      BY <2>1, <2>5 DEF s
<1> QED
    BY <1>2, <1>3

\* The reply is there; the review and the spending stay what they were.
LEMMA RepliesFacts ==
    ASSUME NEW r \in AskRecords, NEW answer \in Answers
    PROVE  LET s == Replies(r, answer) IN
           /\ s \in AskRecords /\ s.stage = "finish" /\ s.reply = answer /\ s.spent = r.spent
           /\ s.draft = r.draft /\ s.review = r.review /\ s.verdict = r.verdict
           /\ s.judged = r.judged
<1>1. "finish" \in AskStages
    BY DEF AskStages, UnderWay
<1> QED
    BY <1>1 DEF Replies, AskRecords

\* The call that made the reply is counted.
LEMMA RepliesAtACost ==
    ASSUME NEW r \in AskRecords, NEW answer \in Answers, NEW n \in Nat
    PROVE  LET s == [Replies(r, answer) EXCEPT !.spent = @ + n] IN
           s \in AskRecords /\ s.stage = "finish" /\ s.reply = answer /\ s.spent = r.spent + n
<1> DEFINE d == Replies(r, answer)
<1>1. /\ d \in AskRecords /\ d.stage = "finish" /\ d.reply = answer /\ d.spent = r.spent
    BY RepliesFacts
<1>2. r.spent + n \in Nat
    BY DEF AskRecords
<1> HIDE DEF d
<1> DEFINE s == [d EXCEPT !.spent = @ + n]
<1>3. s = [d EXCEPT !.spent = r.spent + n]
    BY <1>1
<1> HIDE DEF s
<1>4. s \in AskRecords /\ s.stage = "finish" /\ s.reply = answer /\ s.spent = r.spent + n
    BY <1>1, <1>2, <1>3 DEF AskRecords
<1> QED
    BY <1>4 DEF s, d

-----------------------------------------------------------------------------
\* A request comes in: only here may more asks be under way than ever before.
LEMMA BeginStep ==
    ASSUME IndInv, NEW a \in Asks, NEW sort \in AskKinds, NEW incident \in BOOLEAN,
           BeginAsk(a, sort, incident)
    PROVE  IndInv'
<1> DEFINE stage == IF WithinBudget THEN FirstStage(sort) ELSE "refused"
<1> DEFINE row == IF WithinBudget THEN "running" ELSE asks[a].row
<1> DEFINE r == [asks[a] EXCEPT !.kind = sort, !.incident = incident, !.stage = stage, !.row = row]
<1>1. asks[a] \in AskRecords /\ asks[a].stage = "new"
    BY DEF BeginAsk, ComesIn, IndInv, TypeInv
<1>2. /\ asks' = [asks EXCEPT ![a] = r] /\ UNCHANGED <<window, critique>>
      /\ width' \in {width, Cardinality(InFlight(asks'))}
    BY <1>1 DEF BeginAsk, AskRecords
<1>3. /\ stage \in {"rewrite", "evidence", "timeline", "refused"} /\ stage \in AskStages
      /\ row \in Rows
    BY <1>1 DEF FirstStage, AskKinds, AskStages, Ended, UnderWay, Graph, Pipeline, Rows, AskRecords
<1> HIDE DEF stage, row
<1>4. /\ r \in AskRecords /\ r.stage = stage /\ r.spent = asks[a].spent
      /\ r.draft = asks[a].draft /\ r.verdict = asks[a].verdict /\ r.judged = asks[a].judged
    BY <1>1, <1>3 DEF AskRecords
<1> HIDE DEF r
<1>5. Untried(asks[a]) /\ asks[a].spent = 0
    BY <1>1, AttemptFacts DEF IndInv, ReviewInv, SpendInv, CallsBefore, AskRecords
<1>6. ReviewInv(r)
    BY <1>3, <1>4, <1>5 DEF ReviewInv, Untried
<1>7. SpendInv(r)
    BY <1>3, <1>4, <1>5, AttemptFacts DEF SpendInv, CallsBefore
<1>8. width' \in 0..Cardinality(Asks)
  <2>1. InFlight(asks') \subseteq Asks
    BY DEF InFlight
  <2>2. /\ Cardinality(InFlight(asks')) \in Nat /\ Cardinality(Asks) \in Nat
        /\ Cardinality(InFlight(asks')) <= Cardinality(Asks)
    BY <2>1, AskConstants, FS_Subset, FS_CardinalityType
  <2> QED
    BY <1>2, <2>2 DEF IndInv, TypeInv
<1>9. TypeInv'
    BY <1>2, <1>4, <1>8 DEF IndInv, TypeInv
<1>10. \A b \in Asks : asks'[b] = IF b = a THEN r ELSE asks[b]
    BY <1>2 DEF IndInv, TypeInv
<1>11. \A x : (ReviewInv(x)' <=> ReviewInv(x)) /\ (SpendInv(x)' <=> SpendInv(x))
    BY <1>2 DEF ReviewInv, SpendInv, Earned
<1> QED
    BY <1>6, <1>7, <1>9, <1>10, <1>11 DEF IndInv

\* The notes or the incident cannot be read: the request is lost before its row.
LEMMA BeginFailsStep ==
    ASSUME IndInv, NEW a \in Asks, NEW sort \in AskKinds, NEW incident \in BOOLEAN,
           BeginAskFails(a, sort, incident)
    PROVE  IndInv'
<1> DEFINE r == [asks[a] EXCEPT !.kind = sort, !.incident = incident]
<1>1. r \in AskRecords
    BY DEF IndInv, TypeInv, AskRecords
<1>2. Becomes(a, Raised(r))
    BY DEF BeginAskFails
<1> HIDE DEF r
<1> QED
    BY <1>1, <1>2, RaisedFacts, OneChanges

\* The exceptions that leave a request, and its client that leaves: all is rolled back.
LEMMA RaisesStep ==
    ASSUME IndInv, NEW a \in Asks,
           NoSuchIncident(a) \/ Cancelled(a) \/ PostmortemFails(a)
    PROVE  IndInv'
<1>1. asks[a] \in AskRecords
    BY DEF IndInv, TypeInv
<1>2. CASE NoSuchIncident(a) \/ Cancelled(a)
    BY <1>1, <1>2, RaisedFacts, OneChanges DEF NoSuchIncident, Cancelled
<1>3. CASE PostmortemFails(a)
  <2>1. PICK n \in Exhausting : Becomes(a, FailedAndRaised([asks[a] EXCEPT !.spent = @ + n]))
    BY <1>3 DEF PostmortemFails
  <2> DEFINE r == [asks[a] EXCEPT !.spent = @ + n]
  <2>2. asks[a].spent + n \in Nat
    BY <1>1, AttemptFacts DEF AskRecords
  <2>3. r \in AskRecords
    BY <1>1, <2>2 DEF AskRecords
  <2> HIDE DEF r
  <2>4. Becomes(a, FailedAndRaised(r))
    BY <2>1 DEF r
  <2> QED
    BY <2>3, <2>4, RaisedFacts, OneChanges
<1> QED
    BY <1>2, <1>3

\* Retrieval and routing: no draft yet.
LEMMA RewriteStep ==
    ASSUME IndInv, NEW a \in Asks, Rewrite(a)
    PROVE  IndInv'
<1>1. /\ asks[a] \in AskRecords /\ asks[a].stage = "rewrite"
      /\ ReviewInv(asks[a]) /\ SpendInv(asks[a])
    BY DEF Rewrite, IndInv, TypeInv
<1>2. PICK n \in Exhausting : Becomes(a, [asks[a] EXCEPT !.stage = "search", !.spent = @ + n])
    BY DEF Rewrite
<1> DEFINE spent == asks[a].spent + n
<1> DEFINE r == [asks[a] EXCEPT !.stage = "search", !.spent = spent]
<1>3. spent \in Nat /\ spent <= Attempts /\ "search" \in AskStages
    BY <1>1, AttemptFacts DEF AskRecords, SpendInv, CallsBefore, AskStages, UnderWay, Graph
<1>4. Becomes(a, r)
    BY <1>2
<1> HIDE DEF spent
<1>5. /\ r \in AskRecords /\ r.stage = "search" /\ r.spent = spent
      /\ r.draft = asks[a].draft /\ r.verdict = asks[a].verdict /\ r.judged = asks[a].judged
    BY <1>1, <1>3 DEF AskRecords
<1> HIDE DEF r
<1>6. ReviewInv(r)
    BY <1>1, <1>5 DEF ReviewInv, Untried
<1>7. SpendInv(r)
    BY <1>3, <1>5, AttemptFacts DEF SpendInv, CallsBefore
<1> QED
    BY <1>4, <1>5, <1>6, <1>7, OneChanges

\* The search, and where the confidence in what it found leads to.
LEMMA SearchStep ==
    ASSUME IndInv, NEW a \in Asks, Search(a)
    PROVE  IndInv'
<1>1. /\ asks[a] \in AskRecords /\ asks[a].stage = "search"
      /\ ReviewInv(asks[a]) /\ SpendInv(asks[a])
    BY DEF Search, IndInv, TypeInv
<1>2. PICK broken \in BOOLEAN, next \in {"answer", "evidence"} :
         Becomes(a, [asks[a] EXCEPT !.stage = next, !.broken = broken])
    BY DEF Search, Routes
<1> DEFINE r == [asks[a] EXCEPT !.stage = next, !.broken = broken]
<1>3. next \in AskStages
    BY DEF AskStages, UnderWay, Graph
<1>4. /\ r \in AskRecords /\ r.stage = next /\ r.spent = asks[a].spent
      /\ r.draft = asks[a].draft /\ r.verdict = asks[a].verdict /\ r.judged = asks[a].judged
    BY <1>1, <1>3 DEF AskRecords
<1>5. Becomes(a, r)
    BY <1>2
<1> HIDE DEF r
<1>6. ReviewInv(r)
    BY <1>1, <1>4 DEF ReviewInv, Untried
<1>7. SpendInv(r)
    BY <1>1, <1>4, AttemptFacts DEF SpendInv, CallsBefore
<1> QED
    BY <1>4, <1>5, <1>6, <1>7, OneChanges

\* The evidence is gathered: nothing is asked of the model.
LEMMA EvidenceStep ==
    ASSUME IndInv, NEW a \in Asks, Evidence(a)
    PROVE  IndInv'
<1>1. /\ asks[a] \in AskRecords /\ asks[a].stage = "evidence"
      /\ ReviewInv(asks[a]) /\ SpendInv(asks[a])
    BY DEF Evidence, IndInv, TypeInv
<1>2. PICK n \in 0..MinEvidence, broken \in BOOLEAN :
         Becomes(a, [asks[a] EXCEPT !.evidence = n, !.broken = broken, !.reply = "investigation",
                                !.stage = IF n = 0 THEN "attach" ELSE "hypotheses"])
    BY DEF Evidence
<1> DEFINE next == IF n = 0 THEN "attach" ELSE "hypotheses"
<1> DEFINE r == [asks[a] EXCEPT !.evidence = n, !.broken = broken, !.reply = "investigation",
                                !.stage = next]
<1>3. /\ next \in {"attach", "hypotheses"} /\ next \in AskStages
      /\ n \in EvidenceCounts /\ "investigation" \in Answers
    BY DEF AskStages, UnderWay, Graph, EvidenceCounts, Answers
<1>4. Becomes(a, r)
    BY <1>2
<1> HIDE DEF next
<1>5. /\ r \in AskRecords /\ r.stage = next /\ r.spent = asks[a].spent
      /\ r.reply = "investigation"
      /\ r.draft = asks[a].draft /\ r.verdict = asks[a].verdict /\ r.judged = asks[a].judged
    BY <1>1, <1>3 DEF AskRecords
<1> HIDE DEF r
<1>6. Untried(r)
    BY <1>1, <1>5 DEF ReviewInv, Untried
<1>7. ReviewInv(r)
    BY <1>3, <1>5, <1>6 DEF ReviewInv, Untried, Earned, Drafts
<1>8. SpendInv(r)
    BY <1>1, <1>3, <1>5, AttemptFacts DEF SpendInv, CallsBefore, AskRecords
<1> QED
    BY <1>4, <1>5, <1>7, <1>8, OneChanges

\* An answer, or none: nothing is said of a review.
LEMMA AnswerStep ==
    ASSUME IndInv, NEW a \in Asks, Answer(a)
    PROVE  IndInv'
<1>1. /\ asks[a] \in AskRecords /\ asks[a].stage = "answer"
      /\ ReviewInv(asks[a]) /\ SpendInv(asks[a])
    BY DEF Answer, IndInv, TypeInv
<1>2. PICK answer \in {"answered", "no_answer"}, n \in Exhausting :
         Becomes(a, [Replies(asks[a], answer) EXCEPT !.spent = @ + n])
    BY AttemptFacts DEF Answer
<1> DEFINE r == [Replies(asks[a], answer) EXCEPT !.spent = @ + n]
<1>3. /\ r \in AskRecords /\ r.stage = "finish" /\ r.reply = answer
      /\ r.spent = asks[a].spent + n
  <2>1. n \in Nat /\ answer \in Answers
      BY AttemptFacts DEF Answers
  <2> QED
      BY <1>1, <2>1, RepliesAtACost
<1>4. Becomes(a, r)
    BY <1>2
<1> HIDE DEF r
<1>5. ReviewInv(r)
    BY <1>3 DEF ReviewInv
<1>6. SpendInv(r)
    BY <1>1, <1>3, AttemptFacts DEF SpendInv, CallsBefore, AskRecords
<1> QED
    BY <1>3, <1>4, <1>5, <1>6, OneChanges

\* Hypotheses are made, and go to the critic when there is one.
LEMMA HypothesesStep ==
    ASSUME IndInv, NEW a \in Asks, Hypotheses(a)
    PROVE  IndInv'
<1>1. /\ asks[a] \in AskRecords /\ asks[a].stage = "hypotheses"
      /\ ReviewInv(asks[a]) /\ SpendInv(asks[a])
      /\ critique \in BOOLEAN
    BY DEF Hypotheses, IndInv, TypeInv
<1>2. Untried(asks[a]) /\ asks[a].reply = "investigation" /\ asks[a].spent <= Attempts
    BY <1>1, AttemptFacts DEF ReviewInv, SpendInv, CallsBefore, AskRecords
<1>3. "none" \in DraftOrNone /\ "original" \in DraftOrNone /\ "not_reviewed" \in Reviews
      /\ "none" \in VerdictOrNone
    BY DEF DraftOrNone, Drafts, Reviews, VerdictOrNone
<1>4. ASSUME NEW n \in Exhausting,
             Becomes(a, [Delivered(asks[a], "none", "not_reviewed", "none") EXCEPT !.spent = @ + n])
      PROVE  IndInv'
  <2> DEFINE s == [Delivered(asks[a], "none", "not_reviewed", "none") EXCEPT !.spent = @ + n]
  <2>1. /\ s \in AskRecords /\ s.stage = "attach" /\ s.draft = "none" /\ s.verdict = "none"
        /\ s.spent = asks[a].spent + n
    <3>1. n \in Nat
        BY AttemptFacts
    <3> QED
        BY <1>1, <1>3, <3>1, DeliveredFacts
  <2>2. Becomes(a, s)
      BY <1>4
  <2> HIDE DEF s
  <2>3. Earned(s)
      BY <2>1 DEF Earned, Drafts
  <2>4. s.spent <= 5 * Attempts
      BY <1>1, <1>2, <2>1, AttemptFacts DEF AskRecords
  <2> QED
      BY <2>1, <2>2, <2>3, <2>4, AttachFacts, OneChanges
<1>5. ASSUME NEW n \in Succeeding, critique,
             Becomes(a, [ForReview(asks[a], "original", "critique") EXCEPT !.spent = @ + n])
      PROVE  IndInv'
  <2> DEFINE s == [ForReview(asks[a], "original", "critique") EXCEPT !.spent = @ + n]
  <2>1. /\ s \in AskRecords /\ s.spent = asks[a].spent + n
        /\ s.judged = asks[a].judged /\ s.reply = asks[a].reply
        /\ \/ s.stage = "attach" /\ s.draft = "none" /\ s.verdict = "reject"
           \/ s.stage = "critique" /\ s.draft = "original"
    <3>1. n \in Nat /\ "original" \in Drafts /\ "critique" \in {"critique", "critique_revision"}
        BY AttemptFacts DEF Drafts
    <3> QED
        BY <1>1, <3>1, ForReviewFacts
  <2>2. Becomes(a, s)
      BY <1>5
  <2> HIDE DEF s
  <2>3. ReviewInv(s)
      BY <1>2, <2>1 DEF ReviewInv, Untried, Earned, Drafts
  <2>4. SpendInv(s)
      BY <1>1, <1>2, <2>1, AttemptFacts DEF SpendInv, CallsBefore, AskRecords
  <2> QED
      BY <2>1, <2>2, <2>3, <2>4, OneChanges
<1>6. ASSUME NEW n \in Succeeding, ~critique,
             Becomes(a, [Delivered(asks[a], "original", "not_reviewed", "none")
                         EXCEPT !.spent = @ + n])
      PROVE  IndInv'
  <2> DEFINE s == [Delivered(asks[a], "original", "not_reviewed", "none") EXCEPT !.spent = @ + n]
  <2>1. /\ s \in AskRecords /\ s.stage = "attach" /\ s.draft = "original" /\ s.verdict = "none"
        /\ s.spent = asks[a].spent + n
    <3>1. n \in Nat
        BY AttemptFacts
    <3> QED
        BY <1>1, <1>3, <3>1, DeliveredFacts
  <2>2. Becomes(a, s)
      BY <1>6
  <2> HIDE DEF s
  <2>3. Earned(s)
      BY <1>6, <2>1 DEF Earned, Drafts
  <2>4. s.spent <= 5 * Attempts
      BY <1>1, <1>2, <2>1, AttemptFacts DEF AskRecords
  <2> QED
      BY <2>1, <2>2, <2>3, <2>4, AttachFacts, OneChanges
<1> QED
    BY <1>1, <1>4, <1>5, <1>6 DEF Hypotheses

\* A verdict is written down for the draft it is about.
LEMMA JudgedFacts ==
    ASSUME NEW r \in AskRecords, r.draft \in Drafts, NEW n \in Nat, NEW v \in Verdicts
    PROVE  LET s == Judged(r, n, v) IN
           /\ s \in AskRecords /\ s.spent = r.spent + n /\ s.stage = r.stage
           /\ s.draft = r.draft /\ s.review = r.review /\ s.verdict = r.verdict
           /\ s.reply = r.reply /\ s.evidence = r.evidence
           /\ s.judged[r.draft] = v
           /\ \A d \in Drafts : d # r.draft => s.judged[d] = r.judged[d]
<1> DEFINE j == [r.judged EXCEPT ![r.draft] = v]
<1> DEFINE s == [r EXCEPT !.spent = r.spent + n, !.judged = j]
<1>1. v \in VerdictOrNone
    BY DEF VerdictOrNone
<1>2. r.judged \in Judgements
    BY DEF AskRecords
<1>3. /\ j \in Judgements /\ j[r.draft] = v
      /\ \A d \in Drafts : d # r.draft => j[d] = r.judged[d]
    BY <1>1, <1>2 DEF Judgements
<1>4. Judged(r, n, v) = s
    BY DEF Judged, AskRecords
<1>5. r.spent + n \in Nat
    BY DEF AskRecords
<1> HIDE DEF j
<1>6. /\ s \in AskRecords /\ s.spent = r.spent + n /\ s.stage = r.stage
      /\ s.draft = r.draft /\ s.review = r.review /\ s.verdict = r.verdict
      /\ s.reply = r.reply /\ s.evidence = r.evidence /\ s.judged = j
    BY <1>3, <1>5 DEF AskRecords
<1> HIDE DEF s
<1> QED
    BY <1>3, <1>4, <1>6

\* The critic is not heard: what had been made is delivered, not accepted.
LEMMA CritiqueFailsStep ==
    ASSUME IndInv, NEW a \in Asks, CritiqueFails(a)
    PROVE  IndInv'
<1> DEFINE verdict == IF asks[a].stage = "critique" THEN "none" ELSE "revise"
<1> DEFINE sketch == asks[a].draft
<1>1. /\ asks[a] \in AskRecords /\ asks[a].stage \in {"critique", "critique_revision"}
      /\ ReviewInv(asks[a]) /\ SpendInv(asks[a])
    BY DEF CritiqueFails, IndInv, TypeInv
<1>2. PICK n \in Exhausting :
         Becomes(a, [Delivered(asks[a], sketch, "review_failed", verdict) EXCEPT !.spent = @ + n])
    BY DEF CritiqueFails
<1> DEFINE s == [Delivered(asks[a], sketch, "review_failed", verdict) EXCEPT !.spent = @ + n]
<1>3. /\ verdict \in VerdictOrNone /\ sketch \in DraftOrNone /\ "review_failed" \in Reviews
      /\ n \in Nat /\ n <= Attempts
      /\ verdict \in {"none", "revise"}
    BY <1>1, AttemptFacts DEF VerdictOrNone, Verdicts, Reviews, AskRecords
<1>4. Becomes(a, s)
    BY <1>2
<1> HIDE DEF verdict
<1>5. /\ s \in AskRecords /\ s.stage = "attach" /\ s.draft = sketch
      /\ s.review = "review_failed" /\ s.verdict = verdict
      /\ s.judged = asks[a].judged /\ s.spent = asks[a].spent + n
    BY <1>1, <1>3, DeliveredFacts
<1> HIDE DEF s
<1>6. /\ sketch = "revised" => asks[a].judged["original"] = "revise"
      /\ sketch \in Drafts /\ asks[a].judged[sketch] \in {"none", "revise"}
    BY <1>1 DEF ReviewInv, Drafts
<1>7. Earned(s)
    BY <1>3, <1>5, <1>6 DEF Earned
<1>8. s.spent <= 5 * Attempts
    BY <1>1, <1>3, <1>5, AttemptFacts DEF SpendInv, CallsBefore, AskRecords
<1> QED
    BY <1>4, <1>5, <1>7, <1>8, AttachFacts, OneChanges

\* What the literals of a review are members of.
LEMMA Literals ==
    /\ "none" \in DraftOrNone /\ "original" \in DraftOrNone /\ "revised" \in DraftOrNone
    /\ "original" \in Drafts /\ "revised" \in Drafts
    /\ "reviewed" \in Reviews /\ "not_reviewed" \in Reviews /\ "review_failed" \in Reviews
    /\ "accept" \in VerdictOrNone /\ "revise" \in VerdictOrNone /\ "reject" \in VerdictOrNone
    /\ "none" \in VerdictOrNone
    /\ "revision" \in AskStages
BY DEF DraftOrNone, Drafts, Reviews, VerdictOrNone, Verdicts, AskStages, UnderWay, Graph

\* A draft that the critic has accepted, or rejected, is at its end.
LEMMA Decided ==
    ASSUME NEW r \in AskRecords, r.draft \in Drafts, r.spent <= 5 * Attempts
    PROVE  /\ LET s == Rejected(r) IN
              /\ s \in AskRecords /\ s.spent = r.spent
              /\ s.stage = "attach" /\ ReviewInv(s) /\ SpendInv(s)
           /\ r.judged[r.draft] = "accept"
              /\ (r.draft = "revised" => r.judged["original"] = "revise") =>
                LET s == Delivered(r, r.draft, "reviewed", "accept") IN
                s \in AskRecords /\ ReviewInv(s) /\ SpendInv(s)
<1> DEFINE s == Rejected(r)
<1> DEFINE t == Delivered(r, r.draft, "reviewed", "accept")
<1>1. 0 \in EvidenceCounts /\ "attach" \in AskStages
    BY AskConstants DEF EvidenceCounts, AskStages, UnderWay, Graph
<1>2. /\ s \in AskRecords /\ s.stage = "attach" /\ s.draft = "none" /\ s.verdict = "reject"
      /\ s.spent = r.spent
    BY <1>1, Literals DEF Rejected, Delivered, AskRecords
<1>3. /\ t \in AskRecords /\ t.stage = "attach" /\ t.draft = r.draft /\ t.verdict = "accept"
      /\ t.review = "reviewed" /\ t.spent = r.spent /\ t.judged = r.judged
    BY <1>1, Literals DEF Delivered, AskRecords
<1> HIDE DEF s, t
<1>4. Earned(s)
    BY <1>2 DEF Earned, Drafts
<1>5. ASSUME r.judged[r.draft] = "accept", r.draft = "revised" => r.judged["original"] = "revise"
      PROVE  Earned(t)
    BY <1>3, <1>5 DEF Earned
<1>6. ReviewInv(s) /\ SpendInv(s)
    BY <1>2, <1>4, AttachFacts
<1>7. ASSUME r.judged[r.draft] = "accept", r.draft = "revised" => r.judged["original"] = "revise"
      PROVE  ReviewInv(t) /\ SpendInv(t)
    BY <1>3, <1>5, <1>7, AttachFacts
<1> QED
    BY <1>2, <1>3, <1>6, <1>7 DEF s, t

\* The critic's verdict on the hypotheses.
LEMMA CritiqueStep ==
    ASSUME IndInv, NEW a \in Asks, Critique(a)
    PROVE  IndInv'
<1>1. /\ asks[a] \in AskRecords /\ asks[a].stage = "critique"
      /\ ReviewInv(asks[a]) /\ SpendInv(asks[a])
    BY DEF Critique, IndInv, TypeInv
<1>2. /\ asks[a].draft = "original" /\ asks[a].reply = "investigation"
      /\ asks[a].judged["revised"] = "none" /\ asks[a].spent <= 2 * Attempts
      /\ asks[a].draft \in Drafts
    BY <1>1, Literals DEF ReviewInv, SpendInv, CallsBefore
<1>3. PICK n \in Succeeding, v \in Verdicts :
        LET r == Judged(asks[a], n, v) IN
        Becomes(a, CASE v = "accept" -> Delivered(r, r.draft, "reviewed", "accept")
                     [] v = "revise" -> [r EXCEPT !.stage = "revision"]
                     [] v = "reject" -> Rejected(r))
    BY DEF Critique
<1>4. n \in Nat /\ n <= Attempts
    BY AttemptFacts
<1> DEFINE r == Judged(asks[a], n, v)
<1>5. /\ r \in AskRecords /\ r.spent = asks[a].spent + n /\ r.draft = "original"
      /\ r.reply = "investigation" /\ r.judged["original"] = v /\ r.judged["revised"] = "none"
      /\ r.draft \in Drafts
    BY <1>1, <1>2, <1>4, JudgedFacts, Literals
<1>6. /\ v = "accept" => Becomes(a, Delivered(r, r.draft, "reviewed", "accept"))
      /\ v = "revise" => Becomes(a, [r EXCEPT !.stage = "revision"])
      /\ v = "reject" => Becomes(a, Rejected(r))
    BY <1>3
<1>7. r.spent <= 3 * Attempts /\ r.spent <= 5 * Attempts
    BY <1>1, <1>2, <1>4, <1>5, AttemptFacts DEF AskRecords
<1> HIDE DEF r
<1>8. CASE v = "accept"
    BY <1>5, <1>6, <1>7, <1>8, Decided, OneChanges
<1>9. CASE v = "reject"
    BY <1>5, <1>6, <1>7, <1>9, Decided, OneChanges
<1>10. CASE v = "revise"
  <2> DEFINE s == [r EXCEPT !.stage = "revision"]
  <2>1. /\ s \in AskRecords /\ s.stage = "revision" /\ s.spent = r.spent /\ s.draft = r.draft
        /\ s.reply = r.reply /\ s.judged = r.judged
      BY <1>5, Literals DEF AskRecords
  <2>2. Becomes(a, s)
      BY <1>6, <1>10
  <2> HIDE DEF s
  <2>3. ReviewInv(s)
      BY <1>5, <1>10, <2>1 DEF ReviewInv
  <2>4. SpendInv(s)
      BY <1>7, <2>1 DEF SpendInv, CallsBefore
  <2> QED
      BY <2>1, <2>2, <2>3, <2>4, OneChanges
<1> QED
    BY <1>8, <1>9, <1>10 DEF Verdicts

\* The one revision, made because the first draft was sent back.
LEMMA RevisionStep ==
    ASSUME IndInv, NEW a \in Asks, Revision(a)
    PROVE  IndInv'
<1>1. /\ asks[a] \in AskRecords /\ asks[a].stage = "revision"
      /\ ReviewInv(asks[a]) /\ SpendInv(asks[a])
    BY DEF Revision, IndInv, TypeInv
<1>2. /\ asks[a].draft = "original" /\ asks[a].reply = "investigation"
      /\ asks[a].judged["original"] = "revise" /\ asks[a].judged["revised"] = "none"
      /\ asks[a].spent <= 3 * Attempts
    BY <1>1 DEF ReviewInv, SpendInv, CallsBefore
<1>3. ASSUME NEW n \in Exhausting, NEW sketch \in DraftOrNone, NEW review \in Reviews,
             NEW verdict \in {"revise", "reject"},
             verdict = "reject" => sketch = "none",
             verdict = "revise" => sketch = "original" /\ review = "review_failed",
             Becomes(a, [Delivered(asks[a], sketch, review, verdict) EXCEPT !.spent = @ + n])
      PROVE  IndInv'
  <2> DEFINE s == [Delivered(asks[a], sketch, review, verdict) EXCEPT !.spent = @ + n]
  <2>1. n \in Nat /\ n <= Attempts /\ verdict \in VerdictOrNone
      BY AttemptFacts, Literals
  <2>2. /\ s \in AskRecords /\ s.stage = "attach" /\ s.draft = sketch /\ s.review = review
        /\ s.verdict = verdict /\ s.judged = asks[a].judged /\ s.spent = asks[a].spent + n
      BY <1>1, <2>1, DeliveredFacts
  <2>3. Becomes(a, s)
      BY <1>3
  <2> HIDE DEF s
  <2>4. Earned(s)
      BY <1>2, <1>3, <2>2 DEF Earned, Drafts
  <2>5. s.spent <= 5 * Attempts
      BY <1>1, <1>2, <2>1, <2>2, AttemptFacts DEF AskRecords
  <2> QED
      BY <2>2, <2>3, <2>4, <2>5, AttachFacts, OneChanges
<1>4. ASSUME NEW n \in Succeeding,
             Becomes(a, [ForReview(asks[a], "revised", "critique_revision") EXCEPT !.spent = @ + n])
      PROVE  IndInv'
  <2> DEFINE s == [ForReview(asks[a], "revised", "critique_revision") EXCEPT !.spent = @ + n]
  <2>1. /\ n \in Nat /\ n <= Attempts
        /\ "critique_revision" \in {"critique", "critique_revision"}
      BY AttemptFacts
  <2>2. /\ s \in AskRecords /\ s.spent = asks[a].spent + n
        /\ s.judged = asks[a].judged /\ s.reply = asks[a].reply
        /\ \/ s.stage = "attach" /\ s.draft = "none" /\ s.verdict = "reject"
           \/ s.stage = "critique_revision" /\ s.draft = "revised"
      BY <1>1, <2>1, ForReviewFacts, Literals
  <2>3. Becomes(a, s)
      BY <1>4
  <2> HIDE DEF s
  <2>4. ReviewInv(s)
      BY <1>2, <2>2 DEF ReviewInv, Earned, Drafts
  <2>5. SpendInv(s)
      BY <1>1, <1>2, <2>1, <2>2, AttemptFacts DEF SpendInv, CallsBefore, AskRecords
  <2> QED
      BY <2>2, <2>3, <2>4, <2>5, OneChanges
<1>5. CASE \E n \in Exhausting :
              Becomes(a, [Delivered(asks[a], asks[a].draft, "review_failed", "revise")
                          EXCEPT !.spent = @ + n])
    BY <1>2, <1>3, <1>5, Literals
<1>6. CASE \E n \in Succeeding : Becomes(a, [Rejected(asks[a]) EXCEPT !.spent = @ + n])
    BY <1>3, <1>6, AttemptFacts, Literals DEF Rejected
<1>7. CASE \E n \in Succeeding :
              Becomes(a, [ForReview(asks[a], "revised", "critique_revision") EXCEPT !.spent = @ + n])
    BY <1>4, <1>7
<1> QED
    BY <1>5, <1>6, <1>7 DEF Revision

\* The critic's verdict on the revision, the last there is.
LEMMA CritiqueRevisionStep ==
    ASSUME IndInv, NEW a \in Asks, CritiqueRevision(a)
    PROVE  IndInv'
<1>1. /\ asks[a] \in AskRecords /\ asks[a].stage = "critique_revision"
      /\ ReviewInv(asks[a]) /\ SpendInv(asks[a])
    BY DEF CritiqueRevision, IndInv, TypeInv
<1>2. /\ asks[a].draft = "revised" /\ asks[a].draft \in Drafts
      /\ asks[a].judged["original"] = "revise" /\ asks[a].spent <= 4 * Attempts
    BY <1>1, Literals DEF ReviewInv, SpendInv, CallsBefore
<1>3. PICK n \in Succeeding, v \in Verdicts :
        Becomes(a, SecondVerdict(Judged(asks[a], n, v), v))
    BY DEF CritiqueRevision
<1>4. n \in Nat /\ n <= Attempts
    BY AttemptFacts
<1> DEFINE r == Judged(asks[a], n, v)
<1>5. /\ r \in AskRecords /\ r.spent = asks[a].spent + n /\ r.draft = "revised"
      /\ r.judged["revised"] = v /\ r.judged["original"] = "revise" /\ r.draft \in Drafts
    BY <1>1, <1>2, <1>4, JudgedFacts, Literals
<1>6. r.spent <= 5 * Attempts
    BY <1>1, <1>2, <1>4, <1>5, AttemptFacts DEF AskRecords
<1>7. Becomes(a, SecondVerdict(r, v))
    BY <1>3
<1> HIDE DEF r
<1>8. CASE v \in {"revise", "reject"}
    BY <1>5, <1>6, <1>7, <1>8, Decided, OneChanges DEF SecondVerdict
<1>9. CASE v = "accept"
    BY <1>5, <1>6, <1>7, <1>9, Decided, OneChanges DEF SecondVerdict
<1> QED
    BY <1>8, <1>9 DEF Verdicts

\* The investigation is put on the incident's timeline, or fails to be.
LEMMA AttachStep ==
    ASSUME IndInv, NEW a \in Asks, Attach(a)
    PROVE  IndInv'
<1>1. /\ asks[a] \in AskRecords /\ asks[a].stage = "attach"
      /\ ReviewInv(asks[a]) /\ SpendInv(asks[a])
      /\ asks[a].reply \in Answers
    BY DEF Attach, IndInv, TypeInv, AskRecords
<1>2. Earned(asks[a]) /\ asks[a].spent <= 5 * Attempts
    BY <1>1 DEF ReviewInv, SpendInv, CallsBefore
<1>3. ASSUME NEW s \in AskRecords, s.stage = "finish", s.spent = asks[a].spent,
             s.draft = asks[a].draft, s.review = asks[a].review,
             s.verdict = asks[a].verdict, s.judged = asks[a].judged, Becomes(a, s)
      PROVE  IndInv'
  <2>1. Earned(s)
      BY <1>2, <1>3 DEF Earned
  <2>2. ReviewInv(s) /\ SpendInv(s)
      BY <1>2, <1>3, <2>1 DEF ReviewInv, SpendInv, CallsBefore
  <2> QED
      BY <1>3, <2>2, OneChanges
<1>4. CASE Becomes(a, Replies(asks[a], asks[a].reply))
    BY <1>1, <1>3, <1>4, RepliesFacts
<1>5. CASE Becomes(a, [Replies(asks[a], asks[a].reply) EXCEPT !.broken = TRUE])
  <2> DEFINE d == Replies(asks[a], asks[a].reply)
  <2>1. /\ d \in AskRecords /\ d.stage = "finish" /\ d.spent = asks[a].spent
        /\ d.draft = asks[a].draft /\ d.review = asks[a].review
        /\ d.verdict = asks[a].verdict /\ d.judged = asks[a].judged
      BY <1>1, RepliesFacts
  <2>2. Becomes(a, [d EXCEPT !.broken = TRUE])
      BY <1>5
  <2> HIDE DEF d
  <2> DEFINE s == [d EXCEPT !.broken = TRUE]
  <2>3. /\ s \in AskRecords /\ s.stage = "finish" /\ s.spent = asks[a].spent
        /\ s.draft = asks[a].draft /\ s.review = asks[a].review
        /\ s.verdict = asks[a].verdict /\ s.judged = asks[a].judged
      BY <2>1 DEF AskRecords
  <2>4. Becomes(a, s)
      BY <2>2
  <2> HIDE DEF s
  <2> QED
      BY <1>3, <2>3, <2>4
<1> QED
    BY <1>4, <1>5 DEF Attach

\* The pipeline of a postmortem: two calls, and nothing to review.
LEMMA PostmortemsStep ==
    ASSUME IndInv, NEW a \in Asks, PostmortemStep(a)
    PROVE  IndInv'
<1>1. /\ asks[a] \in AskRecords /\ ReviewInv(asks[a]) /\ SpendInv(asks[a])
      /\ asks[a].spent \in Nat
    BY DEF IndInv, TypeInv, AskRecords
<1>2. CASE asks[a].stage = "timeline" /\ Becomes(a, [asks[a] EXCEPT !.stage = "root_cause"])
  <2> DEFINE r == [asks[a] EXCEPT !.stage = "root_cause"]
  <2>1. "root_cause" \in AskStages
      BY DEF AskStages, UnderWay, Pipeline
  <2>2. r \in AskRecords /\ r.stage = "root_cause" /\ r.spent = asks[a].spent
      BY <1>1, <2>1 DEF AskRecords
  <2> HIDE DEF r
  <2>3. ReviewInv(r) /\ SpendInv(r)
      BY <1>1, <1>2, <2>2, AttemptFacts DEF ReviewInv, SpendInv, CallsBefore
  <2> QED
      BY <1>2, <2>2, <2>3, OneChanges DEF r
<1>3. CASE /\ asks[a].stage = "root_cause"
           /\ \E n \in Succeeding :
                 Becomes(a, [asks[a] EXCEPT !.stage = "action_items", !.spent = @ + n])
  <2>1. PICK n \in Succeeding :
           Becomes(a, [asks[a] EXCEPT !.stage = "action_items", !.spent = @ + n])
      BY <1>3
  <2> DEFINE spent == asks[a].spent + n
  <2> DEFINE r == [asks[a] EXCEPT !.stage = "action_items", !.spent = spent]
  <2>2. spent \in Nat /\ spent <= Attempts /\ "action_items" \in AskStages
      BY <1>1, <1>3, AttemptFacts DEF SpendInv, CallsBefore, AskStages, UnderWay, Pipeline
  <2>3. Becomes(a, r)
      BY <2>1
  <2> HIDE DEF spent
  <2>4. r \in AskRecords /\ r.stage = "action_items" /\ r.spent = spent
      BY <1>1, <2>2 DEF AskRecords
  <2> HIDE DEF r
  <2>5. ReviewInv(r) /\ SpendInv(r)
      BY <2>2, <2>4, AttemptFacts DEF ReviewInv, SpendInv, CallsBefore
  <2> QED
      BY <2>3, <2>4, <2>5, OneChanges
<1>4. CASE /\ asks[a].stage = "action_items"
           /\ \E n \in Succeeding :
                 Becomes(a, [Replies(asks[a], "postmortem") EXCEPT !.spent = @ + n])
  <2>1. PICK n \in Succeeding :
           Becomes(a, [Replies(asks[a], "postmortem") EXCEPT !.spent = @ + n])
      BY <1>4
  <2> DEFINE r == [Replies(asks[a], "postmortem") EXCEPT !.spent = @ + n]
  <2>2. n \in Nat /\ n <= Attempts /\ "postmortem" \in Answers
      BY AttemptFacts DEF Answers
  <2>3. r \in AskRecords /\ r.stage = "finish" /\ r.reply = "postmortem"
        /\ r.spent = asks[a].spent + n
      BY <1>1, <2>2, RepliesAtACost
  <2>4. Becomes(a, r)
      BY <2>1
  <2> HIDE DEF r
  <2>5. ReviewInv(r) /\ SpendInv(r)
      BY <1>1, <1>4, <2>2, <2>3, AttemptFacts DEF ReviewInv, SpendInv, CallsBefore
  <2> QED
      BY <2>3, <2>4, <2>5, OneChanges
<1> QED
    BY <1>2, <1>3, <1>4 DEF PostmortemStep

\* A node that raises loses the review with everything it had made.
LEMMA UnexpectedErrorStep ==
    ASSUME IndInv, NEW a \in Asks, UnexpectedError(a)
    PROVE  IndInv'
<1> DEFINE r == [NewAsk EXCEPT !.stage = "finish", !.row = "failed", !.reply = "generic",
                               !.kind = asks[a].kind, !.spent = asks[a].spent,
                               !.broken = asks[a].broken]
<1>1. /\ asks[a] \in AskRecords /\ asks[a].stage \in Graph /\ SpendInv(asks[a])
    BY DEF UnexpectedError, IndInv, TypeInv
<1>2. Becomes(a, r)
    BY DEF UnexpectedError
<1>3. "finish" \in AskStages /\ "failed" \in Rows /\ "generic" \in Answers
    BY DEF AskStages, UnderWay, Rows, Answers
<1>4. r \in AskRecords /\ r.stage = "finish" /\ r.reply = "generic" /\ r.spent = asks[a].spent
    BY <1>1, <1>3, NewAskFacts DEF AskRecords
<1> HIDE DEF r
<1>5. ReviewInv(r)
    BY <1>4 DEF ReviewInv
<1>6. SpendInv(r)
    BY <1>1, <1>4, AttemptFacts DEF SpendInv, CallsBefore, Graph, AskRecords
<1> QED
    BY <1>2, <1>4, <1>5, <1>6, OneChanges

\* The request returns, and its row counts for a day.
LEMMA FinishStep ==
    ASSUME IndInv, NEW a \in Asks, FinishAsk(a)
    PROVE  IndInv'
<1>1. /\ asks[a] \in AskRecords /\ asks[a].stage = "finish" /\ SpendInv(asks[a])
    BY DEF FinishAsk, IndInv, TypeInv
<1>2. CASE asks[a].broken
    BY <1>1, <1>2, RaisedFacts, OneChanges DEF FinishAsk
<1>3. CASE ~asks[a].broken
  <2> DEFINE row == IF asks[a].row = "failed" THEN "failed" ELSE "succeeded"
  <2> DEFINE r == [NewAsk EXCEPT !.stage = "done", !.spent = asks[a].spent, !.row = row]
  <2>1. asks' = [asks EXCEPT ![a] = r] /\ window' = window \cup {a} /\ UNCHANGED <<critique, width>>
      BY <1>3 DEF FinishAsk
  <2>2. row \in Rows /\ "done" \in AskStages
      BY DEF Rows, AskStages, Ended
  <2> HIDE DEF row
  <2>3. r \in AskRecords /\ r.stage = "done" /\ r.spent = asks[a].spent
      BY <1>1, <2>2, NewAskFacts DEF AskRecords
  <2> HIDE DEF r
  <2>4. ReviewInv(r) /\ SpendInv(r)
      BY <1>1, <2>3 DEF ReviewInv, SpendInv, CallsBefore
  <2>5. TypeInv'
      BY <2>1, <2>3 DEF IndInv, TypeInv
  <2>6. \A b \in Asks : asks'[b] = IF b = a THEN r ELSE asks[b]
      BY <2>1 DEF IndInv, TypeInv
  <2>7. \A x : (ReviewInv(x)' <=> ReviewInv(x)) /\ (SpendInv(x)' <=> SpendInv(x))
      BY <2>1 DEF ReviewInv, SpendInv, Earned
  <2> QED
      BY <2>4, <2>5, <2>6, <2>7 DEF IndInv
<1> QED
    BY <1>2, <1>3

-----------------------------------------------------------------------------
\* Every step of the requests, and the day that passes, keeps the invariant.
LEMMA Step == IndInv /\ [AskNext]_askVars => IndInv'
<1> SUFFICES ASSUME IndInv, [AskNext]_askVars PROVE IndInv'
    OBVIOUS
<1>1. CASE UNCHANGED askVars
    BY <1>1 DEF askVars, IndInv, TypeInv, ReviewInv, Earned, SpendInv
<1>2. ASSUME NEW a \in Asks, Expire(a)
      PROVE  IndInv'
    BY <1>2 DEF Expire, IndInv, TypeInv, ReviewInv, Earned, SpendInv
<1>3. CASE AskNext
  <2>1. PICK a \in Asks :
        \/ \E sort \in AskKinds, incident \in BOOLEAN :
                BeginAsk(a, sort, incident) \/ BeginAskFails(a, sort, incident)
        \/ Rewrite(a) \/ NoSuchIncident(a) \/ Search(a) \/ Answer(a)
        \/ Evidence(a) \/ Hypotheses(a)
        \/ Critique(a) \/ CritiqueFails(a) \/ Revision(a) \/ CritiqueRevision(a)
        \/ Attach(a)
        \/ PostmortemStep(a) \/ PostmortemFails(a)
        \/ UnexpectedError(a) \/ FinishAsk(a) \/ Cancelled(a)
        \/ Expire(a)
      BY <1>3 DEF AskNext
  <2>2. CASE \E sort \in AskKinds, incident \in BOOLEAN :
                BeginAsk(a, sort, incident) \/ BeginAskFails(a, sort, incident)
      BY <2>2, BeginStep, BeginFailsStep
  <2>3. CASE Rewrite(a) \/ NoSuchIncident(a) \/ Search(a) \/ Answer(a)
      BY <2>3, RewriteStep, RaisesStep, SearchStep, AnswerStep
  <2>4. CASE Evidence(a) \/ Hypotheses(a)
      BY <2>4, EvidenceStep, HypothesesStep
  <2>5. CASE Critique(a) \/ CritiqueFails(a) \/ Revision(a) \/ CritiqueRevision(a)
      BY <2>5, CritiqueStep, CritiqueFailsStep, RevisionStep, CritiqueRevisionStep
  <2>6. CASE Attach(a) \/ PostmortemStep(a) \/ PostmortemFails(a)
      BY <2>6, AttachStep, PostmortemsStep, RaisesStep
  <2>7. CASE UnexpectedError(a) \/ FinishAsk(a) \/ Cancelled(a)
      BY <2>7, UnexpectedErrorStep, FinishStep, RaisesStep
  <2> QED
      BY <1>2, <2>1, <2>2, <2>3, <2>4, <2>5, <2>6, <2>7
<1> QED
    BY <1>1, <1>3

\* The invariant of the requests: how far the review of each has come.
THEOREM AsksInvariant == AskSpec => []IndInv
<1>1. AskInit => IndInv
    BY Initially
<1>2. IndInv /\ [AskNext]_askVars => IndInv'
    BY Step
<1> QED
    BY <1>1, <1>2, PTL DEF AskSpec

\* The rows, the window and the settings keep their types.
THEOREM AskTypes == AskSpec => []AskTypeOK
<1>1. IndInv => AskTypeOK
    BY DEF IndInv, TypeInv, AskTypeOK, AskRecords, AskStages, Rows, EvidenceCounts, DraftOrNone,
           Reviews, VerdictOrNone, Judgements, Answers
<1> QED
    BY <1>1, AsksInvariant, PTL

\* What a reply says of the review of its hypotheses is true of that review,
\* whatever the critic answers and whichever call fails.
THEOREM ReviewsAreEarned == AskSpec => []ReviewIsEarned
<1>1. IndInv => ReviewIsEarned
  <2> SUFFICES ASSUME IndInv, NEW a \in Asks, asks[a].stage \in {"attach", "finish"},
                      asks[a].reply = "investigation"
               PROVE  Earned(asks[a])
      BY DEF ReviewIsEarned, Earned
  <2> QED
      BY DEF IndInv, ReviewInv
<1> QED
    BY <1>1, AsksInvariant, PTL

\* What the stages allow is never more than five calls.
LEMMA SpendsNoMore ==
    ASSUME IndInv, NEW a \in Asks
    PROVE  asks[a].spent <= MaxSpend
<1>1. asks[a] \in AskRecords /\ asks[a].spent <= CallsBefore(asks[a].stage) * Attempts
    BY DEF IndInv, TypeInv, SpendInv
<1>2. asks[a].spent \in Nat /\ CallsBefore(asks[a].stage) \in 0..5
    BY <1>1 DEF CallsBefore, AskRecords, AskStages, UnderWay, Graph, Pipeline, Ended
<1>3. CallsBefore(asks[a].stage) * Attempts <= 5 * Attempts
    BY <1>2, AttemptFacts
<1> QED
    BY <1>1, <1>2, <1>3, AttemptFacts DEF MaxSpend

\* No request makes more than five calls of the model, with their retries: there is
\* one revision at most, and no second round of the review.
THEOREM SpendingIsBounded == AskSpec => [](\A a \in Asks : asks[a].spent <= MaxSpend)
<1>1. IndInv => \A a \in Asks : asks[a].spent <= MaxSpend
    BY SpendsNoMore
<1> QED
    BY <1>1, AsksInvariant, PTL

-----------------------------------------------------------------------------
(* The budget.  The asks that are under way count as spent at their most:  *)
(* with them, what is recorded never passes the bound.                     *)

\* What the records of S have spent together.
Total(r, S) == MapThenSumSet(LAMBDA a : r[a].spent, S)

\* The equation that the fold solves.
Adds(g, r, S) ==
    g = [s \in SUBSET S |->
            IF s = {} THEN 0
            ELSE r[CHOOSE x \in s : TRUE].spent + g[s \ {CHOOSE x \in s : TRUE}]]

\* The equation has a solution: one for the sets of at most n elements leads to one for n + 1.
LEMMA AddsExists ==
    ASSUME NEW S, IsFiniteSet(S), NEW r
    PROVE  \E g : Adds(g, r, S)
<1> DEFINE first(s) == CHOOSE x \in s : TRUE
           next(g) == [s \in SUBSET S |-> IF s = {} THEN 0 ELSE r[first(s)].spent + g[s \ {first(s)}]]
           Upto(g, n) == \A s \in SUBSET S : Cardinality(s) <= n => g[s] = next(g)[s]
           P == {n \in Nat : \E g : Upto(g, n)}
<1>1. \A T \in SUBSET S : IsFiniteSet(T) /\ Cardinality(T) \in Nat
  BY FS_Subset, FS_CardinalityType
<1>2. \A s \in SUBSET S : s # {} =>
        /\ first(s) \in s /\ s \ {first(s)} \in SUBSET S
        /\ Cardinality(s \ {first(s)}) = Cardinality(s) - 1
  BY <1>1, FS_RemoveElement
<1>3. \A g : \A s \in SUBSET S :
        next(g)[s] = IF s = {} THEN 0 ELSE r[first(s)].spent + g[s \ {first(s)}]
  OBVIOUS
<1>4. 0 \in P
  <2>1. \A s \in SUBSET S : Cardinality(s) <= 0 => s = {}
    BY <1>1, FS_EmptySet
  <2>2. Upto([s \in SUBSET S |-> 0], 0)
    BY <2>1, <1>3
  <2> QED
    BY <2>2
<1>5. ASSUME NEW n \in Nat, n \in P
      PROVE  n + 1 \in P
  <2>1. PICK g : Upto(g, n)
    BY <1>5
  <2> DEFINE h == next(g)
  <2>2. \A s \in SUBSET S : s # {} /\ Cardinality(s) <= n + 1 => h[s \ {first(s)}] = g[s \ {first(s)}]
    <3> SUFFICES ASSUME NEW s \in SUBSET S, s # {}, Cardinality(s) <= n + 1
                 PROVE  h[s \ {first(s)}] = g[s \ {first(s)}]
      OBVIOUS
    <3>1. Cardinality(s \ {first(s)}) <= n /\ s \ {first(s)} \in SUBSET S
      BY <1>1, <1>2
    <3> HIDE DEF next
    <3> QED
      BY <2>1, <3>1
  <2>3. Upto(h, n + 1)
    <3> HIDE DEF next, first
    <3>1. \A s \in SUBSET S : h[s] = IF s = {} THEN 0 ELSE r[first(s)].spent + g[s \ {first(s)}]
      BY <1>3
    <3> HIDE DEF h
    <3> SUFFICES ASSUME NEW s \in SUBSET S, Cardinality(s) <= n + 1
                 PROVE  h[s] = next(h)[s]
      OBVIOUS
    <3>2. CASE s = {}
      BY <1>3, <3>1, <3>2
    <3>3. CASE s # {}
      <4>1. h[s \ {first(s)}] = g[s \ {first(s)}]
        BY <2>2, <3>3
      <4> QED
        BY <1>3, <3>1, <3>3, <4>1
    <3> QED
      BY <3>2, <3>3
  <2>4. \E k : Upto(k, n + 1)
    <3> HIDE DEF Upto, h
    <3> QED
      BY <2>3
  <2> HIDE DEF Upto
  <2> QED
    BY <2>4
<1>6. Cardinality(S) \in P
  <2> HIDE DEF P
  <2> QED
    BY <1>1, <1>4, <1>5, NaturalsByInduction
<1>7. PICK g : Upto(g, Cardinality(S))
  BY <1>6
<1>8. \A s \in SUBSET S : g[s] = next(g)[s]
  BY <1>1, <1>7, FS_Subset
<1> DEFINE h == next(g)
<1>9. h = next(h)
  <2> HIDE DEF next
  <2>1. \A s \in SUBSET S : h[s] = g[s]
    BY <1>8
  <2> USE DEF next
  <2> HIDE DEF h, first
  <2>2. h = next(g)
    BY DEF h
  <2> QED
    BY <1>2, <2>1, <2>2
<1>10. Adds(h, r, S)
  BY <1>9 DEF Adds
<1> QED
  BY <1>10

\* What the fold is, on every part of the set it is taken over.
LEMMA AddsIsTotal ==
    ASSUME NEW S, IsFiniteSet(S), NEW r
    PROVE  \E g : Adds(g, r, S) /\ Total(r, S) = g[S]
<1> DEFINE first(s) == CHOOSE x \in s : TRUE
           iter == CHOOSE g : Adds(g, r, S)
<1>1. Adds(iter, r, S)
  BY AddsExists
<1>2. Total(r, S) = iter[S]
  BY DEF Total, MapThenSumSet, MapThenFoldSet, Adds
<1> QED
  BY <1>1, <1>2

\* A solution, set by set.
LEMMA AddsAt ==
    ASSUME NEW S, NEW r, NEW g, Adds(g, r, S)
    PROVE  /\ {} \in SUBSET S /\ g[{}] = 0
           /\ \A s \in SUBSET S : s # {} =>
                \E c \in s : c = (CHOOSE x \in s : TRUE) /\ g[s] = r[c].spent + g[s \ {c}]
<1>1. \A s \in SUBSET S : s # {} => (CHOOSE x \in s : TRUE) \in s
  OBVIOUS
<1>2. \A s \in SUBSET S : g[s] =
        IF s = {} THEN 0
        ELSE r[CHOOSE x \in s : TRUE].spent + g[s \ {CHOOSE x \in s : TRUE}]
  BY DEF Adds
<1>3. {} \in SUBSET S
  OBVIOUS
<1>4. g[{}] = 0
  BY <1>2, <1>3
<1>5. \A s \in SUBSET S : s # {} => g[s] =
         r[CHOOSE x \in s : TRUE].spent + g[s \ {CHOOSE x \in s : TRUE}]
  BY <1>2
<1> QED
  BY <1>1, <1>3, <1>4, <1>5

\* Records that agree on R add up to the same there.
LEMMA AddsAgree ==
    ASSUME NEW S, IsFiniteSet(S), NEW R \in SUBSET S, NEW r, NEW q,
           NEW g, Adds(g, r, S), NEW h, Adds(h, q, R),
           \A a \in R : r[a].spent = q[a].spent
    PROVE  \A T \in SUBSET R : g[T] = h[T]
<1> DEFINE P == {T \in SUBSET R : g[T] = h[T]}
<1>1. IsFiniteSet(R)
  BY FS_Subset
<1>2. {} \in P
  BY AddsAt
<1>3. ASSUME NEW T \in SUBSET R, T # {}, \A x \in T : T \ {x} \in P
      PROVE  T \in P
  <2>1. PICK c \in T : c = (CHOOSE x \in T : TRUE) /\ g[T] = r[c].spent + g[T \ {c}]
    <3>1. T \in SUBSET S
      OBVIOUS
    <3> QED
      BY <1>3, <3>1, AddsAt
  <2>2. PICK d \in T : d = (CHOOSE x \in T : TRUE) /\ h[T] = q[d].spent + h[T \ {d}]
    BY <1>3, AddsAt
  <2>3. c = d /\ T \ {c} \in P /\ r[c].spent = q[c].spent
    BY <1>3, <2>1, <2>2
  <2> QED
    BY <2>1, <2>2, <2>3
<1>4. SUBSET R \subseteq P
  <2> HIDE DEF P
  <2> QED
    BY <1>1, <1>2, <1>3, SetsByRemoval
<1> QED
  BY <1>4

\* The order in which the fold takes them makes no difference.
LEMMA AddsInAnyOrder ==
    ASSUME NEW S, IsFiniteSet(S), NEW r, NEW g, Adds(g, r, S),
           \A a \in S : r[a].spent \in Nat
    PROVE  \A T \in SUBSET S : g[T] \in Nat /\ \A y \in T : g[T] = r[y].spent + g[T \ {y}]
<1> DEFINE P == {T \in SUBSET S :
                  /\ g[T] \in Nat
                  /\ \A y \in T : g[T] = r[y].spent + g[T \ {y}] /\ g[T \ {y}] \in Nat}
<1>1. {} \in P
  BY AddsAt
<1>2. ASSUME NEW T \in SUBSET S, T # {}, \A x \in T : T \ {x} \in P
      PROVE  T \in P
  <2>1. PICK c \in T : g[T] = r[c].spent + g[T \ {c}]
    BY <1>2, AddsAt
  <2>2. g[T \ {c}] \in Nat /\ r[c].spent \in Nat
    BY <1>2
  <2>3. ASSUME NEW y \in T
        PROVE  g[T] = r[y].spent + g[T \ {y}] /\ g[T \ {y}] \in Nat
    <3>1. CASE y = c
      BY <2>1, <2>2, <3>1
    <3>2. CASE y # c
      <4>1. g[T \ {c}] = r[y].spent + g[(T \ {c}) \ {y}]
        BY <1>2, <3>2
      <4>2. g[T \ {y}] = r[c].spent + g[(T \ {y}) \ {c}]
        BY <1>2, <3>2
      <4>3. (T \ {c}) \ {y} = (T \ {y}) \ {c}
        OBVIOUS
      <4>5. g[T \ {y}] \in Nat
        BY <1>2
      <4>4. g[(T \ {c}) \ {y}] \in Nat /\ r[y].spent \in Nat
        BY <1>2, <3>2
      <4>6. g[T \ {y}] = r[c].spent + g[(T \ {c}) \ {y}]
        BY <4>2, <4>3
      <4> DEFINE rest == g[(T \ {c}) \ {y}]
                 ry == r[y].spent
                 rc == r[c].spent
      <4>7. /\ g[T] = rc + g[T \ {c}] /\ g[T \ {c}] = ry + rest /\ g[T \ {y}] = rc + rest
            /\ rest \in Nat /\ ry \in Nat /\ rc \in Nat
        BY <2>1, <2>2, <4>1, <4>4, <4>6
      <4> HIDE DEF rest, ry, rc
      <4>8. g[T] = ry + g[T \ {y}]
        BY <4>7
      <4> QED
        BY <4>5, <4>8 DEF ry
    <3> QED
      BY <3>1, <3>2
  <2>4. g[T] \in Nat
    BY <2>1, <2>2
  <2> QED
    BY <2>3, <2>4
<1>3. SUBSET S \subseteq P
  <2> HIDE DEF P
  <2> QED
    BY <1>1, <1>2, SetsByRemoval
<1> QED
  BY <1>3

\* What is to be known of a total.
LEMMA TotalFacts ==
    ASSUME NEW S, IsFiniteSet(S), NEW r, \A a \in S : r[a].spent \in Nat
    PROVE  /\ Total(r, S) \in Nat
           /\ Total(r, {}) = 0
           /\ \A y \in S : Total(r, S) = r[y].spent + Total(r, S \ {y})
<1>1. PICK g : Adds(g, r, S) /\ Total(r, S) = g[S]
  BY AddsIsTotal
<1>2. \A T \in SUBSET S : g[T] \in Nat /\ \A y \in T : g[T] = r[y].spent + g[T \ {y}]
  BY <1>1, AddsInAnyOrder
<1>3. ASSUME NEW R \in SUBSET S
      PROVE  Total(r, R) = g[R]
  <2>1. IsFiniteSet(R)
    BY FS_Subset
  <2>2. PICK h : Adds(h, r, R) /\ Total(r, R) = h[R]
    BY <2>1, AddsIsTotal
  <2>3. h[R] = g[R]
    BY <1>1, <2>2, AddsAgree
  <2> QED
    BY <2>2, <2>3
<1>4. Total(r, {}) = 0
  BY <1>1, <1>3, AddsAt
<1> QED
  BY <1>2, <1>3, <1>4

\* Records that have spent the same add up to the same.
LEMMA SameTotal ==
    ASSUME NEW S, IsFiniteSet(S), NEW r, NEW q, \A a \in S : r[a].spent = q[a].spent
    PROVE  Total(r, S) = Total(q, S)
<1>1. PICK g : Adds(g, r, S) /\ Total(r, S) = g[S]
  BY AddsIsTotal
<1>2. PICK h : Adds(h, q, S) /\ Total(q, S) = h[S]
  BY AddsIsTotal
<1> QED
  BY <1>1, <1>2, AddsAgree

\* Only what is committed is recorded, and an ask under way has its room in the bound.
BudgetInv ==
    /\ \A a \in window : asks[a].stage = "done"
    /\ Cardinality(InFlight(asks)) <= width
    /\ Total(asks, window) + Cardinality(InFlight(asks)) * MaxSpend
            <= Budget - 1 + width * MaxSpend

\* The numbers of it.
LEMMA BudgetNumbers ==
    ASSUME TypeInv
    PROVE  /\ MaxSpend \in Nat /\ Budget \in Nat \ {0} /\ width \in Nat
           /\ IsFiniteSet(window) /\ Total(asks, window) \in Nat
           /\ \A y \in window : /\ Total(asks, window) = asks[y].spent + Total(asks, window \ {y})
                                /\ asks[y].spent \in Nat
                                /\ Total(asks, window \ {y}) \in Nat
           /\ IsFiniteSet(InFlight(asks)) /\ Cardinality(InFlight(asks)) \in Nat
<1>1. MaxSpend \in Nat /\ Budget \in Nat \ {0}
  BY AttemptFacts, AskConstants DEF MaxSpend
<1>2. width \in Nat
  <2>1. Cardinality(Asks) \in Nat
    BY AskConstants, FS_CardinalityType
  <2> QED
    BY <2>1 DEF TypeInv
<1>3. IsFiniteSet(window) /\ InFlight(asks) \subseteq Asks /\ window \subseteq Asks
  BY AskConstants, FS_Subset DEF TypeInv, InFlight
<1>4. IsFiniteSet(InFlight(asks)) /\ Cardinality(InFlight(asks)) \in Nat
  BY <1>3, AskConstants, FS_Subset, FS_CardinalityType
<1>5. \A a \in Asks : asks[a].spent \in Nat
  BY DEF TypeInv, AskRecords
<1>6. /\ Total(asks, window) \in Nat
      /\ \A y \in window : Total(asks, window) = asks[y].spent + Total(asks, window \ {y})
  BY <1>3, <1>5, TotalFacts
<1>7. ASSUME NEW y \in window
      PROVE  Total(asks, window \ {y}) \in Nat
  <2>1. IsFiniteSet(window \ {y}) /\ \A a \in window \ {y} : asks[a].spent \in Nat
    BY <1>3, <1>5, FS_Subset
  <2> QED
    BY <2>1, TotalFacts
<1> QED
  BY <1>1, <1>2, <1>3, <1>4, <1>5, <1>6, <1>7

\* Fewer calls under way, at the same width, leave more room.
LEMMA LessRoom ==
    ASSUME NEW m \in Nat, NEW n \in Nat, NEW M \in Nat
    PROVE  /\ m <= n => m * M <= n * M
           /\ (n + 1) * M = n * M + M
           /\ m * M \in Nat
OBVIOUS

\* A request that is not committed goes on, or ends.
LEMMA GoingOnSpends ==
    ASSUME TypeInv, TypeInv', BudgetInv, NEW a \in Asks,
           asks[a].stage # "done",
           asks[a].stage \notin UnderWay => asks'[a].stage \notin UnderWay,
           \A b \in Asks : b # a => asks'[b] = asks[b],
           UNCHANGED <<window, width>>
    PROVE  BudgetInv'
<1>1. a \notin window /\ window \subseteq Asks
  BY DEF BudgetInv, TypeInv
<1>2. InFlight(asks') \subseteq InFlight(asks)
  BY DEF InFlight
<1>3. Cardinality(InFlight(asks')) <= Cardinality(InFlight(asks)) /\ Cardinality(InFlight(asks')) \in Nat
  BY <1>2, BudgetNumbers, FS_Subset, FS_CardinalityType
<1>4. \A b \in window : asks'[b] = asks[b]
  BY <1>1
<1>5. Total(asks', window) = Total(asks, window)
  BY <1>4, BudgetNumbers, SameTotal
<1> DEFINE old == Cardinality(InFlight(asks))
           new == Cardinality(InFlight(asks'))
           total == Total(asks, window)
<1>6. old \in Nat /\ total \in Nat /\ MaxSpend \in Nat /\ width \in Nat /\ Budget \in Nat
  BY BudgetNumbers
<1>7. old <= width /\ total + old * MaxSpend <= Budget - 1 + width * MaxSpend
  BY DEF BudgetInv
<1>8. new \in Nat /\ new <= old
  BY <1>3
<1> HIDE DEF old, new, total
<1>9. new * MaxSpend <= old * MaxSpend
  BY <1>6, <1>8, LessRoom
<1>10. new * MaxSpend \in Nat /\ old * MaxSpend \in Nat /\ width * MaxSpend \in Nat
  BY <1>6, <1>8, LessRoom
<1>11. new <= width /\ total + new * MaxSpend <= Budget - 1 + width * MaxSpend
  BY <1>6, <1>7, <1>8, <1>9, <1>10
<1>12. window' = window /\ width' = width
  OBVIOUS
<1>13. \A b \in window' : asks'[b].stage = "done"
  BY <1>4 DEF BudgetInv
<1> QED
  BY <1>5, <1>11, <1>12, <1>13 DEF BudgetInv, old, new, total, MaxSpend, Attempts

\* A request is let in only below the budget, and the width counts it.
LEMMA BeginSpends ==
    ASSUME TypeInv, TypeInv', BudgetInv, NEW a \in Asks, NEW sort \in AskKinds,
           NEW incident \in BOOLEAN, BeginAsk(a, sort, incident)
    PROVE  BudgetInv'
<1>1. /\ asks[a].stage = "new" /\ window' = window
      /\ width' = IF Cardinality(InFlight(asks')) > width
                  THEN Cardinality(InFlight(asks')) ELSE width
      /\ \A b \in Asks : b # a => asks'[b] = asks[b]
  BY DEF BeginAsk, ComesIn, TypeInv
<1>2. ~WithinBudget => asks'[a].stage = "refused"
  BY DEF BeginAsk, TypeInv, AskRecords
<1>3. "new" # "done" /\ "new" \notin UnderWay /\ "refused" \notin UnderWay
  BY DEF UnderWay, Graph, Pipeline
<1>4. a \notin window /\ window \subseteq Asks
  BY <1>1, <1>3 DEF BudgetInv, TypeInv
<1>5. \A b \in window : asks'[b] = asks[b]
  BY <1>1, <1>4
<1>6. Total(asks', window) = Total(asks, window)
  BY <1>5, BudgetNumbers, SameTotal
<1> DEFINE old == Cardinality(InFlight(asks))
           new == Cardinality(InFlight(asks'))
           total == Total(asks, window)
<1>7. old \in Nat /\ total \in Nat /\ MaxSpend \in Nat /\ width \in Nat /\ Budget \in Nat
  BY BudgetNumbers
<1>8. new \in Nat
  <2>1. InFlight(asks') \subseteq Asks
    BY DEF InFlight
  <2> QED
    BY <2>1, AskConstants, FS_Subset, FS_CardinalityType
<1>9. old <= width /\ total + old * MaxSpend <= Budget - 1 + width * MaxSpend
  BY DEF BudgetInv
<1>10. width' = IF new > width THEN new ELSE width
  BY <1>1
<1>11. ~WithinBudget => new <= old
  <2> SUFFICES ASSUME ~WithinBudget
               PROVE  new <= old
    OBVIOUS
  <2>1. InFlight(asks') \subseteq InFlight(asks)
    BY <1>1, <1>2, <1>3 DEF InFlight
  <2> QED
    BY <2>1, BudgetNumbers, FS_Subset
<1>12. WithinBudget => total <= Budget - 1
  <2>1. Recorded = Total(asks, window)
    BY DEF Recorded, Total
  <2> QED
    BY <1>7, <2>1 DEF WithinBudget
<1> HIDE DEF old, new, total
<1>13. new <= width' /\ width' \in Nat /\ width <= width'
  BY <1>7, <1>8, <1>10
<1>14. /\ new * MaxSpend <= width' * MaxSpend /\ width * MaxSpend <= width' * MaxSpend
       /\ new <= old => new * MaxSpend <= old * MaxSpend
       /\ new * MaxSpend \in Nat /\ old * MaxSpend \in Nat /\ width * MaxSpend \in Nat
       /\ width' * MaxSpend \in Nat
  <2> DEFINE wider == width'
  <2>1. wider \in Nat /\ new <= wider /\ width <= wider
    BY <1>13
  <2> HIDE DEF wider
  <2>2. /\ new * MaxSpend <= wider * MaxSpend /\ width * MaxSpend <= wider * MaxSpend
        /\ new <= old => new * MaxSpend <= old * MaxSpend
        /\ new * MaxSpend \in Nat /\ old * MaxSpend \in Nat /\ width * MaxSpend \in Nat
        /\ wider * MaxSpend \in Nat
    BY <1>7, <1>8, <2>1, LessRoom
  <2> QED
    BY <2>2 DEF wider
<1>15. total + new * MaxSpend <= Budget - 1 + width' * MaxSpend
  <2> DEFINE n == new * MaxSpend
             o == old * MaxSpend
             w == width * MaxSpend
             v == width' * MaxSpend
  <2>1. /\ n \in Nat /\ o \in Nat /\ w \in Nat /\ v \in Nat /\ n <= v /\ w <= v
        /\ new <= old => n <= o
        /\ total + o <= Budget - 1 + w
    BY <1>9, <1>14
  <2> HIDE DEF n, o, w, v
  <2>2. total + n <= Budget - 1 + v
    BY <1>7, <1>11, <1>12, <2>1
  <2> QED
    BY <2>2 DEF n, v
<1>16. \A b \in window' : asks'[b].stage = "done"
  BY <1>1, <1>5 DEF BudgetInv
<1> QED
  BY <1>1, <1>6, <1>13, <1>15, <1>16 DEF BudgetInv, old, new, total, MaxSpend, Attempts

\* A request that commits is under way no more, and has spent no more than it could.
LEMMA CommitSpends ==
    ASSUME TypeInv, TypeInv', BudgetInv, NEW a \in Asks, FinishAsk(a), ~asks[a].broken,
           asks[a].spent <= MaxSpend
    PROVE  BudgetInv'
<1>1. /\ asks[a].stage = "finish" /\ window' = window \cup {a} /\ width' = width
      /\ \A b \in Asks : b # a => asks'[b] = asks[b]
  BY DEF FinishAsk, TypeInv
<1>2. asks'[a].stage = "done" /\ asks'[a].spent = asks[a].spent
  <2> DEFINE row == IF asks[a].row = "failed" THEN "failed" ELSE "succeeded"
             r == [NewAsk EXCEPT !.stage = "done", !.spent = asks[a].spent, !.row = row]
  <2>1. asks' = [asks EXCEPT ![a] = r]
    BY DEF FinishAsk
  <2> HIDE DEF row
  <2>2. r.stage = "done" /\ r.spent = asks[a].spent
    BY NewAskFacts DEF AskRecords
  <2> HIDE DEF r
  <2> QED
    BY <2>1, <2>2 DEF TypeInv
<1>3. "finish" # "done" /\ "finish" \in UnderWay /\ "done" \notin UnderWay
  BY DEF UnderWay, Graph, Pipeline
<1>4. a \notin window /\ window \subseteq Asks /\ (window \cup {a}) \ {a} = window
  BY <1>1, <1>3 DEF BudgetInv, TypeInv
<1>5. \A b \in window : asks'[b] = asks[b]
  BY <1>1, <1>4
<1>6. Total(asks', window) = Total(asks, window)
  BY <1>5, BudgetNumbers, SameTotal
<1>7. asks[a].spent \in Nat /\ \A b \in Asks : asks'[b].spent \in Nat
  BY DEF TypeInv, AskRecords
<1>8. Total(asks', window \cup {a}) = asks[a].spent + Total(asks, window)
  <2>1. IsFiniteSet(window \cup {a})
    BY BudgetNumbers, FS_AddElement
  <2>2. \A b \in window \cup {a} : asks'[b].spent \in Nat
    BY <1>4, <1>7
  <2>3. Total(asks', window \cup {a}) = asks'[a].spent + Total(asks', (window \cup {a}) \ {a})
    BY <2>1, <2>2, TotalFacts
  <2> QED
    BY <1>2, <1>4, <1>6, <2>3
<1>9. InFlight(asks') = InFlight(asks) \ {a} /\ a \in InFlight(asks)
  BY <1>1, <1>2, <1>3 DEF InFlight
<1> DEFINE old == Cardinality(InFlight(asks))
           new == Cardinality(InFlight(asks'))
           total == Total(asks, window)
           spent == asks[a].spent
<1>10. new = old - 1 /\ new \in Nat
  BY <1>9, BudgetNumbers, FS_RemoveElement, FS_CardinalityType
<1>11. old \in Nat /\ total \in Nat /\ MaxSpend \in Nat /\ width \in Nat /\ Budget \in Nat /\ spent \in Nat
       /\ spent <= MaxSpend
  BY <1>7, BudgetNumbers
<1>12. old <= width /\ total + old * MaxSpend <= Budget - 1 + width * MaxSpend
  BY DEF BudgetInv
<1> HIDE DEF old, new, total, spent
<1>13. old = new + 1 /\ old * MaxSpend = new * MaxSpend + MaxSpend /\ new * MaxSpend \in Nat
       /\ width * MaxSpend \in Nat
  BY <1>10, <1>11, LessRoom
<1>14. (spent + total) + new * MaxSpend <= Budget - 1 + width * MaxSpend
  BY <1>11, <1>12, <1>13
<1>15. new <= width
  BY <1>10, <1>11, <1>12
<1>16. \A b \in window' : asks'[b].stage = "done"
  BY <1>1, <1>2, <1>5 DEF BudgetInv
<1> QED
  BY <1>1, <1>8, <1>14, <1>15, <1>16 DEF BudgetInv, old, new, total, spent, MaxSpend, Attempts

\* A row that leaves the day takes its tokens with it.
LEMMA ExpirySpends ==
    ASSUME TypeInv, BudgetInv, NEW a \in Asks, Expire(a)
    PROVE  BudgetInv'
<1>1. a \in window /\ window' = window \ {a} /\ UNCHANGED <<asks, width>>
  BY DEF Expire
<1>2. /\ Total(asks, window) = asks[a].spent + Total(asks, window \ {a})
      /\ asks[a].spent \in Nat /\ Total(asks, window \ {a}) \in Nat
      /\ MaxSpend \in Nat /\ width \in Nat /\ Budget \in Nat /\ Cardinality(InFlight(asks)) \in Nat
  BY <1>1, BudgetNumbers
<1> DEFINE old == Cardinality(InFlight(asks)) * MaxSpend
           full == width * MaxSpend
           spent == asks[a].spent
           total == Total(asks, window)
           rest == Total(asks, window \ {a})
<1>3. old \in Nat /\ full \in Nat
  BY <1>2, LessRoom
<1>4. total + old <= Budget - 1 + full /\ total = spent + rest /\ spent \in Nat /\ rest \in Nat
  BY <1>2 DEF BudgetInv
<1> HIDE DEF old, full, spent, total, rest
<1>5. rest + old <= Budget - 1 + full
  BY <1>2, <1>3, <1>4
<1>6. \A b \in window' : asks'[b].stage = "done"
  BY <1>1 DEF BudgetInv
<1>7. Cardinality(InFlight(asks)) <= width
  BY DEF BudgetInv
<1> QED
  BY <1>1, <1>5, <1>6, <1>7 DEF BudgetInv, old, full, rest, MaxSpend, Attempts

\* A request goes on, or is rolled back, without being committed.
GoesOn(a) ==
    /\ asks[a].stage # "done"
    /\ asks[a].stage \notin UnderWay => asks'[a].stage \notin UnderWay
    /\ \A b \in Asks : b # a => asks'[b] = asks[b]
    /\ UNCHANGED <<window, width>>

\* A step that changes the record of a request under way is of that kind.
LEMMA BecomingGoesOn ==
    ASSUME TypeInv, NEW a \in Asks, asks[a].stage \in UnderWay, NEW r, Becomes(a, r)
    PROVE  GoesOn(a)
<1>1. asks[a].stage # "done"
  BY DEF UnderWay, Graph, Pipeline
<1> QED
  BY <1>1 DEF Becomes, GoesOn, TypeInv

\* The stages at which something is done are those of a request under way.
LEMMA AtStage ==
    /\ UnderWay = {"rewrite", "search", "answer", "evidence", "hypotheses", "critique", "revision",
                   "critique_revision", "attach", "timeline", "root_cause", "action_items", "finish"}
    /\ Pipeline \subseteq UnderWay /\ Graph \subseteq UnderWay
    /\ \A stage \in UnderWay : stage # "done"
BY DEF UnderWay, Graph, Pipeline

\* Every step between the beginning and the commit.
LEMMA StagesGoOn ==
    ASSUME TypeInv, NEW a \in Asks,
           \/ Rewrite(a) \/ NoSuchIncident(a) \/ Search(a) \/ Answer(a)
           \/ Evidence(a) \/ Hypotheses(a)
           \/ Critique(a) \/ CritiqueFails(a) \/ Revision(a) \/ CritiqueRevision(a)
           \/ Attach(a) \/ PostmortemStep(a) \/ PostmortemFails(a)
           \/ UnexpectedError(a) \/ Cancelled(a)
    PROVE  GoesOn(a)
<1> SUFFICES asks[a].stage \in UnderWay /\ \E r : Becomes(a, r)
  BY BecomingGoesOn
<1>1. CASE Rewrite(a)
  BY <1>1, AtStage DEF Rewrite
<1>2. CASE NoSuchIncident(a)
  BY <1>2, AtStage DEF NoSuchIncident
<1>3. CASE Search(a)
  BY <1>3, AtStage DEF Search
<1>4. CASE Answer(a)
  BY <1>4, AtStage DEF Answer
<1>5. CASE Evidence(a)
  BY <1>5, AtStage DEF Evidence
<1>6. CASE Hypotheses(a)
  BY <1>6, AtStage DEF Hypotheses
<1>7. CASE Critique(a)
  BY <1>7, AtStage DEF Critique
<1>8. CASE CritiqueFails(a)
  BY <1>8, AtStage DEF CritiqueFails
<1>9. CASE Revision(a)
  BY <1>9, AtStage DEF Revision
<1>10. CASE CritiqueRevision(a)
  BY <1>10, AtStage DEF CritiqueRevision
<1>11. CASE Attach(a)
  BY <1>11, AtStage DEF Attach
<1>12. CASE PostmortemStep(a)
  BY <1>12, AtStage DEF PostmortemStep
<1>13. CASE PostmortemFails(a)
  BY <1>13, AtStage DEF PostmortemFails
<1>14. CASE UnexpectedError(a)
  BY <1>14, AtStage DEF UnexpectedError
<1>15. CASE Cancelled(a)
  BY <1>15, AtStage DEF Cancelled
<1> QED
  BY <1>1, <1>2, <1>3, <1>4, <1>5, <1>6, <1>7, <1>8, <1>9, <1>10, <1>11, <1>12, <1>13, <1>14, <1>15

\* No step passes the bound.
LEMMA BudgetStep == IndInv /\ BudgetInv /\ [AskNext]_askVars => BudgetInv'
<1> SUFFICES ASSUME IndInv, BudgetInv, [AskNext]_askVars
             PROVE  BudgetInv'
  OBVIOUS
<1>1. TypeInv /\ TypeInv'
  BY Step DEF IndInv
<1>2. CASE UNCHANGED askVars
  BY <1>2 DEF askVars, BudgetInv, MaxSpend, Attempts
<1>3. CASE AskNext
  <2>1. PICK a \in Asks :
        \/ \E sort \in AskKinds, incident \in BOOLEAN :
                BeginAsk(a, sort, incident) \/ BeginAskFails(a, sort, incident)
        \/ Rewrite(a) \/ NoSuchIncident(a) \/ Search(a) \/ Answer(a)
        \/ Evidence(a) \/ Hypotheses(a)
        \/ Critique(a) \/ CritiqueFails(a) \/ Revision(a) \/ CritiqueRevision(a)
        \/ Attach(a)
        \/ PostmortemStep(a) \/ PostmortemFails(a)
        \/ UnexpectedError(a) \/ FinishAsk(a) \/ Cancelled(a)
        \/ Expire(a)
      BY <1>3 DEF AskNext
  <2>2. ASSUME NEW sort \in AskKinds, NEW incident \in BOOLEAN, BeginAsk(a, sort, incident)
        PROVE  BudgetInv'
    BY <1>1, <2>2, BeginSpends
  <2>3. ASSUME NEW sort \in AskKinds, NEW incident \in BOOLEAN, BeginAskFails(a, sort, incident)
        PROVE  BudgetInv'
    <3> DEFINE r == [asks[a] EXCEPT !.kind = sort, !.incident = incident]
    <3>1. asks[a].stage = "new" /\ Becomes(a, Raised(r))
      BY <2>3 DEF BeginAskFails, ComesIn
    <3>2. Raised(r).stage = "lost"
      <4> HIDE DEF r
      <4> QED
        BY NewAskFacts DEF Raised, AskRecords
    <3> HIDE DEF r
    <3>3. "new" # "done" /\ "lost" \notin UnderWay
      BY AtStage
    <3>4. GoesOn(a)
      BY <1>1, <3>1, <3>2, <3>3 DEF GoesOn, Becomes, TypeInv
    <3> QED
      BY <1>1, <3>4, GoingOnSpends DEF GoesOn
  <2>4. ASSUME GoesOn(a)
        PROVE  BudgetInv'
    BY <1>1, <2>4, GoingOnSpends DEF GoesOn
  <2>5. CASE FinishAsk(a)
    <3>1. CASE asks[a].broken
      <4>1. asks[a].stage \in UnderWay /\ Becomes(a, Raised(asks[a]))
        BY <2>5, <3>1, AtStage DEF FinishAsk
      <4> QED
        BY <1>1, <2>4, <4>1, BecomingGoesOn
    <3>2. CASE ~asks[a].broken
      BY <1>1, <2>5, <3>2, SpendsNoMore, CommitSpends
    <3> QED
      BY <3>1, <3>2
  <2>6. CASE Expire(a)
    BY <1>1, <2>6, ExpirySpends
  <2> QED
    BY <1>1, <2>1, <2>2, <2>3, <2>4, <2>5, <2>6, StagesGoOn
<1> QED
  BY <1>2, <1>3

\* The budget of a day is overrun by no more than the calls that were under way
\* together can spend, five each with their retries: check_cost_budget reads the
\* committed rows before a request begins, and nothing holds back those already let in.
THEOREM BudgetAlwaysHolds == AskSpec => []BudgetHolds
<1>1. AskInit => BudgetInv
  <2> SUFFICES ASSUME AskInit
               PROVE  BudgetInv
    OBVIOUS
  <2>1. TypeInv
    BY Initially DEF IndInv
  <2>2. InFlight(asks) = {}
    BY NewAskFacts, AtStage DEF AskInit, InFlight
  <2>3. Total(asks, {}) = 0
    <3>1. IsFiniteSet({}) /\ \A a \in {} : asks[a].spent \in Nat
      BY FS_EmptySet
    <3> QED
      BY <3>1, TotalFacts
  <2>4. window = {} /\ width = 0 /\ Cardinality({}) = 0
    BY FS_EmptySet DEF AskInit
  <2>5. MaxSpend \in Nat /\ Budget \in Nat \ {0} /\ 0 * MaxSpend = 0
    BY <2>1, BudgetNumbers
  <2>6. 0 + 0 <= Budget - 1 + 0
    BY <2>5
  <2> QED
    BY <2>2, <2>3, <2>4, <2>5, <2>6 DEF BudgetInv
<1>2. AskSpec => []BudgetInv
  BY <1>1, BudgetStep, AsksInvariant, PTL DEF AskSpec
<1>3. IndInv /\ BudgetInv => BudgetHolds
  <2> SUFFICES ASSUME IndInv, BudgetInv
               PROVE  Recorded <= Budget - 1 + width * MaxSpend
    BY SpendsNoMore DEF BudgetHolds
  <2>1. Recorded = Total(asks, window)
    BY DEF Recorded, Total
  <2> DEFINE n == Cardinality(InFlight(asks)) * MaxSpend
             w == width * MaxSpend
             total == Total(asks, window)
  <2>2. /\ MaxSpend \in Nat /\ Budget \in Nat /\ width \in Nat /\ total \in Nat
        /\ Cardinality(InFlight(asks)) \in Nat
    BY BudgetNumbers DEF IndInv
  <2>3. n \in Nat /\ w \in Nat
    BY <2>2, LessRoom
  <2>4. total + n <= Budget - 1 + w
    BY DEF BudgetInv
  <2> HIDE DEF n, w, total
  <2>5. total <= Budget - 1 + w
    BY <2>2, <2>3, <2>4
  <2> QED
    BY <2>1, <2>5 DEF w, total
<1> QED
  BY <1>2, <1>3, AsksInvariant, PTL

-----------------------------------------------------------------------------
(* Replies (Grounding): elements kept, confidence, sentences, hypotheses.  *)

\* t has the elements of s at the places, all of them, and no others.
Keeps(t, s, places) ==
    /\ Cardinality(places) \in Nat /\ DOMAIN t = 1..Cardinality(places)
    /\ \A k \in DOMAIN t : \E i \in places : t[k] = s[i]
    /\ \A i \in places : \E k \in DOMAIN t : t[k] = s[i]

\* What Kept keeps.
LEMMA KeptElements ==
    ASSUME NEW s, NEW places \in SUBSET Nat, IsFiniteSet(places)
    PROVE  Keeps(Kept(s, places), s, places)
<1> DEFINE order == {pair \in places \X places : pair[1] < pair[2]}
           Before(i) == Cardinality({j \in places : j < i})
           Place(k) == CHOOSE i \in places : Before(i) = k - 1
           m == Cardinality(places)
<1>1. IsFiniteSet(places) /\ m \in Nat
  BY FS_CardinalityType
<1>2. Orders(order, places)
  BY DEF Orders
<1>3. \A i \in places : RankIn(i, places, order) = Before(i)
  <2> TAKE i \in places
  <2>1. {j \in places : <<j, i>> \in order} = {j \in places : j < i}
    OBVIOUS
  <2> QED
    BY <2>1 DEF RankIn
<1> HIDE DEF order, Before
<1>4. \A i \in places : Before(i) \in Nat /\ Before(i) < m
  BY <1>1, <1>2, <1>3, RanksFollow
<1>5. ASSUME NEW k \in 1..m
      PROVE  Place(k) \in places /\ Before(Place(k)) = k - 1
  <2>1. k - 1 \in Nat /\ k - 1 < m
    BY <1>1
  <2>2. \E i \in places : RankIn(i, places, order) = k - 1
    BY <1>1, <1>2, <2>1, RanksAreFilled
  <2> QED
    BY <1>3, <2>2
<1>6. ASSUME NEW i \in places
      PROVE  Before(i) + 1 \in 1..m /\ Place(Before(i) + 1) = i
  <2>1. Before(i) + 1 \in 1..m /\ (Before(i) + 1) - 1 = Before(i)
    BY <1>1, <1>4
  <2>2. Place(Before(i) + 1) \in places /\ Before(Place(Before(i) + 1)) = Before(i)
    BY <1>5, <2>1
  <2>3. \A a, b \in places : a # b => Before(a) # Before(b)
    BY <1>1, <1>2, <1>3, RanksDiffer
  <2> QED
    BY <2>1, <2>2, <2>3
<1>7. Kept(s, places) = [k \in 1..m |-> s[Place(k)]]
  BY DEF Kept, Before
<1> HIDE DEF Place, m
<1> QED
  BY <1>1, <1>5, <1>6, <1>7 DEF m, Keeps

\* It is a sequence of what the elements are.
LEMMA KeptIsSequence ==
    ASSUME NEW s, NEW places \in SUBSET Nat, IsFiniteSet(places), NEW V,
           \A i \in places : s[i] \in V
    PROVE  Kept(s, places) \in Seq(V)
<1> DEFINE m == Cardinality(places)
           t == Kept(s, places)
<1>1. Keeps(t, s, places)
  BY KeptElements
<1>2. m \in Nat /\ DOMAIN t = 1..m /\ \A k \in DOMAIN t : \E i \in places : t[k] = s[i]
  BY <1>1 DEF Keeps
<1>3. t = [k \in 1..m |-> t[k]]
  <2>1. t = [k \in DOMAIN t |-> t[k]]
    BY DEF Kept
  <2> QED
    BY <1>2, <2>1
<1> HIDE DEF t, m
<1>4. t \in [1..m -> V]
  BY <1>2, <1>3
<1> QED
  BY <1>2, <1>4, SeqDef DEF t

-----------------------------------------------------------------------------
\* Without passages the confidence is too low for an answer, whatever past incidents say.
LEMMA DoubtBegins == Doubt[0] = 1000
<1> DEFINE shrinks == [x \in Int |-> (x * 3) \div 10]
<1>1. shrinks \in [Int -> Int]
  OBVIOUS
<1>2. PICK f : RecursForever(f, Int, 1000, shrinks)
  <2> HIDE DEF shrinks
  <2>1. 1000 \in Int
    OBVIOUS
  <2> QED
    BY <1>1, <2>1, RecursionForever
<1>3. f = [n \in Nat |-> IF n = 0 THEN 1000 ELSE (f[n - 1] * 3) \div 10]
  <2>1. f \in [Nat -> Int] /\ f[0] = 1000
    BY <1>2 DEF RecursForever
  <2>2. ASSUME NEW n \in Nat
        PROVE  f[n] = IF n = 0 THEN 1000 ELSE (f[n - 1] * 3) \div 10
    <3>1. CASE n = 0
      BY <2>1, <3>1
    <3>2. CASE n # 0
      <4>1. n - 1 \in Nat /\ (n - 1) + 1 = n
        BY <3>2
      <4>2. f[(n - 1) + 1] = shrinks[f[n - 1]]
        BY <1>2, <4>1 DEF RecursForever
      <4>3. f[n - 1] \in Int
        BY <2>1, <4>1
      <4> QED
        BY <3>2, <4>1, <4>2, <4>3
    <3> QED
      BY <3>1, <3>2
  <2> QED
    BY <2>1, <2>2
<1>4. Doubt = [n \in Nat |-> IF n = 0 THEN 1000 ELSE (Doubt[n - 1] * 3) \div 10]
  BY <1>3 DEF Doubt
<1> QED
  BY <1>4

\* A number that is cut off at both ends lies between them.
LEMMA BetweenHolds ==
    ASSUME NEW low \in Int, NEW x \in Int, NEW high \in Int, low <= high
    PROVE  Between(low, x, high) \in Int /\ low <= Between(low, x, high) /\ Between(low, x, high) <= high
BY DEF Between

\* evaluate_confidence without chunks: the historical match alone does not make an answer.
LEMMA NothingIsInvestigated ==
    ASSUME NEW s, s.top = 0, s.incident \in BOOLEAN, s.historical \in Cosines \cup {NoMatch}
    PROVE  RouteOf(s, <<>>) = "investigation"
<1>1. Threshold \in Int /\ Threshold >= 101 /\ Cosines \subseteq Int
  BY GroundingConstants DEF GroundingConstants
<1>2. SourceCount(<<>>) = 0
  <2> DEFINE documents == {DocumentOf[c] : c \in ToSet(<<>>)}
  <2>1. documents = {}
    <3>1. DOMAIN <<>> = {}
      BY EmptySeq
    <3> QED
      BY <3>1 DEF ToSet
  <2>2. Cardinality({}) = 0
    BY FS_EmptySet
  <2>3. SourceCount(<<>>) = 1000 - Doubt[Cardinality(documents)]
    BY DEF SourceCount
  <2> HIDE DEF documents
  <2>4. SourceCount(<<>>) = 1000 - Doubt[0]
    BY <2>1, <2>2, <2>3
  <2> QED
    BY <2>4, DoubtBegins
<1>3. Normalized(0) = 0
  <2>1. ((0 - 35) * 1000) \div 30 < 0
    OBVIOUS
  <2> QED
    BY <2>1 DEF Normalized, Between
<1>4. CASE Counts(s)
  <2>1. s.historical \in Int
    BY <1>1, <1>4 DEF Counts
  <2> DEFINE past == Normalized(s.historical)
             raised == ((s.historical - 35) * 1000) \div 30
  <2>2. raised \in Int
    BY <2>1
  <2>3. past \in Int /\ past <= 1000
    <3> HIDE DEF raised
    <3>1. past = Between(0, raised, 1000)
      BY DEF Normalized, raised
    <3> HIDE DEF past
    <3> QED
      BY <2>2, <3>1, BetweenHolds
  <2>4. Weighted(s, <<>>) = 10 * past /\ TotalWeight(s) = 100
    <3>1. Weighted(s, <<>>) = 40 * Normalized(0) + 35 * 0 + 15 * SourceCount(<<>>) + 10 * past
      BY <1>4 DEF Weighted
    <3> HIDE DEF past
    <3>2. TotalWeight(s) = 100
      BY <1>4 DEF TotalWeight
    <3> QED
      BY <1>2, <1>3, <2>3, <3>1, <3>2
  <2> HIDE DEF past
  <2>5. ~(10 * past >= Threshold * 100)
    BY <1>1, <2>3
  <2> QED
    BY <2>4, <2>5 DEF RouteOf
<1>5. CASE ~Counts(s)
  <2>1. Weighted(s, <<>>) = 40 * Normalized(0) + 35 * 0 + 15 * SourceCount(<<>>) + 0
    BY <1>5 DEF Weighted
  <2>2. Weighted(s, <<>>) = 0 /\ TotalWeight(s) = 90
    BY <1>2, <1>3, <1>5, <2>1 DEF TotalWeight
  <2>3. ~(0 >= Threshold * 90)
    BY <1>1
  <2> QED
    BY <2>2, <2>3 DEF RouteOf
<1> QED
  BY <1>4, <1>5

-----------------------------------------------------------------------------
\* The sentences of a text, and the pieces it is split into.
Pieces == [claim: Claims \cup {NoClaim}, markers: SUBSET Markers]

\* A text has one sentence at least.
LEMMA ProsesAreSentences ==
    ASSUME NEW text \in Proses
    PROVE  /\ Len(text) \in Nat /\ Len(text) # 0 /\ DOMAIN text = 1..Len(text)
           /\ \A i \in 1..Len(text) : text[i] \in Sentences
<1>1. CASE \E s \in Sentences : text = <<s>>
  BY <1>1
<1>2. CASE \E s, t \in Sentences : text = <<s, t>>
  BY <1>2
<1> QED
  BY <1>1, <1>2 DEF Proses

\* What it is split into; with the markers where they were asked for, its sentences.
LEMMA SplitIsPieces ==
    ASSUME NEW text \in Proses
    PROVE  /\ SplitSentences(text) \in Seq(Pieces)
           /\ (\A i \in DOMAIN text : text[i].after = 0) =>
                /\ DOMAIN SplitSentences(text) = DOMAIN text
                /\ \A i \in DOMAIN text : /\ SplitSentences(text)[i].claim = text[i].claim
                                          /\ SplitSentences(text)[i].markers = Cited({text[i].inside})
<1> DEFINE n == Len(text)
           marks(i) == Cited({text[i].inside} \cup (IF i = 1 THEN {} ELSE {text[i - 1].after}))
           piece(i) == [claim |-> text[i].claim, markers |-> marks(i)]
           front == [i \in 1..n |-> piece(i)]
           back == IF n = 0 \/ text[n].after = 0 THEN <<>>
                   ELSE <<[claim |-> NoClaim, markers |-> {text[n].after}]>>
<1>1. n \in Nat /\ n # 0 /\ DOMAIN text = 1..n /\ \A i \in 1..n : text[i] \in Sentences
  BY ProsesAreSentences
<1>2. \A i \in 1..n : text[i].claim \in Claims /\ text[i].inside \in Markers /\ text[i].after \in Markers
  BY <1>1 DEF Sentences
<1>3. SplitSentences(text) = front \o back
  BY DEF SplitSentences
<1>4. ASSUME NEW i \in 1..n
      PROVE  marks(i) \in SUBSET Markers
  <2>1. i # 1 => i - 1 \in 1..n
    BY <1>1
  <2> QED
    BY <1>2, <2>1 DEF Cited
<1>5. \A i \in 1..n : piece(i) \in Pieces
  <2> HIDE DEF marks
  <2> QED
    BY <1>2, <1>4 DEF Pieces
<1>6. front \in Seq(Pieces) /\ DOMAIN front = 1..n /\ \A i \in 1..n : front[i] = piece(i)
  <2>1. front \in [1..n -> Pieces]
    <3> HIDE DEF piece
    <3> QED
      BY <1>5
  <2> HIDE DEF piece, n
  <2> QED
    BY <1>1, <2>1, SeqDef
<1>7. back \in Seq(Pieces)
  <2>1. CASE n = 0 \/ text[n].after = 0
    BY <2>1, EmptySeq
  <2>2. CASE ~(n = 0 \/ text[n].after = 0)
    <3> DEFINE last == [claim |-> NoClaim, markers |-> {text[n].after}]
    <3>1. n \in 1..n
      BY <1>1
    <3>2. last \in Pieces
      BY <1>2, <3>1 DEF Pieces
    <3> HIDE DEF last
    <3>3. <<last>> \in Seq(Pieces)
      BY <3>2
    <3> QED
      BY <2>2, <3>3 DEF last
  <2> QED
    BY <2>1, <2>2
<1> HIDE DEF front, back
<1>8. SplitSentences(text) \in Seq(Pieces)
  BY <1>3, <1>6, <1>7, ConcatProperties
<1>9. ASSUME \A i \in DOMAIN text : text[i].after = 0
      PROVE  /\ DOMAIN SplitSentences(text) = DOMAIN text
             /\ \A i \in DOMAIN text : /\ SplitSentences(text)[i].claim = text[i].claim
                                       /\ SplitSentences(text)[i].markers = Cited({text[i].inside})
  <2>1. n \in 1..n
    BY <1>1
  <2>2. back = <<>>
    BY <1>1, <1>9, <2>1 DEF back
  <2>3. SplitSentences(text) = front
    BY <1>3, <1>6, <2>2, ConcatEmptySeq
  <2>4. ASSUME NEW i \in 1..n
        PROVE  marks(i) = Cited({text[i].inside})
    <3>1. i # 1 => i - 1 \in 1..n
      BY <1>1
    <3> QED
      BY <1>1, <1>9, <3>1 DEF Cited
  <2>5. \A i \in 1..n : front[i].claim = text[i].claim /\ front[i].markers = marks(i)
    <3> HIDE DEF marks
    <3> QED
      BY <1>6
  <2> HIDE DEF marks
  <2> QED
    BY <1>1, <1>6, <2>3, <2>4, <2>5
<1> QED
  BY <1>8, <1>9

\* What stays of a text, and the passages it cites.
StaysOf(text, passages, confirmed) ==
    LET pieces == SplitSentences(text) IN
    Kept(pieces, {i \in DOMAIN pieces : Grounded(pieces[i], passages, confirmed)})

RestsOn(kept, text, passages) ==
    /\ \A p \in DOMAIN kept : \E c \in ToSet(passages) :
         kept[p].claim # NoClaim /\ Support[<<kept[p].claim, c>>] # "low"
    /\ CitationsOf(kept, passages) \subseteq ToSet(passages)
    /\ (\A i \in DOMAIN text : text[i].after = 0) =>
         \A c : c \in CitationsOf(kept, passages) <=>
             \E i \in DOMAIN text : \E p \in DOMAIN kept :
                /\ text[i].claim = kept[p].claim
                /\ text[i].inside \in DOMAIN passages /\ passages[text[i].inside] = c

LEMMA GroundedAnswersRest ==
    ASSUME NEW text \in Proses, NEW passages, NEW confirmed, 0 \notin DOMAIN passages,
           NEW kept, kept = StaysOf(text, passages, confirmed)
    PROVE  RestsOn(kept, text, passages)
<1> DEFINE pieces == SplitSentences(text)
           places == {i \in DOMAIN pieces : Grounded(pieces[i], passages, confirmed)}
<1>1. pieces \in Seq(Pieces)
  BY SplitIsPieces
<1>2. Len(pieces) \in Nat /\ DOMAIN pieces = 1..Len(pieces)
  <2> HIDE DEF pieces
  <2> QED
    BY <1>1, LenProperties
<1>3. /\ \A p \in DOMAIN kept : \E i \in places : kept[p] = pieces[i]
      /\ \A i \in places : \E p \in DOMAIN kept : kept[p] = pieces[i]
  <2>1. places \in SUBSET Nat /\ IsFiniteSet(places)
    <3>1. places \subseteq 1..Len(pieces) /\ Len(pieces) \in Nat
      BY <1>2
    <3>2. IsFiniteSet(1..Len(pieces))
      BY <3>1, FS_Interval
    <3> HIDE DEF places, pieces
    <3>3. IsFiniteSet(places)
      BY <3>1, <3>2, FS_Subset
    <3> QED
      BY <3>1, <3>3
  <2>2. kept = Kept(pieces, places)
    BY DEF StaysOf
  <2> HIDE DEF places, pieces
  <2>3. Keeps(kept, pieces, places)
    BY <2>1, <2>2, KeptElements
  <2> QED
    BY <2>3 DEF Keeps
<1>4. ASSUME NEW p \in DOMAIN kept
      PROVE  \E c \in ToSet(passages) : kept[p].claim # NoClaim /\ Support[<<kept[p].claim, c>>] # "low"
  <2>1. PICK i \in places : kept[p] = pieces[i]
    BY <1>3
  <2>2. Grounded(kept[p], passages, confirmed)
    BY <2>1
  <2>3. PICK k \in DOMAIN passages : Support[<<kept[p].claim, passages[k]>>] \in {"high", "middle"}
    BY <2>2 DEF Grounded
  <2> QED
    BY <2>2, <2>3 DEF Grounded, ToSet
<1>5. CitationsOf(kept, passages) \subseteq ToSet(passages)
  BY DEF CitationsOf, ToSet
<1>6. ASSUME \A i \in DOMAIN text : text[i].after = 0, NEW c
      PROVE  c \in CitationsOf(kept, passages) <=>
                \E i \in DOMAIN text : \E p \in DOMAIN kept :
                    /\ text[i].claim = kept[p].claim
                    /\ text[i].inside \in DOMAIN passages /\ passages[text[i].inside] = c
  <2>1. /\ DOMAIN pieces = DOMAIN text
        /\ \A i \in DOMAIN text : /\ pieces[i].claim = text[i].claim
                                  /\ pieces[i].markers = Cited({text[i].inside})
    BY <1>6, SplitIsPieces
  <2>2. ASSUME c \in CitationsOf(kept, passages)
        PROVE  \E i \in DOMAIN text : \E p \in DOMAIN kept :
                 /\ text[i].claim = kept[p].claim
                 /\ text[i].inside \in DOMAIN passages /\ passages[text[i].inside] = c
    <3>1. PICK p \in DOMAIN kept, k \in DOMAIN passages : k \in kept[p].markers /\ passages[k] = c
      BY <2>2 DEF CitationsOf
    <3>2. PICK i \in places : kept[p] = pieces[i]
      BY <1>3
    <3>3. i \in DOMAIN text /\ kept[p].claim = text[i].claim /\ k \in Cited({text[i].inside})
      BY <2>1, <3>1, <3>2
    <3>4. k = text[i].inside
      BY <3>3 DEF Cited
    <3> QED
      BY <3>1, <3>3, <3>4
  <2>3. ASSUME NEW i \in DOMAIN text, NEW p \in DOMAIN kept, text[i].claim = kept[p].claim,
               text[i].inside \in DOMAIN passages, passages[text[i].inside] = c, text[i].inside # 0
        PROVE  c \in CitationsOf(kept, passages)
    <3>1. PICK j \in places : kept[p] = pieces[j]
      BY <1>3
    <3>2. Grounded(pieces[i], passages, confirmed)
      <4>1. Grounded(pieces[j], passages, confirmed) /\ pieces[j].claim = pieces[i].claim
        BY <2>1, <2>3, <3>1
      <4> QED
        BY <4>1 DEF Grounded
    <3>3. i \in places
      BY <2>1, <3>2
    <3>4. PICK q \in DOMAIN kept : kept[q] = pieces[i]
      BY <1>3, <3>3
    <3>5. text[i].inside \in kept[q].markers
      BY <2>1, <2>3, <3>4 DEF Cited
    <3> QED
      BY <2>3, <3>5 DEF CitationsOf
  <2>4. ASSUME NEW i \in DOMAIN text, text[i].inside \in DOMAIN passages
        PROVE  text[i].inside # 0
    BY <2>4
  <2> QED
    BY <2>2, <2>3, <2>4
<1> QED
  BY <1>4, <1>5, <1>6 DEF RestsOn

-----------------------------------------------------------------------------
\* A hypothesis as it may be reviewed: it cites what was found, and something.
Cites(found) == Seq(found) \ {<<>>}
Backed(found) == [confidence: 0..10, cites: Cites(found)]

\* A hypothesis whose citations have been checked.
LEMMA CheckedCites ==
    ASSUME NEW found \in SUBSET References, NEW h \in Raw
    PROVE  /\ Checked(h, found).confidence \in 0..10
           /\ Checked(h, found).cites \in Seq(found)
<1> DEFINE places == {j \in DOMAIN h.cites : h.cites[j] \in found}
<1>1. h.confidence \in Stated /\ h.cites \in UNION {[1..n -> References \cup {Invented}] : n \in 0..2}
  BY DEF Raw
<1>2. PICK n \in 0..2 : h.cites \in [1..n -> References \cup {Invented}]
  BY <1>1
<1>3. places \subseteq 1..n /\ n \in Nat
  BY <1>2
<1>4. places \in SUBSET Nat /\ IsFiniteSet(places)
  <2>1. IsFiniteSet(1..n) /\ 1..n \subseteq Nat
    BY <1>3, FS_Interval
  <2> HIDE DEF places
  <2>2. IsFiniteSet(places)
    BY <1>3, <2>1, FS_Subset
  <2> QED
    BY <1>3, <2>1, <2>2
<1>5. \A j \in places : h.cites[j] \in found
  OBVIOUS
<1>6. Checked(h, found) = [confidence |-> Between(0, h.confidence, 10), cites |-> Kept(h.cites, places)]
  BY DEF Checked
<1> HIDE DEF places
<1>7. Kept(h.cites, places) \in Seq(found)
  BY <1>4, <1>5, KeptIsSequence
<1>8. Between(0, h.confidence, 10) \in 0..10
  <2>1. Stated \subseteq Int
    BY GroundingConstants DEF GroundingConstants
  <2>2. h.confidence \in Stated
    BY <1>1
  <2>3. h.confidence \in Int
    BY <2>1, <2>2
  <2> QED
    BY <2>3 DEF Between
<1> QED
  BY <1>6, <1>7, <1>8

\* What a model proposes, once its citations are checked against what was found.
LEMMA ProposalsRest ==
    ASSUME NEW found \in SUBSET References, NEW hypotheses \in Proposals[found]
    PROVE  hypotheses \in Seq(Backed(found))
<1>1. PICK proposal \in RawDrafts : hypotheses = Validated(proposal, found)
  <2>1. Proposals[found] = {Validated(proposal, found) : proposal \in RawDrafts}
    BY DEF Proposals
  <2> QED
    BY <2>1
<1> DEFINE checked == [i \in DOMAIN proposal |-> Checked(proposal[i], found)]
           places == {i \in DOMAIN checked : checked[i].cites # <<>>}
<1>2. PICK n \in 0..2 : proposal \in [1..n -> Raw]
  BY DEF RawDrafts
<1>3. places \in SUBSET Nat /\ IsFiniteSet(places)
  <2>1. places \subseteq 1..n /\ n \in Nat
    BY <1>2
  <2>2. IsFiniteSet(1..n) /\ 1..n \subseteq Nat
    BY <2>1, FS_Interval
  <2> HIDE DEF places
  <2>3. IsFiniteSet(places)
    BY <2>1, <2>2, FS_Subset
  <2> QED
    BY <2>1, <2>2, <2>3
<1>4. ASSUME NEW i \in places
      PROVE  checked[i] \in Backed(found)
  <2>1. i \in DOMAIN proposal /\ proposal[i] \in Raw /\ checked[i] = Checked(proposal[i], found)
    BY <1>2
  <2>2. Checked(proposal[i], found).cites # <<>>
    BY <2>1
  <2>3. Checked(proposal[i], found) \in [confidence: 0..10, cites: Seq(found)]
    <3>1. /\ Checked(proposal[i], found).confidence \in 0..10
          /\ Checked(proposal[i], found).cites \in Seq(found)
      BY <2>1, CheckedCites
    <3> QED
      BY <3>1 DEF Checked
  <2>4. Checked(proposal[i], found).cites \in Cites(found)
    BY <2>2, <2>3 DEF Cites
  <2>5. Checked(proposal[i], found) \in Backed(found)
    BY <2>3, <2>4 DEF Backed
  <2> QED
    BY <2>1, <2>5
<1>5. hypotheses = Kept(checked, places)
  BY <1>1 DEF Validated
<1> HIDE DEF checked, places
<1> QED
  BY <1>3, <1>4, <1>5, KeptIsSequence

\* Citations without repetition are as many as what they cite.
LEMMA CitedOnce ==
    ASSUME NEW found, NEW h \in Backed(found), CitesOnce(h)
    PROVE  Len(h.cites) \in Nat /\ Cardinality(ToSet(h.cites)) = Len(h.cites)
<1>1. h.cites \in Seq(found)
  BY DEF Backed, Cites
<1> DEFINE n == Len(h.cites)
           cited == ToSet(h.cites)
<1>2. n \in Nat /\ DOMAIN h.cites = 1..n /\ h.cites = [i \in 1..n |-> h.cites[i]]
  BY <1>1, LenProperties
<1>3. h.cites \in Surjection(1..n, cited)
  <2>1. cited = {h.cites[i] : i \in 1..n}
    BY <1>2 DEF ToSet
  <2>2. h.cites \in [1..n -> cited]
    BY <1>2, <2>1
  <2> QED
    BY <2>1, <2>2 DEF Surjection
<1>4. h.cites \in Injection(1..n, cited)
  <2>1. IsInjective(h.cites)
    BY DEF CitesOnce
  <2>2. h.cites \in [1..n -> cited]
    BY <1>3 DEF Surjection
  <2> QED
    BY <2>1, <2>2 DEF Injection
<1>5. IsFiniteSet(1..n) /\ Cardinality(1..n) = n
  BY <1>2, FS_Interval
<1> HIDE DEF n, cited
<1>6. Cardinality(cited) = Cardinality(1..n)
  BY <1>3, <1>4, <1>5, FS_Surjection
<1> QED
  BY <1>2, <1>5, <1>6 DEF n, cited

\* What a review takes away.
LEMMA PenalizedRests ==
    ASSUME NEW found, NEW hypotheses \in Seq(Backed(found)), NEW indices
    PROVE  /\ DOMAIN Penalized(hypotheses, indices) = DOMAIN hypotheses
           /\ \A i \in DOMAIN hypotheses :
                /\ Penalized(hypotheses, indices)[i].cites = hypotheses[i].cites
                /\ Overconfident(hypotheses[i]) \/ i \in indices =>
                     \/ Penalized(hypotheses, indices)[i].confidence < hypotheses[i].confidence
                     \/ Penalized(hypotheses, indices)[i].confidence = 0
<1>1. DOMAIN Penalized(hypotheses, indices) = DOMAIN hypotheses
  BY DEF Penalized
<1> SUFFICES ASSUME NEW i \in DOMAIN hypotheses
             PROVE  /\ Penalized(hypotheses, indices)[i].cites = hypotheses[i].cites
                    /\ Overconfident(hypotheses[i]) \/ i \in indices =>
                         \/ Penalized(hypotheses, indices)[i].confidence < hypotheses[i].confidence
                         \/ Penalized(hypotheses, indices)[i].confidence = 0
  BY <1>1
<1> DEFINE h == hypotheses[i]
           less == Penalty(h, i \in indices)
           left == Between(0, h.confidence - less, 10)
<1>2. h \in Backed(found)
  <2>1. hypotheses \in [1..Len(hypotheses) -> Backed(found)]
    BY LenProperties
  <2> QED
    BY <2>1
<1>3. Penalized(hypotheses, indices)[i] = [h EXCEPT !.confidence = left]
  BY DEF Penalized
<1>4. h.confidence \in 0..10 /\ h = [confidence |-> h.confidence, cites |-> h.cites]
  BY <1>2 DEF Backed
<1>5. Overconfident(h) \/ i \in indices => less \in {2, 3, 5}
  <2> DEFINE doubtful == Overconfident(h)
             named == i \in indices
  <2>1. less = (IF doubtful THEN 2 ELSE 0) + (IF named THEN 3 ELSE 0)
    BY DEF Penalty
  <2> HIDE DEF less, doubtful, named
  <2>2. CASE doubtful /\ named
    BY <2>1, <2>2
  <2>3. CASE doubtful /\ ~named
    BY <2>1, <2>3
  <2>4. CASE ~doubtful /\ named
    BY <2>1, <2>4
  <2> QED
    BY <2>2, <2>3, <2>4 DEF doubtful, named
<1> HIDE DEF less
<1>6. Overconfident(h) \/ i \in indices => left < h.confidence \/ left = 0
  <2> SUFFICES ASSUME less \in {2, 3, 5}
               PROVE  left < h.confidence \/ left = 0
    BY <1>5
  <2> HIDE DEF h
  <2> QED
    BY <1>4 DEF Between
<1>7. Penalized(hypotheses, indices)[i].cites = h.cites /\ Penalized(hypotheses, indices)[i].confidence = left
  <2> HIDE DEF left
  <2> QED
    BY <1>3, <1>4
<1> HIDE DEF left
<1> QED
  BY <1>6, <1>7

-----------------------------------------------------------------------------
(* The invariant: before a reply is there, nothing is said; the context    *)
(* of an answer is not empty, and what is under review was checked.        *)

Contexts == Seq(Passages)
Ways == {"none", "answer", "investigation"}
Seeking == {"retrieve", "evaluate"}
Composing == {"assess", "write", "verify"}
Explaining == {"gather", "hypothesize"}
Judging == {"critique", "revise"}
Replied == {"done"}

PlacesHold ==
    /\ step \in Seeking \cup Composing \cup Explaining \cup Judging \cup Replied
    /\ context \in Contexts /\ route \in Ways
    /\ prose \in Proses \cup {<<>>} /\ tries \in 0..MaxTries
    /\ evidence \in SUBSET References /\ second \in BOOLEAN
    /\ delivered.review \in {"not_reviewed", "reviewed", "review_failed"}

AnswerHolds ==
    /\ step \in Seeking => route = "none"
    /\ step = "evaluate" =>
         /\ context = <<>> => signals.top = 0
         /\ signals.incident \in BOOLEAN /\ signals.historical \in Cosines \cup {NoMatch}
    /\ step \in Seeking \cup Composing => tries < MaxTries
    /\ step \notin Replied => reply = NoReply
    /\ step = "verify" => prose \in Proses
    /\ reply.mode \in {"none", "answered", "no_answer"} /\ reply.citations \subseteq Passages
    /\ AnswersRest

DraftHolds ==
    /\ draft \in Seq(Backed(evidence))
    /\ step \in Seeking \cup Composing \cup Explaining => draft = <<>>
    /\ step \notin Replied => delivered.hypotheses = <<>> /\ delivered.verdict = "none"
    /\ HypothesesRest

ReplyInv == PlacesHold /\ AnswerHolds /\ DraftHolds

LEMMA RepliesBegin == GroundingInit => ReplyInv
<1> SUFFICES ASSUME GroundingInit PROVE ReplyInv
  OBVIOUS
<1>1. PlacesHold
  <2>1. 0 \in 0..MaxTries
    BY GroundingConstants DEF GroundingConstants
  <2>2. <<>> \in Contexts
    BY EmptySeq DEF Contexts
  <2>3. step \in Seeking /\ delivered.review = "not_reviewed" /\ route \in Ways
    BY DEF GroundingInit, Seeking, NothingDelivered, Ways
  <2>4. context = <<>> /\ tries = 0 /\ prose = <<>> /\ evidence = {} /\ second = FALSE
    BY DEF GroundingInit
  <2> QED
    BY <2>1, <2>2, <2>3, <2>4 DEF PlacesHold
<1>2. AnswersRest
  BY DEF GroundingInit, AnswersRest, NoReply
<1>3. AnswerHolds
  <2>1. step = "retrieve" /\ route = "none" /\ reply = NoReply /\ tries = 0
    BY DEF GroundingInit
  <2>2. 0 < MaxTries
    BY GroundingConstants DEF GroundingConstants
  <2>3. reply.mode = "none" /\ reply.citations = {}
    BY <2>1 DEF NoReply
  <2> QED
    BY <1>2, <2>1, <2>2, <2>3 DEF AnswerHolds
<1>4. HypothesesRest
  BY DEF GroundingInit, HypothesesRest
<1>5. DraftHolds
  BY <1>4, EmptySeq DEF GroundingInit, DraftHolds, NothingDelivered
<1> QED
  BY <1>1, <1>3, <1>5 DEF ReplyInv

\* Without an answer there is nothing it could fail to rest on.
LEMMA NoAnswerRests ==
    ASSUME (route = "answer" => context # <<>>)', (reply.mode # "answered" /\ reply.citations = {})'
    PROVE  AnswersRest'
BY DEF AnswersRest

\* The investigation leaves the answer alone.
LEMMA AnswerStays ==
    ASSUME AnswerHolds, UNCHANGED <<context, route, tries, prose, reply>>,
           step' \notin Seeking \cup Composing, step \notin Replied
    PROVE  AnswerHolds'
<1>1. AnswersRest'
  BY DEF AnswerHolds, AnswersRest, MarkedAsAsked
<1>2. step' \notin Seeking /\ step' \notin Composing /\ step' # "evaluate" /\ step' # "verify"
  BY DEF Seeking, Composing
<1> QED
  BY <1>1, <1>2 DEF AnswerHolds

\* The answer leaves the investigation alone.
LEMMA DraftStays ==
    ASSUME DraftHolds, UNCHANGED <<draft, delivered, evidence>>,
           step \in Seeking \cup Composing \cup Explaining
    PROVE  DraftHolds'
<1>1. step \notin Replied /\ draft = <<>>
  BY DEF DraftHolds, Seeking, Composing, Explaining, Replied
<1>2. delivered.hypotheses = <<>> /\ delivered.verdict = "none"
  BY <1>1 DEF DraftHolds
<1>3. HypothesesRest'
  <2>1. DOMAIN <<>> = {}
    BY EmptySeq
  <2>2. delivered'.hypotheses = <<>> /\ delivered'.verdict = "none"
    BY <1>2
  <2> QED
    BY <2>1, <2>2 DEF HypothesesRest
<1> QED
  BY <1>1, <1>2, <1>3 DEF DraftHolds

\* A permutation of some passages is a sequence of them.
LEMMA RetrievedIsSequence ==
    ASSUME NEW found \in SetToAllKPermutations(Passages)
    PROVE  found \in Contexts
<1>1. PICK some \in SUBSET Passages : found \in SetToSeqs(some)
  BY DEF SetToAllKPermutations
<1>2. Cardinality(some) \in Nat
  <2>1. IsFiniteSet(some)
    BY GroundingConstants, FS_Subset DEF GroundingConstants
  <2> QED
    BY <2>1, FS_CardinalityType
<1>3. found \in [1..Cardinality(some) -> some]
  BY <1>1 DEF SetToSeqs
<1>4. found \in [1..Cardinality(some) -> Passages]
  BY <1>3
<1> QED
  BY <1>2, <1>4, SeqDef DEF Contexts

LEMMA RetrieveRests == ASSUME ReplyInv, Retrieve PROVE ReplyInv'
<1>1. PICK found \in SetToAllKPermutations(Passages), top \in Cosines \cup {0}, rerank \in Calibrated,
           incident \in BOOLEAN :
      \E historical \in IF incident THEN Cosines \cup {NoMatch} ELSE {NoMatch} :
         /\ found = <<>> => top = 0
         /\ context' = found
         /\ signals' = [top |-> top, rerank |-> rerank, incident |-> incident,
                        historical |-> historical]
  BY DEF Retrieve
<1>2. PICK historical \in Cosines \cup {NoMatch} :
         /\ found = <<>> => top = 0
         /\ context' = found
         /\ signals' = [top |-> top, rerank |-> rerank, incident |-> incident,
                        historical |-> historical]
  BY <1>1
<1>3. /\ context' = <<>> => signals'.top = 0
      /\ signals'.incident \in BOOLEAN /\ signals'.historical \in Cosines \cup {NoMatch}
  BY <1>2
<1>4. context' \in Contexts
  BY <1>2, RetrievedIsSequence
<1>5. /\ step = "retrieve" /\ step' = "evaluate"
      /\ UNCHANGED <<route, tries, prose, reply, evidence, draft, second, delivered>>
  BY DEF Retrieve
<1>6. step \in Seeking /\ step' \in Seeking /\ step' \notin Composing /\ step' \notin Replied
      /\ step' # "verify" /\ step \notin Replied
  BY <1>5 DEF Seeking, Composing, Replied
<1>7. PlacesHold'
  BY <1>4, <1>5, <1>6 DEF ReplyInv, PlacesHold
<1>8. route' = "none" /\ reply' = NoReply
  BY <1>5, <1>6 DEF ReplyInv, AnswerHolds
<1>9. AnswersRest'
  <2>1. reply'.mode # "answered" /\ reply'.citations = {}
    BY <1>8 DEF NoReply
  <2> QED
    BY <1>8, <2>1, NoAnswerRests
<1>10. AnswerHolds'
  BY <1>3, <1>5, <1>6, <1>8, <1>9 DEF ReplyInv, AnswerHolds
<1>11. DraftHolds'
  BY <1>5, <1>6, DraftStays DEF ReplyInv
<1> QED
  BY <1>7, <1>10, <1>11 DEF ReplyInv

LEMMA EvaluateRests == ASSUME ReplyInv, Evaluate PROVE ReplyInv'
<1>1. /\ step = "evaluate" /\ route' = RouteOf(signals, context)
      /\ step' = IF route' = "answer" THEN "assess" ELSE "gather"
      /\ context' = IF route' = "answer" THEN context ELSE <<>>
      /\ UNCHANGED <<tries, prose, reply, evidence, draft, second, delivered>>
  BY DEF Evaluate
<1>2. step \in Seeking /\ step \notin Replied /\ step' \notin Seeking /\ step' \notin Replied
      /\ step' # "verify" /\ step' # "evaluate" /\ step' \in Composing \cup Explaining
  BY <1>1 DEF Seeking, Composing, Explaining, Replied
<1>3. route' \in {"answer", "investigation"}
  BY <1>1 DEF RouteOf
<1>4. context' \in Contexts
  <2>1. <<>> \in Contexts
    BY EmptySeq DEF Contexts
  <2> QED
    BY <1>1, <2>1 DEF ReplyInv, PlacesHold
<1>5. route' = "answer" => context' # <<>>
  <2> SUFFICES ASSUME route' = "answer", context' = <<>>
               PROVE  FALSE
    OBVIOUS
  <2>1. context = <<>>
    BY <1>1
  <2>2. signals.top = 0 /\ signals.incident \in BOOLEAN /\ signals.historical \in Cosines \cup {NoMatch}
    BY <1>1, <2>1 DEF ReplyInv, AnswerHolds
  <2>3. RouteOf(signals, <<>>) = "investigation"
    BY <2>2, NothingIsInvestigated
  <2> QED
    BY <1>1, <2>1, <2>3
<1>6. PlacesHold'
  BY <1>1, <1>2, <1>3, <1>4 DEF ReplyInv, PlacesHold, Ways
<1>7. reply' = NoReply
  BY <1>1, <1>2 DEF ReplyInv, AnswerHolds
<1>8. AnswersRest'
  <2>1. reply'.mode # "answered" /\ reply'.citations = {}
    BY <1>7 DEF NoReply
  <2> QED
    BY <1>5, <2>1, NoAnswerRests
<1>9. AnswerHolds'
  <2>1. tries' < MaxTries
    BY <1>1, <1>2 DEF ReplyInv, AnswerHolds
  <2> QED
    BY <1>1, <1>2, <1>7, <1>8, <2>1 DEF ReplyInv, AnswerHolds
<1>10. DraftHolds'
  BY <1>1, <1>2, DraftStays DEF ReplyInv
<1> QED
  BY <1>6, <1>9, <1>10 DEF ReplyInv

\* Without an answer there is another try, or none.
LEMMA DeclineRests ==
    ASSUME ReplyInv, step \in Composing, Declines,
           UNCHANGED <<signals, route, evidence, draft, second, delivered>>
    PROVE  ReplyInv'
<1>1. prose' = <<>> /\ tries' = tries + 1 /\ UNCHANGED context
  BY DEF Declines
<1>2. \/ tries' < MaxTries /\ step' = "assess" /\ UNCHANGED reply
      \/ ~(tries' < MaxTries) /\ step' = "done" /\ reply' = [NoReply EXCEPT !.mode = "no_answer"]
  BY DEF Declines
<1>3. step \notin Seeking /\ step \notin Replied /\ step # "evaluate"
  BY DEF Seeking, Composing, Replied
<1>4. step' \notin Seeking /\ step' # "evaluate" /\ step' # "verify" /\ step' \in Composing \cup Replied
  BY <1>2 DEF Seeking, Composing, Replied
<1>5. tries' \in 0..MaxTries
  <2>1. tries \in 0..MaxTries /\ tries < MaxTries /\ MaxTries \in Nat
    BY GroundingConstants DEF ReplyInv, PlacesHold, AnswerHolds, GroundingConstants
  <2> QED
    BY <1>1, <2>1
<1>6. PlacesHold'
  BY <1>1, <1>4, <1>5 DEF ReplyInv, PlacesHold
<1>7. reply = NoReply /\ (route = "answer" => context # <<>>)
  BY <1>3 DEF ReplyInv, AnswerHolds, AnswersRest
<1>8. reply'.mode \in {"none", "no_answer"} /\ reply'.citations = {}
  BY <1>2, <1>7 DEF NoReply
<1>9. AnswersRest'
  BY <1>1, <1>7, <1>8, NoAnswerRests
<1>10. AnswerHolds'
  <2>1. step' \notin Replied => reply' = NoReply
    BY <1>2, <1>7 DEF Replied
  <2>2. step' \in Seeking \cup Composing => tries' < MaxTries
    BY <1>2, <1>4 DEF Composing
  <2> QED
    BY <1>4, <1>8, <1>9, <2>1, <2>2 DEF AnswerHolds
<1>11. DraftHolds'
  BY DraftStays DEF ReplyInv
<1> QED
  BY <1>6, <1>10, <1>11 DEF ReplyInv

\* The answer goes on, with a draft or before it.
LEMMA WritingRests ==
    ASSUME ReplyInv, step \in Composing, step' \in {"write", "verify"},
           UNCHANGED <<context, tries, reply>>, prose' \in Proses \cup {<<>>},
           step' = "verify" => prose' \in Proses,
           UNCHANGED <<signals, route, evidence, draft, second, delivered>>
    PROVE  ReplyInv'
<1>1. step \notin Replied
  BY DEF Composing, Replied
<1>2. step' \in Composing /\ step' \notin Seeking /\ step' \notin Replied /\ step' # "evaluate"
  BY DEF Seeking, Composing, Replied
<1>3. PlacesHold'
  BY <1>2 DEF ReplyInv, PlacesHold
<1>4. reply' = NoReply /\ (route' = "answer" => context' # <<>>) /\ tries' < MaxTries
  BY <1>1 DEF ReplyInv, AnswerHolds, AnswersRest
<1>5. reply'.mode = "none" /\ reply'.citations = {}
  BY <1>4 DEF NoReply
<1>6. AnswersRest'
  BY <1>4, <1>5, NoAnswerRests
<1>7. AnswerHolds'
  BY <1>2, <1>4, <1>5, <1>6 DEF AnswerHolds
<1>8. DraftHolds'
  BY DraftStays DEF ReplyInv
<1> QED
  BY <1>3, <1>7, <1>8 DEF ReplyInv

LEMMA AssessRests == ASSUME ReplyInv, Assess PROVE ReplyInv'
<1>1. step = "assess" /\ UNCHANGED <<signals, route, evidence, draft, second, delivered>>
  BY DEF Assess
<1>2. step \in Composing /\ step \notin Replied
  BY <1>1 DEF Composing, Replied
<1>3. CASE Declines
  BY <1>1, <1>2, <1>3, DeclineRests
<1>4. CASE step' = "write" /\ UNCHANGED <<context, tries, prose, reply>>
  <2>1. prose' \in Proses \cup {<<>>}
    BY <1>4 DEF ReplyInv, PlacesHold
  <2> QED
    BY <1>1, <1>2, <1>4, <2>1, WritingRests
<1>5. CASE context = <<>> /\ reply' = [NoReply EXCEPT !.mode = "no_answer"] /\ step' = "done"
           /\ UNCHANGED <<context, tries, prose>>
  <2>1. step' \in Replied /\ step' \notin Seeking /\ step' \notin Composing /\ step' # "evaluate"
        /\ step' # "verify"
    BY <1>5 DEF Replied, Seeking, Composing
  <2>2. PlacesHold'
    BY <1>1, <1>5, <2>1 DEF ReplyInv, PlacesHold
  <2>3. reply'.mode = "no_answer" /\ reply'.citations = {}
    BY <1>5 DEF NoReply
  <2>4. route' = "answer" => context' # <<>>
    BY <1>1, <1>5 DEF ReplyInv, AnswerHolds, AnswersRest
  <2>5. AnswersRest'
    BY <2>3, <2>4, NoAnswerRests
  <2>6. AnswerHolds'
    BY <2>1, <2>3, <2>5 DEF AnswerHolds
  <2>7. DraftHolds'
    BY <1>1, <1>2, DraftStays DEF ReplyInv
  <2> QED
    BY <2>2, <2>6, <2>7 DEF ReplyInv
<1> QED
  BY <1>3, <1>4, <1>5 DEF Assess

LEMMA ComposeRests == ASSUME ReplyInv, Compose PROVE ReplyInv'
<1>1. step = "write" /\ UNCHANGED <<signals, route, evidence, draft, second, delivered>>
  BY DEF Compose
<1>2. step \in Composing
  BY <1>1 DEF Composing
<1>3. CASE Declines
  BY <1>1, <1>2, <1>3, DeclineRests
<1>4. CASE prose' \in Proses /\ step' = "verify" /\ UNCHANGED <<context, tries, reply>>
  BY <1>1, <1>2, <1>4, WritingRests
<1> QED
  BY <1>3, <1>4 DEF Compose

LEMMA VerifyRests == ASSUME ReplyInv, Verify PROVE ReplyInv'
<1>1. step = "verify" /\ UNCHANGED <<signals, route, evidence, draft, second, delivered>>
  BY DEF Verify
<1>2. step \in Composing /\ step \notin Replied
  BY <1>1 DEF Composing, Replied
<1>3. prose \in Proses /\ context \in Contexts
  BY <1>1 DEF ReplyInv, PlacesHold, AnswerHolds
<1> DEFINE pieces == SplitSentences(prose)
<1>4. PICK confirmed \in SUBSET Claims :
        LET kept == Kept(pieces, {i \in DOMAIN pieces : Grounded(pieces[i], context, confirmed)}) IN
        IF kept = <<>> THEN Declines
        ELSE /\ reply' = [mode |-> "answered", pieces |-> kept,
                          citations |-> CitationsOf(kept, context)]
             /\ step' = "done" /\ UNCHANGED <<context, tries, prose>>
  BY DEF Verify
<1> DEFINE kept == Kept(pieces, {i \in DOMAIN pieces : Grounded(pieces[i], context, confirmed)})
<1>5. CASE kept = <<>>
  <2>1. Declines
    BY <1>4, <1>5
  <2> QED
    BY <1>1, <1>2, <2>1, DeclineRests
<1>6. CASE kept # <<>>
  <2>1. /\ reply' = [mode |-> "answered", pieces |-> kept, citations |-> CitationsOf(kept, context)]
        /\ step' = "done" /\ UNCHANGED <<context, tries, prose>>
    BY <1>4, <1>6
  <2>2. 0 \notin DOMAIN context /\ ToSet(context) \subseteq Passages
    <3>1. context \in [1..Len(context) -> Passages]
      BY <1>3, LenProperties DEF Contexts
    <3> QED
      BY <3>1 DEF ToSet
  <2>3. RestsOn(kept, prose, context)
    <3>1. kept = StaysOf(prose, context, confirmed)
      BY DEF StaysOf
    <3> HIDE DEF kept
    <3> QED
      BY <1>3, <2>2, <3>1, GroundedAnswersRest
  <2> HIDE DEF kept
  <2>4. reply'.mode = "answered" /\ reply'.pieces = kept /\ reply'.citations = CitationsOf(kept, context)
    BY <2>1
  <2>5. step' \in Replied /\ step' \notin Seeking /\ step' \notin Composing /\ step' # "evaluate"
        /\ step' # "verify"
    BY <2>1 DEF Replied, Seeking, Composing
  <2>6. PlacesHold'
    BY <1>1, <2>1, <2>5 DEF ReplyInv, PlacesHold
  <2>7. route' = "answer" => context' # <<>>
    BY <1>1, <2>1 DEF ReplyInv, AnswerHolds, AnswersRest
  <2>8. context' = context /\ prose' = prose
    BY <2>1
  <2>9. (MarkedAsAsked <=> \A i \in DOMAIN prose : prose[i].after = 0)'
    BY DEF MarkedAsAsked
  <2>10. AnswersRest'
    BY <1>6, <2>3, <2>4, <2>7, <2>8, <2>9 DEF AnswersRest, RestsOn
  <2>11. AnswerHolds'
    BY <2>2, <2>3, <2>4, <2>5, <2>10 DEF AnswerHolds, RestsOn
  <2>12. DraftHolds'
    BY <1>1, <1>2, DraftStays DEF ReplyInv
  <2> QED
    BY <2>6, <2>11, <2>12 DEF ReplyInv
<1> QED
  BY <1>5, <1>6

-----------------------------------------------------------------------------
\* Whatever is delivered, the answer is not concerned.
LEMMA DeliveredRests ==
    ASSUME ReplyInv, step \in Explaining \cup Judging, step' \in Replied,
           UNCHANGED <<context, signals, route, tries, prose, reply>>,
           evidence' \in SUBSET References, second' \in BOOLEAN,
           delivered'.review \in {"not_reviewed", "reviewed", "review_failed"},
           draft' \in Seq(Backed(evidence')), HypothesesRest'
    PROVE  ReplyInv'
<1>1. step \notin Replied /\ step' \notin Seeking /\ step' \notin Composing /\ step' \notin Explaining
  BY DEF Seeking, Composing, Explaining, Judging, Replied
<1>2. PlacesHold'
  BY DEF ReplyInv, PlacesHold
<1>3. AnswerHolds'
  BY <1>1, AnswerStays DEF ReplyInv
<1>4. DraftHolds'
  BY <1>1 DEF DraftHolds
<1> QED
  BY <1>2, <1>3, <1>4 DEF ReplyInv

\* The investigation goes on.
LEMMA ExplainingRests ==
    ASSUME ReplyInv, step \in Explaining \cup Judging, step' \in {"hypothesize"} \cup Judging,
           UNCHANGED <<context, signals, route, tries, prose, reply>>,
           evidence' \in SUBSET References, second' \in BOOLEAN,
           delivered'.review \in {"not_reviewed", "reviewed", "review_failed"},
           delivered'.hypotheses = <<>>, delivered'.verdict = "none",
           draft' \in Seq(Backed(evidence')), step' = "hypothesize" => draft' = <<>>
    PROVE  ReplyInv'
<1>1. step \notin Replied /\ step' \notin Seeking /\ step' \notin Composing /\ step' \notin Replied
      /\ step' # "done" /\ step' \in Explaining \cup Judging
  BY DEF Seeking, Composing, Explaining, Judging, Replied
<1>2. PlacesHold'
  BY <1>1 DEF ReplyInv, PlacesHold
<1>3. AnswerHolds'
  BY <1>1, AnswerStays DEF ReplyInv
<1>4. HypothesesRest'
  BY <1>1 DEF HypothesesRest
<1>5. step' \notin Seeking \cup Composing
  BY <1>1
<1>6. step' \in Explaining => step' = "hypothesize"
  BY DEF Explaining, Judging
<1>7. step' \in Seeking \cup Composing \cup Explaining => draft' = <<>>
  BY <1>5, <1>6
<1>8. DraftHolds'
  BY <1>4, <1>7 DEF DraftHolds
<1> QED
  BY <1>2, <1>3, <1>8 DEF ReplyInv

\* Hypotheses that cite what was found rest on it, without a verdict that would ask more.
LEMMA DeliveredAsTheyAre ==
    ASSUME NEW hypotheses, hypotheses \in Seq(Backed(evidence')),
           delivered'.hypotheses = hypotheses, delivered'.verdict \in {"none", "revise"}
    PROVE  HypothesesRest'
<1>1. ASSUME NEW i \in DOMAIN hypotheses
      PROVE  hypotheses[i].cites # <<>> /\ ToSet(hypotheses[i].cites) \subseteq evidence'
  <2>1. hypotheses \in [1..Len(hypotheses) -> Backed(evidence')]
    BY LenProperties
  <2>2. hypotheses[i] \in Backed(evidence')
    BY <2>1
  <2>3. hypotheses[i].cites \in Seq(evidence') /\ hypotheses[i].cites # <<>>
    BY <2>2 DEF Backed, Cites
  <2>4. hypotheses[i].cites \in [1..Len(hypotheses[i].cites) -> evidence']
    BY <2>3, LenProperties
  <2> QED
    BY <2>3, <2>4 DEF ToSet
<1> QED
  BY <1>1 DEF HypothesesRest

LEMMA NothingDeliveredRests ==
    ASSUME delivered'.hypotheses = <<>>, delivered'.verdict # "accept"
    PROVE  HypothesesRest'
<1>1. DOMAIN <<>> = {}
  BY EmptySeq
<1> QED
  BY <1>1 DEF HypothesesRest

LEMMA GatherRests == ASSUME ReplyInv, Gather PROVE ReplyInv'
<1>1. /\ step = "gather" /\ evidence' \in SUBSET References
      /\ step' = IF evidence' = {} THEN "done" ELSE "hypothesize"
      /\ UNCHANGED <<context, signals, route, tries, prose, reply, draft, second, delivered>>
  BY DEF Gather
<1>2. step \in Explaining /\ step \notin Replied
  BY <1>1 DEF Explaining, Replied
<1>3. draft' = <<>> /\ delivered'.hypotheses = <<>> /\ delivered'.verdict = "none"
  BY <1>1, <1>2 DEF ReplyInv, DraftHolds
<1>4. draft' \in Seq(Backed(evidence'))
  BY <1>3, EmptySeq
<1>5. second' \in BOOLEAN /\ delivered'.review \in {"not_reviewed", "reviewed", "review_failed"}
  BY <1>1 DEF ReplyInv, PlacesHold
<1>6. CASE step' = "done"
  <2>1. HypothesesRest'
    BY <1>3, NothingDeliveredRests
  <2>2. step' \in Replied
    BY <1>6 DEF Replied
  <2> QED
    BY <1>1, <1>2, <1>4, <1>5, <2>1, <2>2, DeliveredRests
<1>7. CASE step' = "hypothesize"
  BY <1>1, <1>2, <1>3, <1>4, <1>5, <1>7, ExplainingRests
<1> QED
  BY <1>1, <1>6, <1>7

\* Hypotheses that are new to the critique.
LEMMA ForCritiqueRests ==
    ASSUME ReplyInv, step \in Explaining \cup Judging, NEW hypotheses \in Proposals[evidence],
           ForCritique(hypotheses), UNCHANGED <<context, signals, route, tries, prose, reply, evidence>>,
           second' \in BOOLEAN
    PROVE  ReplyInv'
<1>1. draft' = hypotheses /\ evidence \in SUBSET References /\ evidence' = evidence
  BY DEF ForCritique, ReplyInv, PlacesHold
<1>2. draft' \in Seq(Backed(evidence'))
  BY <1>1, ProposalsRest
<1>3. CASE Rejects
  <2>1. delivered' = [hypotheses |-> <<>>, review |-> "reviewed", verdict |-> "reject", unsupported |-> {}]
        /\ step' \in Replied
    BY <1>3 DEF Rejects, Delivers, Replied
  <2>2. delivered'.hypotheses = <<>> /\ delivered'.verdict = "reject" /\ delivered'.review = "reviewed"
    BY <2>1
  <2>3. HypothesesRest'
    BY <2>2, NothingDeliveredRests
  <2> QED
    BY <1>1, <1>2, <2>1, <2>2, <2>3, DeliveredRests
<1>4. CASE step' = "critique" /\ UNCHANGED delivered
  <2>1. step' \in Judging /\ step' # "hypothesize" /\ step \notin Replied
    BY <1>4 DEF Judging, Explaining, Replied
  <2>2. delivered'.hypotheses = <<>> /\ delivered'.verdict = "none"
        /\ delivered'.review \in {"not_reviewed", "reviewed", "review_failed"}
    BY <1>4, <2>1 DEF ReplyInv, DraftHolds, PlacesHold
  <2> QED
    BY <1>1, <1>2, <2>1, <2>2, ExplainingRests
<1> QED
  BY <1>3, <1>4 DEF ForCritique

LEMMA HypothesizeRests == ASSUME ReplyInv, Hypothesize PROVE ReplyInv'
<1>1. step = "hypothesize" /\ UNCHANGED <<context, signals, route, tries, prose, reply, evidence, second>>
  BY DEF Hypothesize
<1>2. step \in Explaining /\ second' \in BOOLEAN /\ evidence' \in SUBSET References
      /\ evidence \in SUBSET References
  BY <1>1 DEF Explaining, ReplyInv, PlacesHold
<1>3. PICK hypotheses \in Proposals[evidence] :
        IF hypotheses = <<>>
        THEN Delivers(<<>>, "not_reviewed", "none", {}) /\ UNCHANGED draft
        ELSE \/ ForCritique(hypotheses)
             \/ Delivers(hypotheses, "not_reviewed", "none", {}) /\ UNCHANGED draft
  BY DEF Hypothesize
<1>4. hypotheses \in Seq(Backed(evidence'))
  BY <1>1, <1>2, ProposalsRest
<1>5. CASE ForCritique(hypotheses)
  BY <1>1, <1>2, <1>5, ForCritiqueRests
<1>6. CASE Delivers(hypotheses, "not_reviewed", "none", {}) /\ UNCHANGED draft
  <2>1. delivered' = [hypotheses |-> hypotheses, review |-> "not_reviewed", verdict |-> "none",
                      unsupported |-> {}]
        /\ step' \in Replied
    BY <1>6 DEF Delivers, Replied
  <2>2. delivered'.hypotheses = hypotheses /\ delivered'.verdict = "none"
        /\ delivered'.review = "not_reviewed"
    BY <2>1
  <2>3. HypothesesRest'
    BY <1>4, <2>2, DeliveredAsTheyAre
  <2>4. draft' \in Seq(Backed(evidence'))
    BY <1>1, <1>6 DEF ReplyInv, DraftHolds
  <2> QED
    BY <1>1, <1>2, <2>1, <2>2, <2>3, <2>4, DeliveredRests
<1> QED
  BY <1>3, <1>5, <1>6

\* The verdict "accept": the hypotheses are those of the draft, less what they lose.
LEMMA AcceptedRest ==
    ASSUME NEW indices, draft \in Seq(Backed(evidence)), UNCHANGED <<draft, evidence>>,
           delivered'.hypotheses = Penalized(draft, indices), delivered'.verdict = "accept",
           delivered'.unsupported = indices
    PROVE  HypothesesRest'
<1> DEFINE left == Penalized(draft, indices)
<1>1. /\ DOMAIN left = DOMAIN draft
      /\ \A i \in DOMAIN draft :
           /\ left[i].cites = draft[i].cites
           /\ Overconfident(draft[i]) \/ i \in indices =>
                left[i].confidence < draft[i].confidence \/ left[i].confidence = 0
  BY PenalizedRests
<1>2. ASSUME NEW i \in DOMAIN draft
      PROVE  draft[i] \in Backed(evidence)
  <2>1. draft \in [1..Len(draft) -> Backed(evidence)]
    BY LenProperties
  <2> QED
    BY <2>1
<1>3. ASSUME NEW i \in DOMAIN left
      PROVE  left[i].cites # <<>> /\ ToSet(left[i].cites) \subseteq evidence
  <2>1. left[i].cites = draft[i].cites /\ draft[i] \in Backed(evidence)
    BY <1>1, <1>2
  <2>2. draft[i].cites \in Seq(evidence) /\ draft[i].cites # <<>>
    BY <2>1 DEF Backed, Cites
  <2>3. draft[i].cites \in [1..Len(draft[i].cites) -> evidence]
    BY <2>2, LenProperties
  <2> HIDE DEF left
  <2> QED
    BY <2>1, <2>2, <2>3 DEF ToSet
<1>4. ASSUME NEW i \in DOMAIN draft,
             \/ i \in indices
             \/ /\ draft[i].confidence >= Certain /\ CitesOnce(draft[i])
                /\ Cardinality(ToSet(draft[i].cites)) < MinCited
      PROVE  left[i].confidence < draft[i].confidence \/ left[i].confidence = 0
  <2>1. Overconfident(draft[i]) \/ i \in indices
    <3>1. CitesOnce(draft[i]) => Cardinality(ToSet(draft[i].cites)) = Len(draft[i].cites)
      BY <1>2, CitedOnce
    <3> QED
      BY <1>4, <3>1 DEF Overconfident
  <2> HIDE DEF left
  <2> QED
    BY <1>1, <2>1
<1> HIDE DEF left
<1>5. delivered'.hypotheses = left /\ draft' = draft /\ evidence' = evidence
  BY DEF left
<1>6. \A i \in DOMAIN delivered'.hypotheses :
        /\ delivered'.hypotheses[i].cites # <<>>
        /\ ToSet(delivered'.hypotheses[i].cites) \subseteq evidence'
  BY <1>3, <1>5
<1>7. \A i \in DOMAIN draft' :
        \/ i \in delivered'.unsupported
        \/ /\ draft'[i].confidence >= Certain /\ CitesOnce(draft'[i])
           /\ Cardinality(ToSet(draft'[i].cites)) < MinCited
        => \/ delivered'.hypotheses[i].confidence < draft'[i].confidence
           \/ delivered'.hypotheses[i].confidence = 0
  BY <1>4, <1>5
<1> QED
  BY <1>6, <1>7 DEF HypothesesRest

LEMMA CriticizeRests == ASSUME ReplyInv, Criticize PROVE ReplyInv'
<1>1. /\ step = "critique"
      /\ UNCHANGED <<context, signals, route, tries, prose, reply, evidence, draft, second>>
  BY DEF Criticize
<1>2. step \in Judging /\ step \notin Replied /\ second' \in BOOLEAN /\ evidence' \in SUBSET References
  BY <1>1 DEF Judging, Replied, ReplyInv, PlacesHold
<1>3. draft \in Seq(Backed(evidence)) /\ draft' \in Seq(Backed(evidence'))
  BY <1>1 DEF ReplyInv, DraftHolds
<1>4. CASE Delivers(draft, "review_failed", IF second THEN "revise" ELSE "none", {})
  <2>1. /\ delivered' = [hypotheses |-> draft, review |-> "review_failed",
                         verdict |-> IF second THEN "revise" ELSE "none", unsupported |-> {}]
        /\ step' \in Replied
    BY <1>4 DEF Delivers, Replied
  <2>2. delivered'.hypotheses = draft /\ delivered'.verdict \in {"none", "revise"}
        /\ delivered'.review = "review_failed"
    BY <2>1
  <2>3. HypothesesRest'
    BY <1>1, <1>3, <2>2, DeliveredAsTheyAre
  <2> QED
    BY <1>1, <1>2, <1>3, <2>1, <2>2, <2>3, DeliveredRests
<1>5. ASSUME NEW indices, Delivers(Penalized(draft, indices), "reviewed", "accept", indices)
      PROVE  ReplyInv'
  <2> DEFINE left == Penalized(draft, indices)
  <2>1. /\ delivered' = [hypotheses |-> left, review |-> "reviewed", verdict |-> "accept",
                         unsupported |-> indices]
        /\ step' \in Replied
    BY <1>5 DEF Delivers, Replied
  <2>2. delivered'.hypotheses = left /\ delivered'.verdict = "accept"
        /\ delivered'.review = "reviewed" /\ delivered'.unsupported = indices
    <3> HIDE DEF left
    <3> QED
      BY <2>1
  <2>3. HypothesesRest'
    BY <1>1, <1>3, <2>2, AcceptedRest
  <2> QED
    BY <1>1, <1>2, <1>3, <2>1, <2>2, <2>3, DeliveredRests
<1>6. ASSUME NEW indices, step' = "revise", delivered' = [delivered EXCEPT !.unsupported = indices]
      PROVE  ReplyInv'
  <2>1. delivered.hypotheses = <<>> /\ delivered.verdict = "none"
        /\ delivered.review \in {"not_reviewed", "reviewed", "review_failed"}
    BY <1>2 DEF ReplyInv, DraftHolds, PlacesHold
  <2>2. delivered'.hypotheses = <<>> /\ delivered'.verdict = "none"
        /\ delivered'.review \in {"not_reviewed", "reviewed", "review_failed"}
    BY <1>6, <2>1
  <2>3. step' \in Judging /\ step' # "hypothesize"
    BY <1>6 DEF Judging
  <2> QED
    BY <1>1, <1>2, <1>3, <2>2, <2>3, ExplainingRests
<1>7. CASE Rejects
  <2>1. delivered' = [hypotheses |-> <<>>, review |-> "reviewed", verdict |-> "reject", unsupported |-> {}]
        /\ step' \in Replied
    BY <1>7 DEF Rejects, Delivers, Replied
  <2>2. delivered'.hypotheses = <<>> /\ delivered'.verdict = "reject" /\ delivered'.review = "reviewed"
    BY <2>1
  <2>3. HypothesesRest'
    BY <2>2, NothingDeliveredRests
  <2> QED
    BY <1>1, <1>2, <1>3, <2>1, <2>2, <2>3, DeliveredRests
<1>8. ASSUME NEW verdict, NEW indices,
             IF verdict = "accept"
             THEN Delivers(Penalized(draft, indices), "reviewed", "accept", indices)
             ELSE IF verdict = "revise" /\ ~second
             THEN /\ step' = "revise"
                  /\ delivered' = [delivered EXCEPT !.unsupported = indices]
             ELSE Rejects
      PROVE  ReplyInv'
  BY <1>5, <1>6, <1>7, <1>8
<1> QED
  BY <1>4, <1>8 DEF Criticize

LEMMA ReviseRests == ASSUME ReplyInv, Revise PROVE ReplyInv'
<1>1. step = "revise" /\ UNCHANGED <<context, signals, route, tries, prose, reply, evidence>>
  BY DEF Revise
<1>2. step \in Judging /\ evidence' \in SUBSET References
  BY <1>1 DEF Judging, ReplyInv, PlacesHold
<1>3. CASE Delivers(draft, "review_failed", "revise", {}) /\ UNCHANGED <<draft, second>>
  <2>1. /\ delivered' = [hypotheses |-> draft, review |-> "review_failed", verdict |-> "revise",
                         unsupported |-> {}]
        /\ step' \in Replied
    BY <1>3 DEF Delivers, Replied
  <2>2. delivered'.hypotheses = draft /\ delivered'.verdict = "revise"
        /\ delivered'.review = "review_failed"
    BY <2>1
  <2>3. draft \in Seq(Backed(evidence')) /\ draft' \in Seq(Backed(evidence')) /\ second' \in BOOLEAN
    BY <1>1, <1>3 DEF ReplyInv, DraftHolds, PlacesHold
  <2>4. HypothesesRest'
    BY <2>2, <2>3, DeliveredAsTheyAre
  <2> QED
    BY <1>1, <1>2, <2>1, <2>2, <2>3, <2>4, DeliveredRests
<1>4. ASSUME second' = TRUE, NEW hypotheses \in Proposals[evidence], ForCritique(hypotheses)
      PROVE  ReplyInv'
  BY <1>1, <1>2, <1>4, ForCritiqueRests
<1> QED
  BY <1>3, <1>4 DEF Revise

\* A step of another component, or none.
RepliesStay == UNCHANGED groundingVars

LEMMA RepliesStayRests == ASSUME ReplyInv, RepliesStay PROVE ReplyInv'
<1>1. UNCHANGED <<step, context, signals, route, tries, prose, reply, evidence, draft, second, delivered>>
  BY DEF RepliesStay, groundingVars
<1>2. PlacesHold'
  BY <1>1 DEF ReplyInv, PlacesHold
<1>3. AnswersRest'
  BY <1>1 DEF ReplyInv, AnswerHolds, AnswersRest, MarkedAsAsked
<1>4. AnswerHolds'
  BY <1>1, <1>3 DEF ReplyInv, AnswerHolds
<1>5. HypothesesRest'
  BY <1>1 DEF ReplyInv, DraftHolds, HypothesesRest
<1>6. DraftHolds'
  BY <1>1, <1>5 DEF ReplyInv, DraftHolds
<1> QED
  BY <1>2, <1>4, <1>6 DEF ReplyInv

LEMMA ReplyStep == ASSUME ReplyInv, [GroundingNext]_groundingVars PROVE ReplyInv'
<1>1. CASE GroundingNext
  BY <1>1, RetrieveRests, EvaluateRests, AssessRests, ComposeRests, VerifyRests, GatherRests,
     HypothesizeRests, CriticizeRests, ReviseRests DEF GroundingNext
<1>2. CASE RepliesStay
  BY <1>2, RepliesStayRests
<1> QED
  BY <1>1, <1>2 DEF RepliesStay

LEMMA ReplyHolds == GroundingSpec => []ReplyInv
<1>1. ReplyInv /\ [GroundingNext]_groundingVars => ReplyInv'
  BY ReplyStep
<1> QED
  BY <1>1, RepliesBegin, PTL DEF GroundingSpec

\* An answer is given from chunks only, each of its sentences is supported by one, and it
\* cites what its sentences name; a hypothesis cites evidence that was found, and a draft
\* that was accepted has paid for what the critique found.  For every way to retrieve, to
\* write and to judge.
THEOREM RepliesAlwaysRest == GroundingSpec => []RepliesRest
<1>1. ReplyInv => RepliesRest
  BY DEF ReplyInv, AnswerHolds, DraftHolds, RepliesRest
<1> QED
  BY <1>1, ReplyHolds, PTL

\* Types of a question on its way: its context, draft, evidence, hypotheses and tries.
THEOREM GroundingTypesHold == GroundingSpec => []GroundingTypeOK
<1>1. ReplyInv => GroundingTypeOK
  <2> HAVE ReplyInv
  <2>1. ToSet(context) \subseteq Passages
    <3>1. context \in [1..Len(context) -> Passages]
      BY LenProperties DEF ReplyInv, PlacesHold, Contexts
    <3> QED
      BY <3>1 DEF ToSet
  <2>2. \A i \in DOMAIN draft : draft[i].confidence \in 0..10
    <3>1. draft \in [1..Len(draft) -> Backed(evidence)]
      BY LenProperties DEF ReplyInv, DraftHolds
    <3> QED
      BY <3>1 DEF Backed
  <2>3. step \in {"retrieve", "evaluate", "assess", "write", "verify", "gather", "hypothesize",
                 "critique", "revise", "done"}
    BY DEF ReplyInv, PlacesHold, Seeking, Composing, Explaining, Judging, Replied
  <2> QED
    BY <2>1, <2>2, <2>3 DEF ReplyInv, PlacesHold, AnswerHolds, GroundingTypeOK, Ways
<1> QED
  BY <1>1, ReplyHolds, PTL

-----------------------------------------------------------------------------
(* Search (Retrieval): lists, cut, kept and sorted.                        *)

\* The first elements of a sequence are elements of it, at their places.
LEMMA FirstFacts ==
    ASSUME NEW V, NEW s \in Seq(V), NEW n \in Nat
    PROVE  /\ First(s, n) \in Seq(V)
           /\ Len(First(s, n)) = IF n < Len(s) THEN n ELSE Len(s)
           /\ \A k \in DOMAIN First(s, n) : k \in DOMAIN s /\ First(s, n)[k] = s[k]
<1> DEFINE m == IF n < Len(s) THEN n ELSE Len(s)
<1>1. Len(s) \in Nat /\ DOMAIN s = 1..Len(s)
  BY LenProperties
<1>2. m \in Nat /\ m <= Len(s)
  BY <1>1
<1> HIDE DEF m
<1>3. /\ SubSeq(s, 1, m) \in Seq(V) /\ Len(SubSeq(s, 1, m)) = m
      /\ \A i \in 1..m : SubSeq(s, 1, m)[i] = s[i]
  <2>1. 1 \in 1..(Len(s) + 1) /\ m \in 0..Len(s) /\ m \in 1-1..Len(s)
    BY <1>1, <1>2
  <2>2. /\ SubSeq(s, 1, m) \in Seq(V)
        /\ Len(SubSeq(s, 1, m)) = IF 1 <= m THEN m - 1 + 1 ELSE 0
        /\ \A i \in 1..(m - 1 + 1) : SubSeq(s, 1, m)[i] = s[1 + i - 1]
    BY <1>1, <1>2, <2>1, SubSeqProperties
  <2>3. m - 1 + 1 = m /\ \A i \in 1..m : 1 + i - 1 = i
    BY <1>2
  <2>4. (IF 1 <= m THEN m - 1 + 1 ELSE 0) = m
    BY <1>2
  <2> QED
    BY <2>2, <2>3, <2>4
<1>4. First(s, n) = SubSeq(s, 1, m)
  BY DEF First, m
<1>5. DOMAIN First(s, n) = 1..m
  BY <1>3, <1>4, LenProperties
<1> QED
  BY <1>1, <1>2, <1>3, <1>4, <1>5 DEF m

\* What is told apart by elements of T is no more than they are.
LEMMA Pigeons ==
    ASSUME NEW S, IsFiniteSet(S), NEW T, IsFiniteSet(T), NEW f \in [S -> T],
           \A i, j \in S : i # j => f[i] # f[j]
    PROVE  ~(Cardinality(T) < Cardinality(S))
  BY FS_PigeonHole

\* What is kept of elements that differ differs.
LEMMA KeptOnce ==
    ASSUME NEW s, NEW places \in SUBSET Nat, IsFiniteSet(places),
           \A i, j \in places : s[i] = s[j] => i = j
    PROVE  IsInjective(Kept(s, places))
<1> DEFINE t == Kept(s, places)
           m == Cardinality(places)
<1>1. m \in Nat /\ DOMAIN t = 1..m /\ \A i \in places : \E k \in DOMAIN t : t[k] = s[i]
  BY KeptElements DEF Keeps
<1>2. \A k \in DOMAIN t : \E i \in places : t[k] = s[i]
  BY KeptElements DEF Keeps
<1> HIDE DEF t, m
<1> SUFFICES ASSUME NEW a \in DOMAIN t, NEW b \in DOMAIN t, t[a] = t[b], a # b
             PROVE  FALSE
  BY DEF IsInjective, t
<1> DEFINE of == [i \in places |-> CHOOSE k \in DOMAIN t : t[k] = s[i]]
           rest == (1..m) \ {a}
           place == [i \in places |-> IF of[i] = a THEN b ELSE of[i]]
<1>3. \A i \in places : of[i] \in 1..m /\ t[of[i]] = s[i]
  BY <1>1
<1> HIDE DEF of
<1>4. place \in [places -> rest] /\ \A i \in places : t[place[i]] = s[i]
  BY <1>1, <1>3
<1>5. \A i, j \in places : i # j => place[i] # place[j]
  <2> HIDE DEF place
  <2> QED
    BY <1>4
<1>6. IsFiniteSet(rest) /\ Cardinality(rest) = m - 1
  <2>1. IsFiniteSet(1..m) /\ Cardinality(1..m) = m
    <3>1. 1 \in Int /\ m \in Int /\ (m = 0 \/ ~(1 > m))  /\ m - 1 + 1 = m
      BY <1>1
    <3> QED
      BY <1>1, <3>1, FS_Interval
  <2> DEFINE all == 1..m
  <2>2. IsFiniteSet(all) /\ Cardinality(all) = m /\ a \in all /\ rest = all \ {a}
    BY <1>1, <2>1
  <2> HIDE DEF all, rest
  <2> QED
    BY <2>2, FS_RemoveElement, FS_Subset
<1> HIDE DEF place, rest
<1>7. Cardinality(rest) < Cardinality(places)
  BY <1>1, <1>6 DEF m
<1> QED
  <2>1. place \in [places -> rest] /\ IsFiniteSet(rest) /\ IsFiniteSet(places)
    BY <1>4, <1>6
  <2> QED
    BY <2>1, <1>5, <1>7, Pigeons


\* Places of a sequence are finitely many.
LEMMA PlacesAreFinite ==
    ASSUME NEW V, NEW s \in Seq(V), NEW places \in SUBSET DOMAIN s
    PROVE  /\ places \in SUBSET Nat /\ IsFiniteSet(places)
           /\ Cardinality(places) \in Nat /\ Cardinality(places) <= Len(s)
<1>1. Len(s) \in Nat /\ DOMAIN s = 1..Len(s)
  BY LenProperties
<1>2. IsFiniteSet(1..Len(s)) /\ Cardinality(1..Len(s)) = Len(s)
  <2> DEFINE n == Len(s)
  <2>1. 1 \in Int /\ n \in Int /\ (n = 0 \/ ~(1 > n))  /\ n - 1 + 1 = n
    BY <1>1
  <2> HIDE DEF n
  <2>2. IsFiniteSet(1..n) /\ Cardinality(1..n) = n
    BY <2>1, FS_Interval
  <2> QED
    BY <2>2 DEF n
<1>3. places \subseteq 1..Len(s)
  BY <1>1
<1>4. IsFiniteSet(places) /\ Cardinality(places) <= Cardinality(1..Len(s))
  BY <1>2, <1>3, FS_Subset
<1>5. Cardinality(places) \in Nat
  BY <1>4, FS_CardinalityType
<1> QED
  BY <1>1, <1>2, <1>3, <1>4, <1>5

\* Each element is met for the first time once.
LEMMA DistinctOnce ==
    ASSUME NEW V, NEW s \in Seq(V)
    PROVE  Distinct(s) \in Seq(V) /\ IsInjective(Distinct(s))
<1> DEFINE places == {i \in DOMAIN s : \A j \in DOMAIN s : j < i => s[j] # s[i]}
<1>1. places \in SUBSET DOMAIN s
  OBVIOUS
<1>2. \A i, j \in places : s[i] = s[j] => i = j
  <2> SUFFICES ASSUME NEW i \in places, NEW j \in places, s[i] = s[j], i # j
               PROVE  FALSE
    OBVIOUS
  <2>1. i \in Nat /\ j \in Nat
    BY LenProperties
  <2>2. i < j \/ j < i
    BY <2>1
  <2> QED
    BY <2>2
<1>3. \A i \in places : s[i] \in V
  BY LenProperties
<1>4. Distinct(s) = Kept(s, places)
  BY DEF Distinct
<1> HIDE DEF places
<1>5. places \in SUBSET Nat /\ IsFiniteSet(places)
  BY <1>1, PlacesAreFinite
<1> QED
  BY <1>2, <1>3, <1>4, <1>5, KeptOnce, KeptIsSequence

\* t has the elements of s, each place of s once, and the scores fall.
Rearranged(t, s) ==
    /\ DOMAIN t = DOMAIN s
    /\ \E place \in [DOMAIN s -> DOMAIN s] :
         /\ \A k, l \in DOMAIN s : k # l => place[k] # place[l]
         /\ \A k \in DOMAIN s : t[k] = s[place[k]]
Falling(t) == \A k, l \in DOMAIN t : k < l => t[k].score >= t[l].score

\* Sorting rearranges, by falling score.
LEMMA SortedFacts ==
    ASSUME NEW V, NEW s \in Seq(V), \A k \in DOMAIN s : s[k].score \in Int
    PROVE  Rearranged(Sorted(s), s) /\ Falling(Sorted(s))
<1> DEFINE D == DOMAIN s
           before(i, j) == s[i].score > s[j].score \/ (s[i].score = s[j].score /\ i < j)
           order == {pair \in D \X D : before(pair[1], pair[2])}
           place(j) == Cardinality({i \in D : before(i, j)}) + 1
           Place(k) == CHOOSE j \in D : place(j) = k
           t == Sorted(s)
<1>1. Len(s) \in Nat /\ D = 1..Len(s) /\ IsFiniteSet(D) /\ Cardinality(D) = Len(s)
  <2>1. Len(s) \in Nat /\ D = 1..Len(s)
    BY LenProperties
  <2> DEFINE n == Len(s)
  <2>2. 1 \in Int /\ n \in Int /\ (n = 0 \/ ~(1 > n))  /\ n - 1 + 1 = n
    BY <2>1
  <2> HIDE DEF n
  <2>3. IsFiniteSet(1..n) /\ Cardinality(1..n) = n
    BY <2>2, FS_Interval
  <2> QED
    BY <2>1, <2>3 DEF n
<1>2. \A i, j \in D : <<i, j>> \in order <=> before(i, j)
  OBVIOUS
<1>3. Orders(order, D)
  <2>1. \A i \in D : i \in Int /\ s[i].score \in Int
    BY <1>1
  <2>2. \A i \in D : ~before(i, i)
    BY <2>1
  <2>3. \A i, j, k \in D : before(i, j) /\ before(j, k) => before(i, k)
    BY <2>1
  <2>4. \A i, j \in D : i = j \/ before(i, j) \/ before(j, i)
    BY <2>1
  <2> HIDE DEF order, before, D
  <2> QED
    BY <1>2, <2>2, <2>3, <2>4 DEF Orders
<1>4. \A j \in D : place(j) = RankIn(j, D, order) + 1
  <2> TAKE j \in D
  <2>1. {i \in D : <<i, j>> \in order} = {i \in D : before(i, j)}
    OBVIOUS
  <2> HIDE DEF order, before
  <2> QED
    BY <2>1 DEF RankIn
<1>5. t = [k \in D |-> s[Place(k)]]
  BY DEF Sorted
<1>6. \A i, j \in D : before(i, j) => s[i].score >= s[j].score
  BY <1>1
<1> HIDE DEF D, order, before, place
<1>7. \A k \in D : Place(k) \in D /\ RankIn(Place(k), D, order) = k - 1
  <2> TAKE k \in D
  <2>1. k - 1 \in Nat /\ k - 1 < Cardinality(D)
    BY <1>1
  <2>2. PICK j \in D : RankIn(j, D, order) = k - 1
    BY <1>1, <1>3, <2>1, RanksAreFilled
  <2>3. place(j) = k
    BY <1>1, <1>4, <2>2
  <2>4. Place(k) \in D /\ place(Place(k)) = k
    BY <2>3
  <2>5. RankIn(Place(k), D, order) \in Nat
    BY <1>1, <1>3, <2>4, RanksFollow
  <2> QED
    BY <1>1, <1>4, <2>4, <2>5
<1> HIDE DEF Place
<1>8. \A k, l \in D : k # l => Place(k) # Place(l)
  <2> TAKE k, l \in D
  <2>1. k # l => k - 1 # l - 1
    BY <1>1
  <2> QED
    BY <1>7, <2>1
<1>9. Rearranged(t, s)
  <2> DEFINE p == [k \in D |-> Place(k)]
  <2>1. p \in [D -> D] /\ \A k \in D : p[k] = Place(k)
    BY <1>7
  <2> HIDE DEF p, t
  <2>2. \A k, l \in D : k # l => p[k] # p[l]
    BY <1>8, <2>1
  <2>3. DOMAIN t = D /\ \A k \in D : t[k] = s[p[k]]
    BY <1>5, <2>1
  <2> QED
    BY <2>1, <2>2, <2>3 DEF Rearranged, D
<1>10. Falling(t)
  <2> SUFFICES ASSUME NEW k \in D, NEW l \in D, k < l
               PROVE  s[Place(k)].score >= s[Place(l)].score
    BY <1>5 DEF Falling
  <2>1. k - 1 < l - 1 /\ k # l
    BY <1>1
  <2>2. Place(k) \in D /\ Place(l) \in D /\ Place(k) # Place(l)
    BY <1>7, <1>8, <2>1
  <2>3. <<Place(k), Place(l)>> \in order \/ <<Place(l), Place(k)>> \in order
    BY <1>3, <2>2 DEF Orders
  <2>4. ~(<<Place(l), Place(k)>> \in order)
    <3> SUFFICES ASSUME <<Place(l), Place(k)>> \in order
                 PROVE  FALSE
      OBVIOUS
    <3>1. RankIn(Place(l), D, order) < RankIn(Place(k), D, order)
      BY <1>1, <1>3, <2>2, RanksFollow
    <3> QED
      BY <1>1, <1>7, <2>1, <3>1
  <2> QED
    BY <1>2, <1>6, <2>2, <2>3, <2>4
<1> QED
  BY <1>9, <1>10

----

-----------------------------------------------------------------------------
(* Ranks, and what they weigh.                                             *)

\* What a rank counts: the worst that counts, and the best.
Worst == 126024
Best  == 249984

\* The share of a rank that a search asks for, exactly.
LEMMA RankShares ==
    ASSUME NEW k \in 1..61
    PROVE  Scale \div (Damping + k) \in Worst..Best
<1> DEFINE d == 60 + k
           q == 15249024 \div d
<1>1. Scale = 15249024 /\ Damping + k = d
  BY SMT DEF Scale, Damping
<1>2. d \in Nat /\ d >= 61 /\ d <= 121
  BY SMT
<1> HIDE DEF d
<1>3. q \in Int /\ d * q <= 15249024 /\ 15249024 < d * (q + 1)
  BY <1>2, SMT
<1> HIDE DEF q
<1>4. q >= Worst
  <2> SUFFICES ASSUME q + 1 <= Worst
               PROVE  FALSE
    BY <1>3, SMT DEF Worst, Best
  <2>1. d * (q + 1) <= d * Worst
    BY <1>2, <1>3, SMT DEF Worst, Best
  <2>2. d * Worst <= 121 * Worst
    BY <1>2, SMT DEF Worst, Best
  <2> QED
    BY <1>2, <1>3, <2>1, <2>2, SMT DEF Worst, Best
<1>5. q <= Best
  <2> SUFFICES ASSUME q >= Best + 1
               PROVE  FALSE
    BY <1>3, SMT DEF Worst, Best
  <2>1. d * q >= d * (Best + 1)
    BY <1>2, <1>3, SMT DEF Worst, Best
  <2>2. d * (Best + 1) >= 61 * (Best + 1)
    BY <1>2, SMT DEF Worst, Best
  <2> QED
    BY <1>2, <1>3, <2>1, <2>2, SMT DEF Worst, Best
<1>6. q \in Worst..Best
  <2>1. q \in Int /\ Worst \in Int /\ Best \in Int
    BY <1>3, SMT DEF Worst, Best
  <2> QED
    BY <1>4, <1>5, <2>1
<1> QED
  BY <1>1, <1>6 DEF q

\* Two ranks count for more than any one.
LEMMA TwoShares == Worst \in Nat /\ Best \in Nat /\ Worst + Worst > Best
  BY SMT DEF Worst, Best

\* No more are asked for than the ranks of which any two count more than the first.
FewAreAsked == TopK <= Damping + 1

\* A chunk has a share of each list it is in.
LEMMA ShareFacts ==
    ASSUME NEW V, NEW list \in Seq(V), NEW c
    PROVE  /\ Share(list, c) \in Nat
           /\ FewAreAsked /\ Len(list) <= TopK /\ c \in ToSet(list) =>
                Share(list, c) \in Worst..Best
           /\ c \notin ToSet(list) => Share(list, c) = 0
<1>1. Len(list) \in Nat /\ DOMAIN list = 1..Len(list)
  BY LenProperties
<1>2. CASE c \notin ToSet(list)
  BY <1>2 DEF Share
<1>3. CASE c \in ToSet(list)
  <2>1. Rank(list, c) \in DOMAIN list
    BY <1>3 DEF ToSet, Rank
  <2> DEFINE r == Rank(list, c)
             q == Scale \div (Damping + r)
  <2>2. Share(list, c) = q
    BY <1>3 DEF Share
  <2>3. r \in Nat /\ r >= 1 /\ r <= Len(list)
    BY <1>1, <2>1
  <2> HIDE DEF r
  <2>4. FewAreAsked /\ Len(list) <= TopK => r \in 1..61
    <3>1. TopK \in Nat /\ (FewAreAsked => TopK <= 61)
      BY RetrievalConstants DEF RetrievalConstants, FewAreAsked, Damping
    <3> QED
      BY <1>1, <2>3, <3>1
  <2>5. q \in Nat
    <3>1. Damping + r \in Nat /\ Damping + r > 0 /\ Scale \in Nat
      BY <2>3 DEF Damping, Scale
    <3> HIDE DEF q
    <3>2. q = Scale \div (Damping + r)
      BY DEF q
    <3> QED
      BY <3>1, <3>2
  <2>6. FewAreAsked /\ Len(list) <= TopK => q \in Worst..Best
    BY <2>4, RankShares
  <2> QED
    BY <1>3, <2>2, <2>5, <2>6
<1> QED
  BY <1>2, <1>3

\* Two shares count for more than any one.
LEMMA WeightFacts ==
    ASSUME NEW V, NEW a \in Seq(V), NEW b \in Seq(V), NEW c
    PROVE  /\ Weight(a, b, c) \in Nat
           /\ FewAreAsked /\ Len(a) <= TopK /\ Len(b) <= TopK =>
                /\ c \in ToSet(a) /\ c \in ToSet(b) => Weight(a, b, c) > Best
                /\ c \notin ToSet(a) \/ c \notin ToSet(b) => Weight(a, b, c) <= Best
  BY ShareFacts, TwoShares DEF Weight

\* Chunks of V with their scores, each once; no more than were asked for.
Hits(V) == [chunk : V, score : Nat]
OnceEach(s, V) ==
    s \in Seq(Hits(V)) /\ \A i, j \in DOMAIN s : s[i].chunk = s[j].chunk => i = j
TakenFrom(t, s) == \A k \in DOMAIN t : \E j \in DOMAIN s : t[k] = s[j]
Fused(hits, V) == OnceEach(hits, V) /\ Len(hits) <= TopK

\* Cut to what was asked for, each chunk is there once still.
LEMMA CutKeeps ==
    ASSUME NEW V, NEW s, OnceEach(s, V)
    PROVE  Fused(First(s, TopK), V)
<1>1. TopK \in Nat
  BY RetrievalConstants DEF RetrievalConstants
<1>2. Len(s) \in Nat
  BY LenProperties DEF OnceEach
<1> QED
  <2>1. /\ First(s, TopK) \in Seq(Hits(V))
        /\ \A k \in DOMAIN First(s, TopK) : k \in DOMAIN s /\ First(s, TopK)[k] = s[k]
        /\ Len(First(s, TopK)) <= TopK
    BY <1>1, <1>2, FirstFacts DEF OnceEach
  <2> DEFINE t == First(s, TopK)
  <2> HIDE DEF t
  <2>2. OnceEach(t, V)
    BY <2>1 DEF t, OnceEach
  <2> QED
    BY <2>1, <2>2 DEF t, Fused

\* Sorted, each chunk is there once still.
LEMMA SortedKeeps ==
    ASSUME NEW V, NEW s, OnceEach(s, V)
    PROVE  /\ OnceEach(Sorted(s), V)
           /\ TakenFrom(Sorted(s), s)
           /\ Falling(Sorted(s))
<1> DEFINE t == Sorted(s)
<1>1. Len(s) \in Nat /\ DOMAIN s = 1..Len(s) /\ \A k \in DOMAIN s : s[k] \in Hits(V)
  BY LenProperties DEF OnceEach
<1>2. \A k \in DOMAIN s : s[k].score \in Int
  BY <1>1 DEF Hits
<1>3. Rearranged(t, s) /\ Falling(t)
  BY <1>2, SortedFacts DEF OnceEach
<1>4. DOMAIN t = DOMAIN s
  BY <1>3 DEF Rearranged
<1>5. PICK place \in [DOMAIN s -> DOMAIN s] :
         /\ \A k, l \in DOMAIN s : k # l => place[k] # place[l]
         /\ \A k \in DOMAIN s : t[k] = s[place[k]]
  BY <1>3 DEF Rearranged
<1>6. t = [k \in DOMAIN t |-> t[k]]
  BY DEF Sorted
<1> HIDE DEF t
<1>7. t \in [1..Len(s) -> Hits(V)]
  BY <1>1, <1>4, <1>5, <1>6
<1>8. t \in Seq(Hits(V))
  BY <1>1, <1>7, SeqDef
<1>9. \A i, j \in DOMAIN t : t[i].chunk = t[j].chunk => i = j
  BY <1>4, <1>5 DEF OnceEach
<1>10. TakenFrom(t, s)
  BY <1>4, <1>5 DEF TakenFrom
<1> QED
  BY <1>3, <1>8, <1>9, <1>10 DEF t, OnceEach

\* Of two lists with no more than were asked for, what both have comes first.
BothFirst(hits, a, b) ==
    FewAreAsked => \A i, j \in DOMAIN hits :
        /\ hits[i].chunk \in ToSet(a) /\ hits[i].chunk \in ToSet(b)
        /\ hits[j].chunk \notin ToSet(a) \/ hits[j].chunk \notin ToSet(b)
        => i < j

\* reciprocal_rank_fusion of two lists: each chunk once, those first that both lists have.
LEMMA FuseFacts ==
    ASSUME NEW V, NEW a \in Seq(V), NEW b \in Seq(V)
    PROVE  /\ Fused(Fuse(a, b), V)
           /\ Len(a) <= TopK /\ Len(b) <= TopK => BothFirst(Fuse(a, b), a, b)
<1> DEFINE met == Distinct(a \o b)
           scored == [k \in DOMAIN met |-> [chunk |-> met[k], score |-> Weight(a, b, met[k])]]
           sorted == Sorted(scored)
           hits == Fuse(a, b)
<1>1. met \in Seq(V) /\ IsInjective(met)
  <2>1. a \o b \in Seq(V)
    BY ConcatProperties
  <2> QED
    BY <2>1, DistinctOnce
<1> HIDE DEF met
<1>2. \A k \in DOMAIN met : met[k] \in V /\ Weight(a, b, met[k]) \in Nat
  BY <1>1, LenProperties, WeightFacts
<1>3. /\ scored \in Seq(Hits(V))
      /\ \A k \in DOMAIN scored : /\ k \in DOMAIN met /\ scored[k].chunk = met[k]
                                  /\ scored[k].score = Weight(a, b, met[k])
  <2>1. Len(met) \in Nat /\ DOMAIN met = 1..Len(met)
    BY <1>1, LenProperties
  <2>2. \A k \in DOMAIN met : [chunk |-> met[k], score |-> Weight(a, b, met[k])] \in Hits(V)
    BY <1>2 DEF Hits
  <2>3. scored \in [1..Len(met) -> Hits(V)]
    BY <2>1, <2>2
  <2> QED
    BY <2>1, <2>3, SeqDef
<1>4. OnceEach(scored, V)
  BY <1>1, <1>3 DEF IsInjective, OnceEach
<1>5. hits = First(sorted, TopK)
  <2>1. hits = First(Sorted(SubSeq(scored, 1, Len(scored))), TopK)
    BY DEF Fuse, met
  <2>2. SubSeq(scored, 1, Len(scored)) = scored
    <3> HIDE DEF scored
    <3> QED
      BY <1>3, SubSeqFull
  <2> HIDE DEF scored, hits
  <2> QED
    BY <2>1, <2>2
<1> HIDE DEF scored
<1>6. /\ OnceEach(sorted, V) /\ Falling(sorted)
      /\ TakenFrom(sorted, scored)
  <2>1. OnceEach(Sorted(scored), V)
    BY <1>4, SortedKeeps
  <2>2. Falling(Sorted(scored))
    BY <1>4, SortedKeeps
  <2>3. TakenFrom(Sorted(scored), scored)
    BY <1>4, SortedKeeps
  <2> QED
    BY <2>1, <2>2, <2>3
<1> HIDE DEF sorted
<1>7. Fused(hits, V)
  BY <1>5, <1>6, CutKeeps
<1>8. TopK \in Nat
  BY RetrievalConstants DEF RetrievalConstants
<1>9. \A k \in DOMAIN hits : k \in DOMAIN sorted /\ hits[k] = sorted[k]
  BY <1>5, <1>6, <1>8, FirstFacts DEF OnceEach
<1>10. \A k \in DOMAIN sorted : k \in Nat /\ sorted[k].score = Weight(a, b, sorted[k].chunk)
  BY <1>3, <1>6, LenProperties DEF OnceEach, TakenFrom
<1> HIDE DEF hits
<1>11. ASSUME Len(a) <= TopK, Len(b) <= TopK
       PROVE  BothFirst(hits, a, b)
  <2> SUFFICES ASSUME FewAreAsked, NEW i \in DOMAIN hits, NEW j \in DOMAIN hits,
                      hits[i].chunk \in ToSet(a), hits[i].chunk \in ToSet(b),
                      hits[j].chunk \notin ToSet(a) \/ hits[j].chunk \notin ToSet(b)
               PROVE  i < j
    BY DEF BothFirst
  <2> DEFINE c == hits[i].chunk
             d == hits[j].chunk
  <2>1. Weight(a, b, c) \in Nat /\ Weight(a, b, d) \in Nat /\ Weight(a, b, c) > Weight(a, b, d)
    <3>1. Weight(a, b, c) > Best /\ Weight(a, b, c) \in Nat
      BY <1>11, WeightFacts
    <3>2. Weight(a, b, d) <= Best /\ Weight(a, b, d) \in Nat
      BY <1>11, WeightFacts
    <3> QED
      BY <3>1, <3>2, TwoShares
  <2>2. /\ i \in DOMAIN sorted /\ j \in DOMAIN sorted /\ i \in Nat /\ j \in Nat
        /\ sorted[i].score = Weight(a, b, c) /\ sorted[j].score = Weight(a, b, d)
    BY <1>9, <1>10
  <2>3. j < i => sorted[j].score >= sorted[i].score
    BY <1>6, <2>2 DEF Falling
  <2>4. i # j
    BY <2>1
  <2> HIDE DEF c, d
  <2> QED
    BY <2>1, <2>2, <2>3, <2>4
<1> QED
  BY <1>7, <1>11 DEF hits

-----------------------------------------------------------------------------
(* The lists of a search (Retrieval).                                      *)

\* What a reader may be given of what was there, and what of it a source of evidence may give.
Given(sort, there) == {c \in there : Allowed(sort, c)}
Readable(sort, names, there) == {c \in there : Info[c].collection \in names /\ Allowed(sort, c)}
SourceOf(n) == CASE n = 1 -> {"code", "documentation"} [] n = 2 -> {"documentation"}
                 [] n = 3 -> {"conversations"}
Sourced(n, there) == {c \in Readable("evidence", SourceOf(n), there) : Mine(n, c)}

\* Elements of V, each once, no more than were asked for.
Listing(s, V) == s \in Seq(V) /\ IsInjective(s) /\ Len(s) <= TopK

\* As many places, as many elements.
LEMMA SameLength ==
    ASSUME NEW a \in Nat, NEW b \in Nat, 1..a = 1..b
    PROVE  a = b
<1>1. a # 0 => a \in 1..b
  <2>1. a # 0 => a \in 1..a
    OBVIOUS
  <2> QED
    BY <2>1
<1>2. b # 0 => b \in 1..a
  <2>1. b # 0 => b \in 1..b
    OBVIOUS
  <2> QED
    BY <2>1
<1>3. a # 0 => a <= b
  BY <1>1
<1>4. b # 0 => b <= a
  BY <1>2
<1> QED
  BY <1>3, <1>4

\* The chunks of hits are listed once, in the order of the hits.
LEMMA ChunksAreListed ==
    ASSUME NEW V, NEW hits, Fused(hits, V)
    PROVE  /\ Listing(ChunksOf(hits), V)
           /\ DOMAIN ChunksOf(hits) = DOMAIN hits
           /\ \A k \in DOMAIN hits : ChunksOf(hits)[k] = hits[k].chunk
           /\ Len(ChunksOf(hits)) = Len(hits)
<1> DEFINE s == ChunksOf(hits)
<1>1. Len(hits) \in Nat /\ DOMAIN hits = 1..Len(hits) /\ \A k \in DOMAIN hits : hits[k] \in Hits(V)
  BY LenProperties DEF Fused, OnceEach
<1>2. s = [k \in DOMAIN hits |-> hits[k].chunk]
  BY DEF ChunksOf
<1>3. \A k \in DOMAIN hits : hits[k].chunk \in V
  BY <1>1 DEF Hits
<1> HIDE DEF s
<1>4. s \in [1..Len(hits) -> V]
  BY <1>1, <1>2, <1>3
<1>5. s \in Seq(V)
  BY <1>1, <1>4, SeqDef
<1>6. Len(s) = Len(hits)
  <2>1. Len(s) \in Nat /\ DOMAIN s = 1..Len(s)
    BY <1>5, LenProperties
  <2>2. DOMAIN s = 1..Len(hits)
    BY <1>1, <1>2
  <2> QED
    BY <1>1, <2>1, <2>2, SameLength
<1>7. IsInjective(s)
  BY <1>2 DEF Fused, OnceEach, IsInjective
<1>8. Len(s) <= TopK
  BY <1>6 DEF Fused
<1> QED
  BY <1>2, <1>5, <1>6, <1>7, <1>8 DEF Listing, s

\* What is kept of hits, where it is of W.
LEMMA KeptHits ==
    ASSUME NEW V, NEW W, NEW s, OnceEach(s, V), NEW places \in SUBSET DOMAIN s,
           \A i \in places : s[i].chunk \in W
    PROVE  OnceEach(Kept(s, places), W)
<1> DEFINE t == Kept(s, places)
<1>1. places \in SUBSET Nat /\ IsFiniteSet(places)
  BY PlacesAreFinite DEF OnceEach
<1>2. \A i \in places : s[i] \in Hits(W)
  <2> TAKE i \in places
  <2>1. s[i] \in Hits(V)
    BY LenProperties DEF OnceEach
  <2> QED
    BY <2>1 DEF Hits
<1>3. t \in Seq(Hits(W))
  BY <1>1, <1>2, KeptIsSequence
<1>4. IsInjective(t)
  <2>1. \A i, j \in places : s[i] = s[j] => i = j
    BY DEF OnceEach
  <2> QED
    BY <1>1, <2>1, KeptOnce
<1>5. \A k \in DOMAIN t : \E i \in places : t[k] = s[i]
  BY <1>1, KeptElements DEF Keeps
<1> HIDE DEF t
<1>6. \A i, j \in DOMAIN t : t[i].chunk = t[j].chunk => i = j
  <2> SUFFICES ASSUME NEW i \in DOMAIN t, NEW j \in DOMAIN t, t[i].chunk = t[j].chunk
               PROVE  i = j
    OBVIOUS
  <2>1. PICK a \in places : t[i] = s[a]
    BY <1>5
  <2>2. PICK b \in places : t[j] = s[b]
    BY <1>5
  <2>3. a = b
    BY <2>1, <2>2 DEF OnceEach
  <2> QED
    BY <1>4, <2>1, <2>2, <2>3 DEF IsInjective
<1> QED
  BY <1>3, <1>6 DEF t, OnceEach

\* Hits of two collections, one after the other.
LEMMA HitsJoined ==
    ASSUME NEW V, NEW W, V \cap W = {}, NEW a, Fused(a, V), NEW b, Fused(b, W)
    PROVE  OnceEach(a \o b, V \cup W)
<1> DEFINE U == V \cup W
           t == a \o b
           m == Len(a)
           n == Len(b)
<1>1. a \in Seq(Hits(U)) /\ b \in Seq(Hits(U))
  <2>1. Hits(V) \subseteq Hits(U) /\ Hits(W) \subseteq Hits(U)
    BY DEF Hits
  <2>2. a \in Seq(Hits(V)) /\ b \in Seq(Hits(W))
    BY DEF Fused, OnceEach
  <2> HIDE DEF U
  <2>3. Len(a) \in Nat /\ a \in [1..Len(a) -> Hits(U)] /\ Len(b) \in Nat /\ b \in [1..Len(b) -> Hits(U)]
    BY <2>1, <2>2, LenProperties
  <2> QED
    BY <2>3, SeqDef
<1>2. /\ m \in Nat /\ DOMAIN a = 1..m /\ n \in Nat /\ DOMAIN b = 1..n
      /\ \A k \in 1..m : a[k].chunk \in V
      /\ \A k \in 1..n : b[k].chunk \in W
  <2>1. a \in Seq(Hits(V)) /\ b \in Seq(Hits(W))
    BY DEF Fused, OnceEach
  <2>2. /\ m \in Nat /\ DOMAIN a = 1..m /\ a \in [1..m -> Hits(V)]
        /\ n \in Nat /\ DOMAIN b = 1..n /\ b \in [1..n -> Hits(W)]
    BY <2>1, LenProperties
  <2> HIDE DEF m, n
  <2>3. (\A k \in 1..m : a[k] \in Hits(V)) /\ (\A k \in 1..n : b[k] \in Hits(W))
    BY <2>2
  <2> QED
    BY <2>2, <2>3 DEF Hits
<1> HIDE DEF U
<1>3. /\ t \in Seq(Hits(U)) /\ Len(t) = m + n
      /\ \A i \in 1..(m + n) : t[i] = IF i <= m THEN a[i] ELSE b[i - m]
  BY <1>1, ConcatProperties
<1>4. DOMAIN t = 1..(m + n)
  BY <1>3, LenProperties
<1>5. /\ \A i, j \in 1..m : a[i].chunk = a[j].chunk => i = j
      /\ \A i, j \in 1..n : b[i].chunk = b[j].chunk => i = j
  BY <1>2 DEF Fused, OnceEach
<1> HIDE DEF t, m, n
<1>6. \A i, j \in DOMAIN t : t[i].chunk = t[j].chunk => i = j
  <2> SUFFICES ASSUME NEW i \in 1..(m + n), NEW j \in 1..(m + n), t[i].chunk = t[j].chunk
               PROVE  i = j
    BY <1>4
  <2>1. CASE i <= m /\ j <= m
    <3>1. i \in 1..m /\ j \in 1..m /\ t[i] = a[i] /\ t[j] = a[j]
      BY <1>2, <1>3, <2>1
    <3> QED
      BY <1>5, <3>1
  <2>2. CASE i > m /\ j > m
    <3>1. i - m \in 1..n /\ j - m \in 1..n /\ t[i] = b[i - m] /\ t[j] = b[j - m]
      BY <1>2, <1>3, <2>2
    <3>2. i - m = j - m
      BY <1>5, <3>1
    <3> QED
      BY <1>2, <3>2
  <2>3. CASE i <= m /\ j > m
    <3>1. i \in 1..m /\ j - m \in 1..n /\ t[i] = a[i] /\ t[j] = b[j - m]
      BY <1>2, <1>3, <2>3
    <3> QED
      BY <1>2, <3>1
  <2>4. CASE i > m /\ j <= m
    <3>1. j \in 1..m /\ i - m \in 1..n /\ t[j] = a[j] /\ t[i] = b[i - m]
      BY <1>2, <1>3, <2>4
    <3> QED
      BY <1>2, <3>1
  <2> QED
    BY <1>2, <2>1, <2>2, <2>3, <2>4
<1> QED
  BY <1>3, <1>6 DEF t, U, OnceEach

-----------------------------------------------------------------------------
(* Evidence, source by source.                                             *)

Origins == {"github", "runbook", "slack", "postmortem", "live"}
Things == Chunks \cup Incidents \cup Nat
EvidenceItems == [source : Origins, what : Things]
Priority(source) == Rank(SourceNames, source)

\* The sources and their priorities.
LEMMA SourceFacts ==
    /\ DOMAIN SourceNames = 1..5
    /\ SourceNames[1] = "github" /\ SourceNames[2] = "runbook" /\ SourceNames[3] = "slack"
    /\ SourceNames[4] = "postmortem" /\ SourceNames[5] = "live"
    /\ \A p \in 1..5 : SourceNames[p] \in Origins /\ Priority(SourceNames[p]) = p
    /\ \A source \in Origins : \E p \in 1..5 : source = SourceNames[p]
    /\ \A p, q \in 1..5 : SourceNames[p] = SourceNames[q] => p = q
<1>1. DOMAIN SourceNames = 1..5
  BY DEF SourceNames
<1>2. /\ SourceNames[1] = "github" /\ SourceNames[2] = "runbook" /\ SourceNames[3] = "slack"
      /\ SourceNames[4] = "postmortem" /\ SourceNames[5] = "live"
  BY DEF SourceNames
<1>3. \A p \in 1..5 : p = 1 \/ p = 2 \/ p = 3 \/ p = 4 \/ p = 5
  OBVIOUS
<1>4. \A p, q \in 1..5 : SourceNames[p] = SourceNames[q] => p = q
  BY <1>2, <1>3
<1>5. \A p \in 1..5 : SourceNames[p] \in Origins
  BY <1>2, <1>3 DEF Origins
<1>6. \A source \in Origins : \E p \in 1..5 : source = SourceNames[p]
  <2>1. 1 \in 1..5 /\ 2 \in 1..5 /\ 3 \in 1..5 /\ 4 \in 1..5 /\ 5 \in 1..5
    OBVIOUS
  <2> QED
    BY <1>2, <2>1 DEF Origins
<1>7. \A p \in 1..5 : Priority(SourceNames[p]) = p
  BY <1>1, <1>4 DEF Priority, Rank
<1> QED
  BY <1>1, <1>2, <1>4, <1>5, <1>6, <1>7

\* What a list of evidence promises, of what was there.
Sound(e, there) ==
    /\ e \in Seq(EvidenceItems)
    /\ \A k \in DOMAIN e : \A n \in 1..3 :
         e[k].source = SourceNames[n] => e[k].what \in Sourced(n, there)
    /\ \A k \in DOMAIN e : e[k].source = "postmortem" => e[k].what \in Incidents
    /\ \A j, k \in DOMAIN e : j < k => Priority(e[j].source) <= Priority(e[k].source)
    /\ \A j, k \in DOMAIN e :
         j < k /\ e[j].source = e[k].source /\ e[j].source # "live" => e[j].what # e[k].what
    /\ \A j, k \in DOMAIN e :
         j < k /\ e[j].source = "runbook" /\ e[k].source = "postmortem" =>
             Info[e[j].what].incident # e[k].what

\* No evidence is sound.
LEMMA NothingIsSound == \A there : Sound(<<>>, there)
<1>1. <<>> \in Seq(EvidenceItems) /\ DOMAIN <<>> = {}
  OBVIOUS
<1> QED
  BY <1>1 DEF Sound

\* What is sound is when it is cut.
LEMMA FirstIsSound ==
    ASSUME NEW e, NEW there, Sound(e, there), NEW n \in Nat
    PROVE  Sound(First(e, n), there)
<1> DEFINE t == First(e, n)
<1>1. e \in Seq(EvidenceItems)
  BY DEF Sound
<1>2. t \in Seq(EvidenceItems) /\ \A k \in DOMAIN t : k \in DOMAIN e /\ t[k] = e[k]
  BY <1>1, FirstFacts
<1> HIDE DEF t
<1> QED
  BY <1>2 DEF Sound, t

\* What is sound stays when more was there.
LEMMA SoundStays ==
    ASSUME NEW e, NEW there, NEW later, there \subseteq later, Sound(e, there)
    PROVE  Sound(e, later)
<1>1. \A n \in 1..3 : Sourced(n, there) \subseteq Sourced(n, later)
  BY DEF Sourced, Readable
<1> QED
  BY <1>1 DEF Sound

\* What the source of priority p may add to e.
ToldBy(e) == {Info[e[j].what].incident : j \in {i \in DOMAIN e : e[i].source = "runbook"}}
Offered(s, p, e, there) ==
    /\ s \in Seq(Things)
    /\ p <= 3 => \A k \in DOMAIN s : s[k] \in Sourced(p, there)
    /\ p = 4 => \A k \in DOMAIN s : s[k] \in Incidents \ ToldBy(e)
    /\ p # 5 => IsInjective(s)

\* Pieces of a source.
LEMMA ItemsFacts ==
    ASSUME NEW p \in 1..5, NEW s \in Seq(Things)
    PROVE  /\ Items(SourceNames[p], s) \in Seq(EvidenceItems)
           /\ Len(Items(SourceNames[p], s)) = Len(s)
           /\ \A k \in DOMAIN s : /\ Items(SourceNames[p], s)[k].source = SourceNames[p]
                                  /\ Items(SourceNames[p], s)[k].what = s[k]
<1> DEFINE t == Items(SourceNames[p], s)
<1>1. Len(s) \in Nat /\ DOMAIN s = 1..Len(s) /\ \A k \in DOMAIN s : s[k] \in Things
  BY LenProperties
<1>2. SourceNames[p] \in Origins
  BY SourceFacts
<1>3. t = [k \in DOMAIN s |-> [source |-> SourceNames[p], what |-> s[k]]]
  BY DEF Items
<1>4. \A k \in DOMAIN s : [source |-> SourceNames[p], what |-> s[k]] \in EvidenceItems
  BY <1>1, <1>2 DEF EvidenceItems
<1> HIDE DEF t
<1>5. t \in [1..Len(s) -> EvidenceItems]
  BY <1>1, <1>3, <1>4
<1>6. t \in Seq(EvidenceItems)
  BY <1>1, <1>5, SeqDef
<1>7. Len(t) = Len(s)
  <2>1. Len(t) \in Nat /\ DOMAIN t = 1..Len(t)
    BY <1>6, LenProperties
  <2>2. DOMAIN t = 1..Len(s)
    BY <1>5
  <2> QED
    BY <1>1, <2>1, <2>2, SameLength
<1>8. \A k \in DOMAIN s : t[k].source = SourceNames[p] /\ t[k].what = s[k]
  BY <1>3
<1> QED
  BY <1>6, <1>7, <1>8 DEF t

\* Evidence of a source of lower priority may follow what there is.
LEMMA AddedIsSound ==
    ASSUME NEW e, NEW there, Sound(e, there), NEW p \in 1..5,
           \A k \in DOMAIN e : Priority(e[k].source) < p,
           NEW s, Offered(s, p, e, there)
    PROVE  /\ Sound(e \o Items(SourceNames[p], s), there)
           /\ \A k \in DOMAIN (e \o Items(SourceNames[p], s)) :
                Priority((e \o Items(SourceNames[p], s))[k].source) <= p
<1> DEFINE items == Items(SourceNames[p], s)
           t == e \o items
           m == Len(e)
           n == Len(s)
           name == SourceNames[p]
<1>1. s \in Seq(Things) /\ e \in Seq(EvidenceItems)
  BY DEF Offered, Sound
<1>2. /\ items \in Seq(EvidenceItems) /\ Len(items) = n
      /\ \A k \in DOMAIN s : items[k].source = name /\ items[k].what = s[k]
  BY <1>1, ItemsFacts
<1>3. m \in Nat /\ n \in Nat /\ DOMAIN e = 1..m /\ DOMAIN s = 1..n
  BY <1>1, LenProperties
<1> HIDE DEF items
<1>4. /\ t \in Seq(EvidenceItems) /\ Len(t) = m + n
      /\ \A i \in 1..(m + n) : t[i] = IF i <= m THEN e[i] ELSE items[i - m]
  <2>1. e \in Seq(EvidenceItems) /\ items \in Seq(EvidenceItems)
    BY <1>1, <1>2
  <2>2. /\ e \o items \in Seq(EvidenceItems) /\ Len(e \o items) = Len(e) + Len(items)
        /\ \A i \in 1..(Len(e) + Len(items)) :
             (e \o items)[i] = IF i <= Len(e) THEN e[i] ELSE items[i - Len(e)]
    BY <2>1, ConcatProperties
  <2> QED
    BY <1>2, <2>2
<1>5. DOMAIN t = 1..(m + n)
  BY <1>4, LenProperties
<1>6. name \in Origins /\ Priority(name) = p /\ p \in Nat
  BY SourceFacts
<1>7. \A q \in 1..5 : name = SourceNames[q] => q = p
  BY SourceFacts
<1> HIDE DEF t, m, n, name
<1>8. \A i \in DOMAIN t : i \in Nat /\ i <= m => i \in DOMAIN e /\ t[i] = e[i]
  BY <1>3, <1>4, <1>5
<1>9. \A i \in DOMAIN t : i > m =>
          i - m \in DOMAIN s /\ t[i].source = name /\ t[i].what = s[i - m]
  <2> SUFFICES ASSUME NEW i \in 1..(m + n), i > m
               PROVE  i - m \in 1..n /\ t[i].source = name /\ t[i].what = s[i - m]
    BY <1>3, <1>5
  <2>1. i - m \in 1..n /\ t[i] = items[i - m]
    BY <1>3, <1>4
  <2> QED
    BY <1>2, <1>3, <2>1
<1>10. \A i \in DOMAIN t : i \in Nat /\ (i <= m \/ i > m)
  BY <1>3, <1>5
<1>11. \A q \in 1..3 : q \in 1..5
  OBVIOUS
<1>12. \A k \in DOMAIN t : \A q \in 1..3 :
          t[k].source = SourceNames[q] => t[k].what \in Sourced(q, there)
  <2> SUFFICES ASSUME NEW k \in DOMAIN t, NEW q \in 1..3, t[k].source = SourceNames[q]
               PROVE  t[k].what \in Sourced(q, there)
    OBVIOUS
  <2>1. CASE k <= m
    BY <1>8, <1>10, <2>1 DEF Sound
  <2>2. CASE k > m
    <3>1. q = p /\ q <= 3
      BY <1>7, <1>9, <1>11, <2>2
    <3> QED
      BY <1>9, <2>2, <3>1 DEF Offered
  <2> QED
    BY <1>10, <2>1, <2>2
<1>13. \A k \in DOMAIN t : t[k].source = "postmortem" => t[k].what \in Incidents
  <2> SUFFICES ASSUME NEW k \in DOMAIN t, t[k].source = "postmortem"
               PROVE  t[k].what \in Incidents
    OBVIOUS
  <2>1. CASE k <= m
    BY <1>8, <1>10, <2>1 DEF Sound
  <2>2. CASE k > m
    <3>1. p = 4
      BY <1>7, <1>9, <2>2, SourceFacts
    <3> QED
      BY <1>9, <2>2, <3>1 DEF Offered
  <2> QED
    BY <1>10, <2>1, <2>2
<1>14. \A k \in DOMAIN t : Priority(t[k].source) \in Nat /\ Priority(t[k].source) <= p
  <2> TAKE k \in DOMAIN t
  <2>1. CASE k <= m
    <3>1. k \in DOMAIN e /\ t[k] = e[k]
      BY <1>8, <1>10, <2>1
    <3>2. e[k].source \in Origins
      <4>1. e[k] \in EvidenceItems
        BY <1>1, <3>1, LenProperties
      <4> QED
        BY <4>1 DEF EvidenceItems
    <3>3. Priority(e[k].source) \in 1..5
      BY <3>2, SourceFacts
    <3>4. Priority(e[k].source) < p
      BY <3>1
    <3> QED
      BY <3>1, <3>3, <3>4
  <2>2. CASE k > m
    BY <1>6, <1>9, <2>2
  <2> QED
    BY <1>10, <2>1, <2>2
<1>15. \A j, k \in DOMAIN t : j < k =>
         /\ Priority(t[j].source) <= Priority(t[k].source)
         /\ t[j].source = t[k].source /\ t[j].source # "live" => t[j].what # t[k].what
         /\ t[j].source = "runbook" /\ t[k].source = "postmortem" =>
                Info[t[j].what].incident # t[k].what
  <2> SUFFICES ASSUME NEW j \in DOMAIN t, NEW k \in DOMAIN t, j < k
               PROVE  /\ Priority(t[j].source) <= Priority(t[k].source)
                      /\ t[j].source = t[k].source /\ t[j].source # "live" => t[j].what # t[k].what
                      /\ t[j].source = "runbook" /\ t[k].source = "postmortem" =>
                             Info[t[j].what].incident # t[k].what
    OBVIOUS
  <2>1. CASE k <= m
    <3>1. j <= m
      BY <1>3, <1>10, <2>1
    <3>2. j \in DOMAIN e /\ k \in DOMAIN e /\ t[j] = e[j] /\ t[k] = e[k]
      BY <1>8, <1>10, <2>1, <3>1
    <3> QED
      BY <3>2 DEF Sound
  <2>2. CASE k > m /\ j <= m
    <3>1. j \in DOMAIN e /\ t[j] = e[j]
      BY <1>8, <1>10, <2>2
    <3>2. t[k].source = name /\ k - m \in DOMAIN s /\ t[k].what = s[k - m]
      BY <1>9, <2>2
    <3>3. Priority(t[j].source) < p
      BY <3>1
    <3>4. Priority(t[j].source) \in Nat /\ Priority(t[j].source) <= p
      BY <1>14
    <3>5. Priority(t[j].source) <= Priority(t[k].source) /\ t[j].source # t[k].source
      BY <1>6, <3>2, <3>3, <3>4
    <3>6. ASSUME t[j].source = "runbook", t[k].source = "postmortem"
          PROVE  Info[t[j].what].incident # t[k].what
      <4>1. p = 4
        BY <1>7, <3>2, <3>6, SourceFacts
      <4>2. t[k].what \notin ToldBy(e)
        BY <3>2, <4>1 DEF Offered
      <4>3. Info[e[j].what].incident \in ToldBy(e)
        BY <3>1, <3>6 DEF ToldBy
      <4> QED
        BY <3>1, <4>2, <4>3
    <3> QED
      BY <3>5, <3>6
  <2>3. CASE j > m
    <3>1. k > m
      BY <1>3, <1>10, <2>3
    <3>2. /\ t[j].source = name /\ j - m \in DOMAIN s /\ t[j].what = s[j - m]
          /\ t[k].source = name /\ k - m \in DOMAIN s /\ t[k].what = s[k - m]
      BY <1>9, <2>3, <3>1
    <3>3. j - m # k - m
      BY <1>3, <1>10
    <3>4. name # "live" => s[j - m] # s[k - m]
      <4>1. name # "live" => p # 5
        BY SourceFacts DEF name
      <4> QED
        BY <3>2, <3>3, <4>1 DEF Offered, IsInjective
    <3>5. Priority(name) <= Priority(name)
      BY <1>6
    <3>6. ~(name = "runbook" /\ name = "postmortem")
      OBVIOUS
    <3> QED
      BY <3>2, <3>4, <3>5, <3>6
  <2> QED
    BY <1>10, <2>1, <2>2, <2>3
<1>16. Sound(t, there)
  BY <1>4, <1>12, <1>13, <1>15 DEF Sound
<1> QED
  BY <1>14, <1>16 DEF t, items

\* No chunk is of two sources: documentation of repositories is not of the runbooks.
LEMMA SourcedApart ==
    ASSUME NEW there, NEW p \in 1..3, NEW q \in 1..3, p # q
    PROVE  Sourced(p, there) \cap Sourced(q, there) = {}
<1>1. \A c \in Sourced(1, there) :
          /\ Info[c].collection \in {"code", "documentation"}
          /\ Info[c].collection = "code" \/ Info[c].repo
  BY DEF Sourced, Readable, SourceOf, Mine
<1>2. \A c \in Sourced(2, there) : Info[c].collection = "documentation" /\ ~Info[c].repo
  BY DEF Sourced, Readable, SourceOf, Mine
<1>3. \A c \in Sourced(3, there) : Info[c].collection = "conversations"
  BY DEF Sourced, Readable, SourceOf
<1>4. Sourced(1, there) \cap Sourced(2, there) = {}
  BY <1>1, <1>2
<1>5. Sourced(1, there) \cap Sourced(3, there) = {}
  BY <1>1, <1>3
<1>6. Sourced(2, there) \cap Sourced(3, there) = {}
  BY <1>2, <1>3
<1>7. \A i \in 1..3 : i = 1 \/ i = 2 \/ i = 3
  OBVIOUS
<1> QED
  BY <1>4, <1>5, <1>6, <1>7

\* What is sound is distinct, and may be given.
LEMMA SoundIsDistinct ==
    ASSUME present \in SUBSET Chunks, Sound(search.evidence, present),
           search.stage = "done" => Len(search.evidence) <= MaxEvidence
    PROVE  EvidenceIsDistinct
<1> DEFINE e == search.evidence
<1>1. e \in Seq(EvidenceItems)
  BY DEF Sound
<1>2. \A k \in DOMAIN e : \E p \in 1..5 : e[k].source = SourceNames[p]
  <2> TAKE k \in DOMAIN e
  <2>1. e[k] \in EvidenceItems
    BY <1>1, LenProperties
  <2> QED
    BY <2>1, SourceFacts DEF EvidenceItems
<1>3. \A k \in DOMAIN e : \A n \in 1..3 :
         e[k].source = SourceNames[n] => e[k].what \in Sourced(n, present)
  BY DEF Sound
<1>4. \A k \in DOMAIN e : e[k].source = "postmortem" => e[k].what \in Incidents
  BY DEF Sound
<1>5. \A n \in 1..3 : \A c \in Sourced(n, present) : c \in present /\ Allowed("evidence", c)
  BY DEF Sourced, Readable
<1>6. 1 \in 1..3 /\ 2 \in 1..3 /\ 3 \in 1..3
  OBVIOUS
<1>7. \A p \in 1..5 : p \in 1..3 \/ p = 4 \/ p = 5
  OBVIOUS
<1>8. \A j, k \in DOMAIN e : j < k =>
         /\ Priority(e[j].source) <= Priority(e[k].source)
         /\ e[j].source = e[k].source /\ e[j].source # "live" => e[j].what # e[k].what
         /\ e[j].source = "runbook" /\ e[k].source = "postmortem" =>
                Info[e[j].what].incident # e[k].what
  BY DEF Sound
<1>9. \A k \in DOMAIN e : e[k].source \in {"github", "runbook", "slack"} =>
          e[k].what \in present /\ Allowed("evidence", e[k].what)
  <2> TAKE k \in DOMAIN e
  <2>1. e[k].source \in {"github", "runbook", "slack"} => \E n \in 1..3 : e[k].source = SourceNames[n]
    BY <1>6, SourceFacts
  <2> QED
    BY <1>3, <1>5, <2>1
<1>10. \A j, k \in DOMAIN e :
          e[j].source # e[k].source /\ "live" \notin {e[j].source, e[k].source} =>
              e[j].what # e[k].what
  <2> SUFFICES ASSUME NEW j \in DOMAIN e, NEW k \in DOMAIN e, e[j].source # e[k].source,
                      e[j].source # "live", e[k].source # "live", e[j].what = e[k].what
               PROVE  FALSE
    BY Zenon
  <2>1. PICK p \in 1..5 : e[j].source = SourceNames[p]
    BY <1>2
  <2>2. PICK q \in 1..5 : e[k].source = SourceNames[q]
    BY <1>2
  <2>3. p # q /\ (p \in 1..3 \/ p = 4) /\ (q \in 1..3 \/ q = 4)
    BY <1>7, <2>1, <2>2, SourceFacts
  <2>4. p \in 1..3 => e[j].what \in Sourced(p, present) /\ e[j].what \in Chunks
    BY <1>3, <1>5, <2>1
  <2>5. q \in 1..3 => e[k].what \in Sourced(q, present) /\ e[k].what \in Chunks
    BY <1>3, <1>5, <2>2
  <2>6. (p = 4 => e[j].what \in Incidents) /\ (q = 4 => e[k].what \in Incidents)
    BY <1>4, <2>1, <2>2, SourceFacts
  <2>7. Chunks \cap Incidents = {}
    BY RetrievalConstants DEF RetrievalConstants
  <2>8. CASE p \in 1..3 /\ q \in 1..3
    BY <2>3, <2>4, <2>5, <2>8, SourcedApart
  <2>9. CASE p = 4 \/ q = 4
    BY <2>3, <2>4, <2>5, <2>6, <2>7, <2>9
  <2> QED
    BY <2>3, <2>8, <2>9
<1> HIDE DEF e
<1>11. \A j, k \in DOMAIN e : j < k =>
         /\ Rank(SourceNames, e[j].source) <= Rank(SourceNames, e[k].source)
         /\ "live" \notin {e[j].source, e[k].source} => e[j].what # e[k].what
         /\ e[j].source = "runbook" /\ e[k].source = "postmortem" =>
                Info[e[j].what].incident # e[k].what
  BY <1>8, <1>10 DEF Priority
<1> QED
  BY <1>9, <1>11 DEF EvidenceIsDistinct, e

----
\* The statements of a search.
Asked(sort, n, k) == Searches(sort)[n][(k - 1) \div 2 + 1]
Many(sort, n) == Len(Searches(sort)[n])

\* The statements of each kind of search, source by source.
LEMMA SearchesAre ==
    /\ Searches("question")[1] = <<Collections>>
    /\ Searches("incidents")[1] = << {"incidents"} >>
    /\ Searches("changes")[1] = << {"documentation"}, {"code"} >>
    /\ Searches("evidence")[1] = << {"code"}, {"documentation"} >>
    /\ Searches("evidence")[2] = << {"documentation"} >>
    /\ Searches("evidence")[3] = << {"conversations"} >>
<1>1. Searches("question") = << <<Collections>> >>
  BY DEF Searches
<1>2. Searches("incidents") = << << {"incidents"} >> >>
  BY DEF Searches
<1>3. Searches("changes") = << << {"documentation"}, {"code"} >> >>
  BY DEF Searches
<1>4. Searches("evidence") =
        << << {"code"}, {"documentation"} >>, << {"documentation"} >>, << {"conversations"} >> >>
  BY DEF Searches
<1> QED
  BY <1>1, <1>2, <1>3, <1>4

\* How many collections a source asks.
LEMMA HowMany ==
    /\ Many("question", 1) = 1 /\ Many("incidents", 1) = 1 /\ Many("changes", 1) = 2
    /\ Many("evidence", 1) = 2 /\ Many("evidence", 2) = 1 /\ Many("evidence", 3) = 1
  BY SearchesAre DEF Many

\* Two statements, one pair of lists.
LEMMA Halves == /\ (1 - 1) \div 2 + 1 = 1 /\ (2 - 1) \div 2 + 1 = 1
                /\ (3 - 1) \div 2 + 1 = 2 /\ (4 - 1) \div 2 + 1 = 2
  BY SMT

\* What each statement of an investigation reads.
LEMMA AskedOfEvidence ==
    /\ Asked("evidence", 1, 1) = {"code"} /\ Asked("evidence", 1, 2) = {"code"}
    /\ Asked("evidence", 1, 3) = {"documentation"} /\ Asked("evidence", 1, 4) = {"documentation"}
    /\ Asked("evidence", 2, 1) = {"documentation"} /\ Asked("evidence", 2, 2) = {"documentation"}
    /\ Asked("evidence", 3, 1) = {"conversations"} /\ Asked("evidence", 3, 2) = {"conversations"}
<1>1. /\ << {"code"}, {"documentation"} >>[1] = {"code"}
      /\ << {"code"}, {"documentation"} >>[2] = {"documentation"}
      /\ << {"documentation"} >>[1] = {"documentation"}
      /\ << {"conversations"} >>[1] = {"conversations"}
  OBVIOUS
<1>2. Asked("evidence", 1, 1) = Searches("evidence")[1][1] /\ Asked("evidence", 1, 2) = Searches("evidence")[1][1]
  BY Halves DEF Asked
<1>3. Asked("evidence", 1, 3) = Searches("evidence")[1][2] /\ Asked("evidence", 1, 4) = Searches("evidence")[1][2]
  BY Halves DEF Asked
<1>4. Asked("evidence", 2, 1) = Searches("evidence")[2][1] /\ Asked("evidence", 2, 2) = Searches("evidence")[2][1]
  BY Halves DEF Asked
<1>5. Asked("evidence", 3, 1) = Searches("evidence")[3][1] /\ Asked("evidence", 3, 2) = Searches("evidence")[3][1]
  BY Halves DEF Asked
<1> QED
  BY <1>1, <1>2, <1>3, <1>4, <1>5, SearchesAre

\* Lists come in pairs.
LEMMA PairsFacts ==
    ASSUME NEW m \in {1, 2}, Len(search.lists) = 2 * m
    PROVE  /\ Pairs[1] = Fuse(search.lists[1], search.lists[2])
           /\ m = 2 => Pairs[2] = Fuse(search.lists[3], search.lists[4])
<1>1. Len(search.lists) \div 2 = m
  <2>1. (2 * 1) \div 2 = 1 /\ (2 * 2) \div 2 = 2
    BY SMT
  <2> QED
    BY <2>1
<1>2. Pairs = [k \in 1..m |-> Fuse(search.lists[2 * k - 1], search.lists[2 * k])]
  BY <1>1 DEF Pairs
<1>3. 1 \in 1..m /\ (m = 2 => 2 \in 1..m)
  OBVIOUS
<1>4. 2 * 1 - 1 = 1 /\ 2 * 1 = 2 /\ 2 * 2 - 1 = 3 /\ 2 * 2 = 4
  OBVIOUS
<1>5. Pairs[1] = Fuse(search.lists[2 * 1 - 1], search.lists[2 * 1])
  BY <1>2, <1>3
<1>6. m = 2 => Pairs[2] = Fuse(search.lists[2 * 2 - 1], search.lists[2 * 2])
  BY <1>2, <1>3
<1> QED
  BY <1>4, <1>5, <1>6

ListSeqs  == Seq(Seq(Chunks))

\* The statements of the source n gave what may be given of its collections.
ListsAre(lists, sort, n, there) ==
    /\ Len(lists) <= 2 * Many(sort, n)
    /\ \A k \in DOMAIN lists : Listing(lists[k], Readable(sort, Asked(sort, n, k), there))

\* The results of a source of evidence.
GatheredFrom(n) ==
    \E s : Gathered(n) = Items(SourceNames[n], s) /\ Listing(s, Sourced(n, present))

\* A listing of a set is one of a larger set.
LEMMA ListingGrows ==
    ASSUME NEW V, NEW W, V \subseteq W, NEW s, Listing(s, V)
    PROVE  Listing(s, W)
<1>1. Len(s) \in Nat /\ s \in [1..Len(s) -> V]
  BY LenProperties DEF Listing
<1>2. s \in [1..Len(s) -> W]
  BY <1>1
<1>3. s \in Seq(W)
  BY <1>1, <1>2, SeqDef
<1> QED
  BY <1>3 DEF Listing

\* Fused listings of readable chunks.
LEMMA FusedOfListings ==
    ASSUME NEW V, NEW a, NEW b, Listing(a, V), Listing(b, V)
    PROVE  Fused(Fuse(a, b), V) /\ BothFirst(Fuse(a, b), a, b)
  BY FuseFacts DEF Listing

\* What a source of evidence gave, it may give.
LEMMA GatheredIsEvidence ==
    ASSUME NEW n \in 1..3, search.lists \in ListSeqs, Len(search.lists) = 2 * Many("evidence", n),
           ListsAre(search.lists, "evidence", n, present)
    PROVE  GatheredFrom(n)
<1> DEFINE lists == search.lists
           of(k) == Readable("evidence", Asked("evidence", n, k), present)
           all  == IF n = 1 THEN Pairs[1] \o Pairs[2] ELSE Pairs[1]
           mine == Kept(all, {k \in DOMAIN all : Mine(n, all[k].chunk)})
           V == IF n = 1 THEN Readable("evidence", {"code"}, present) \cup
                              Readable("evidence", {"documentation"}, present)
                ELSE Readable("evidence", SourceOf(n), present)
           W == Sourced(n, present)
<1>1. n = 1 \/ n = 2 \/ n = 3
  OBVIOUS
<1>2. \A m \in Nat : Len(lists) = m => \A k \in 1..m : Listing(lists[k], of(k))
  BY LenProperties DEF ListsAre, ListSeqs
<1>3. OnceEach(all, V)
  <2>1. CASE n = 1
    <3> DEFINE a == Readable("evidence", {"code"}, present)
               b == Readable("evidence", {"documentation"}, present)
    <3>1. Len(lists) = 2 * 2 /\ 2 * 2 = 4
      BY <2>1, HowMany
    <3>2. 1 \in 1..4 /\ 2 \in 1..4 /\ 3 \in 1..4 /\ 4 \in 1..4
      OBVIOUS
    <3>3. /\ Listing(lists[1], of(1)) /\ Listing(lists[2], of(2))
          /\ Listing(lists[3], of(3)) /\ Listing(lists[4], of(4))
      <4>1. Len(lists) = 4
        BY <3>1
      <4> HIDE DEF lists, of
      <4> QED
        BY <1>2, <3>2, <4>1
    <3>4. of(1) = a /\ of(2) = a /\ of(3) = b /\ of(4) = b
      BY <2>1, AskedOfEvidence
    <3>5. Pairs[1] = Fuse(lists[1], lists[2]) /\ Pairs[2] = Fuse(lists[3], lists[4])
      BY <3>1, PairsFacts
    <3> HIDE DEF lists, of
    <3>6. Fused(Pairs[1], a) /\ Fused(Pairs[2], b)
      <4> HIDE DEF a, b
      <4> QED
        BY <3>3, <3>4, <3>5, FusedOfListings
    <3>7. a \cap b = {}
      BY DEF Readable
    <3>8. all = Pairs[1] \o Pairs[2] /\ V = a \cup b
      BY <2>1
    <3> HIDE DEF all, V, a, b
    <3>9. OnceEach(Pairs[1] \o Pairs[2], a \cup b)
      BY <3>6, <3>7, HitsJoined
    <3> QED
      BY <3>8, <3>9
  <2>2. CASE n # 1
    <3>1. Len(lists) = 2 * 1 /\ 2 * 1 = 2
      BY <1>1, <2>2, HowMany
    <3>2. 1 \in 1..2 /\ 2 \in 1..2
      OBVIOUS
    <3>3. Listing(lists[1], of(1)) /\ Listing(lists[2], of(2))
      <4>1. Len(lists) = 2
        BY <3>1
      <4> HIDE DEF lists, of
      <4> QED
        BY <1>2, <3>2, <4>1
    <3>4. SourceOf(2) = {"documentation"} /\ SourceOf(3) = {"conversations"}
      BY DEF SourceOf
    <3>5. of(1) = V /\ of(2) = V
      BY <1>1, <2>2, <3>4, AskedOfEvidence
    <3>6. Pairs[1] = Fuse(lists[1], lists[2])
      BY <3>1, PairsFacts
    <3> HIDE DEF lists, of, V
    <3>7. Fused(Pairs[1], V)
      BY <3>3, <3>5, <3>6, FusedOfListings
    <3>8. all = Pairs[1]
      BY <2>2
    <3> HIDE DEF all
    <3> QED
      BY <3>7, <3>8 DEF Fused, OnceEach
  <2> QED
    BY <2>1, <2>2
<1>4. \A c \in V : Mine(n, c) => c \in W
  <2>1. SourceOf(1) = {"code", "documentation"}
    BY DEF SourceOf
  <2>2. V \subseteq Readable("evidence", SourceOf(n), present)
    BY <2>1 DEF Readable
  <2> HIDE DEF V
  <2> QED
    BY <2>2 DEF Sourced
<1> HIDE DEF all, V, W
<1>5. OnceEach(mine, W)
  <2> DEFINE places == {k \in DOMAIN all : Mine(n, all[k].chunk)}
  <2>1. places \in SUBSET DOMAIN all
    OBVIOUS
  <2>2. \A k \in places : all[k].chunk \in W
    <3>1. \A k \in DOMAIN all : all[k] \in Hits(V)
      BY <1>3, LenProperties DEF OnceEach
    <3>2. \A k \in DOMAIN all : all[k].chunk \in V
      BY <3>1 DEF Hits
    <3> QED
      BY <1>4, <3>2
  <2> HIDE DEF places
  <2>3. OnceEach(Kept(all, places), W)
    BY <1>3, <2>1, <2>2, KeptHits
  <2> QED
    BY <2>3 DEF places
<1> DEFINE cut == First(IF n = 1 THEN Sorted(mine) ELSE mine, TopK)
<1>6. Gathered(n) = Items(SourceNames[n], ChunksOf(cut))
  BY DEF Gathered, all
<1> HIDE DEF mine
<1>7. Fused(cut, W)
  BY <1>5, SortedKeeps, CutKeeps
<1> HIDE DEF cut
<1>8. Listing(ChunksOf(cut), W)
  BY <1>7, ChunksAreListed
<1> QED
  BY <1>6, <1>8 DEF GatheredFrom, W

\* Results of the other searches: readable chunks, those first that both lists have.
LEMMA FusedAllFacts ==
    ASSUME search.kind \in {"question", "incidents", "changes"}, search.lists \in ListSeqs,
           Len(search.lists) = 2 * Many(search.kind, 1),
           ListsAre(search.lists, search.kind, 1, present)
    PROVE  /\ Fused(FusedAll, Given(search.kind, present))
           /\ search.kind # "changes" =>
                Len(search.lists) = 2 /\ BothFirst(FusedAll, search.lists[1], search.lists[2])
<1> DEFINE lists == search.lists
           sort == search.kind
           V == Given(sort, present)
<1>1. \A m \in Nat : Len(lists) = m => \A k \in 1..m : Listing(lists[k], V)
  <2>1. \A k : Readable(sort, Asked(sort, 1, k), present) \subseteq V
    BY DEF Readable, Given
  <2>2. \A k \in DOMAIN lists : Listing(lists[k], V)
    <3> TAKE k \in DOMAIN lists
    <3>1. Listing(lists[k], Readable(sort, Asked(sort, 1, k), present))
      BY DEF ListsAre
    <3> HIDE DEF V, lists, sort
    <3> QED
      BY <2>1, <3>1, ListingGrows
  <2>3. DOMAIN lists = 1..Len(lists)
    BY LenProperties DEF ListSeqs
  <2> HIDE DEF lists, V
  <2> QED
    BY <2>2, <2>3
<1>2. CASE sort # "changes"
  <2>1. Len(lists) = 2 * 1 /\ 2 * 1 = 2
    BY <1>2, HowMany
  <2>2. 1 \in 1..2 /\ 2 \in 1..2
    OBVIOUS
  <2>3. Listing(lists[1], V) /\ Listing(lists[2], V)
    <3>1. Len(lists) = 2
      BY <2>1
    <3> HIDE DEF lists, V
    <3> QED
      BY <1>1, <2>2, <3>1
  <2>4. FusedAll = Fuse(lists[1], lists[2])
    <3>1. Pairs[1] = Fuse(lists[1], lists[2])
      BY <2>1, PairsFacts
    <3> QED
      BY <1>2, <3>1 DEF FusedAll
  <2>5. Len(lists) = 2
    BY <2>1
  <2> HIDE DEF lists, V
  <2>6. Fused(FusedAll, V) /\ BothFirst(FusedAll, lists[1], lists[2])
    BY <2>3, <2>4, FusedOfListings
  <2> QED
    BY <2>5, <2>6 DEF lists, V
<1>3. CASE sort = "changes"
  <2>1. Len(lists) = 2 * 2 /\ 2 * 2 = 4
    BY <1>3, HowMany
  <2>2. 1 \in 1..4 /\ 2 \in 1..4 /\ 3 \in 1..4 /\ 4 \in 1..4
    OBVIOUS
  <2>3. Listing(lists[1], V) /\ Listing(lists[2], V) /\ Listing(lists[3], V) /\ Listing(lists[4], V)
    <3>1. Len(lists) = 4
      BY <2>1
    <3> HIDE DEF lists, V
    <3> QED
      BY <1>1, <2>2, <3>1
  <2>4. Pairs[1] = Fuse(lists[1], lists[2]) /\ Pairs[2] = Fuse(lists[3], lists[4])
    BY <2>1, PairsFacts
  <2>5. FusedAll = Fuse(ChunksOf(Pairs[1]), ChunksOf(Pairs[2]))
    BY <1>3 DEF FusedAll
  <2> HIDE DEF lists, V
  <2>6. Fused(Pairs[1], V) /\ Fused(Pairs[2], V)
    BY <2>3, <2>4, FusedOfListings
  <2>7. Listing(ChunksOf(Pairs[1]), V) /\ Listing(ChunksOf(Pairs[2]), V)
    BY <2>6, ChunksAreListed
  <2>8. Fused(FusedAll, V)
    BY <2>5, <2>7, FusedOfListings
  <2> QED
    BY <1>3, <2>8 DEF V
<1> QED
  BY <1>2, <1>3

\* Some of a listing, and the first of it.
LEMMA KeptListing ==
    ASSUME NEW V, NEW s, Listing(s, V), NEW places \in SUBSET DOMAIN s
    PROVE  /\ Listing(Kept(s, places), V)
           /\ places # {} => Kept(s, places) # <<>>
<1> DEFINE t == Kept(s, places)
<1>1. /\ places \in SUBSET Nat /\ IsFiniteSet(places)
      /\ Cardinality(places) \in Nat /\ Cardinality(places) <= Len(s)
  BY PlacesAreFinite DEF Listing
<1>2. t \in Seq(V)
  <2>1. \A i \in places : s[i] \in V
    BY LenProperties DEF Listing
  <2> QED
    BY <1>1, <2>1, KeptIsSequence
<1>3. IsInjective(t)
  <2>1. \A i, j \in places : s[i] = s[j] => i = j
    BY DEF Listing, IsInjective
  <2> QED
    BY <1>1, <2>1, KeptOnce
<1>4. Keeps(t, s, places)
  BY <1>1, KeptElements
<1> DEFINE m == Cardinality(places)
           n == Len(s)
<1>5. m \in Nat /\ DOMAIN t = 1..m /\ m <= n /\ n <= TopK /\ n \in Nat
  BY <1>1, <1>4, LenProperties DEF Keeps, Listing
<1>6. TopK \in Nat
  BY RetrievalConstants DEF RetrievalConstants
<1>7. Len(t) \in Nat /\ DOMAIN t = 1..Len(t)
  BY <1>2, LenProperties
<1> HIDE DEF t, m, n
<1>8. Len(t) = m
  BY <1>5, <1>7, SameLength
<1>9. Len(t) <= TopK
  BY <1>5, <1>6, <1>8
<1>10. places # {} => t # <<>>
  <2>1. places # {} => DOMAIN t # {}
    BY <1>4 DEF Keeps
  <2> QED
    BY <2>1
<1> QED
  BY <1>2, <1>3, <1>9, <1>10 DEF t, Listing

\* The first ones of a listing are listed.
LEMMA FirstListing ==
    ASSUME NEW V, NEW s, Listing(s, V), NEW n \in Nat
    PROVE  /\ Listing(First(s, n), V)
           /\ n > 0 /\ s # <<>> => First(s, n) # <<>>
<1> DEFINE t == First(s, n)
<1>1. s \in Seq(V) /\ Len(s) \in Nat /\ IsInjective(s) /\ Len(s) <= TopK /\ TopK \in Nat
  BY LenProperties, RetrievalConstants DEF RetrievalConstants, Listing
<1>2. /\ t \in Seq(V)
      /\ Len(t) = IF n < Len(s) THEN n ELSE Len(s)
      /\ \A k \in DOMAIN t : k \in DOMAIN s /\ t[k] = s[k]
  BY <1>1, FirstFacts
<1>3. s # <<>> => Len(s) > 0
  BY <1>1, EmptySeq
<1> HIDE DEF t
<1>4. IsInjective(t)
  BY <1>1, <1>2 DEF IsInjective
<1>5. Len(t) <= TopK
  BY <1>1, <1>2
<1>6. n > 0 /\ s # <<>> => t # <<>>
  <2>1. n > 0 /\ s # <<>> => Len(t) # 0
    BY <1>1, <1>2, <1>3
  <2>2. Len(<<>>) = 0
    OBVIOUS
  <2> QED
    BY <2>1, <2>2
<1> QED
  BY <1>2, <1>4, <1>5, <1>6 DEF t, Listing

\* A bounded set of numbers that is not empty has a greatest one.
LEMMA GreatestIsThere ==
    ASSUME NEW S \in SUBSET Nat, S # {}, NEW n \in Nat, \A x \in S : x <= n
    PROVE  Max(S) \in S /\ \A y \in S : Max(S) >= y
<1> DEFINE Has(T) == \E x \in T : \A y \in T : x >= y
           P == {m \in Nat : \A T \in SUBSET Nat : T # {} /\ (\A x \in T : x <= m) => Has(T)}
<1>1. 0 \in P
  <2> SUFFICES ASSUME NEW T \in SUBSET Nat, T # {}, \A x \in T : x <= 0
               PROVE  Has(T)
    OBVIOUS
  <2>1. \A x \in T : x = 0
    OBVIOUS
  <2>2. PICK x \in T : x = 0
    BY <2>1
  <2> QED
    BY <2>1, <2>2
<1>2. ASSUME NEW m \in Nat, m \in P
      PROVE  m + 1 \in P
  <2> SUFFICES ASSUME NEW T \in SUBSET Nat, T # {}, \A x \in T : x <= m + 1
               PROVE  Has(T)
    OBVIOUS
  <2>1. CASE m + 1 \in T
    BY <2>1
  <2>2. CASE m + 1 \notin T
    <3>1. \A x \in T : x <= m
      BY <2>2
    <3> QED
      BY <1>2, <3>1
  <2> QED
    BY <2>1, <2>2
<1> HIDE DEF P
<1>3. Nat \subseteq P
  BY <1>1, <1>2, NaturalsByInduction
<1>4. n \in P
  BY <1>3
<1>5. Has(S)
  BY <1>4 DEF P
<1> QED
  BY <1>5 DEF Max

\* Another order of a listing is one.
LEMMA Reordered ==
    ASSUME NEW V \in SUBSET Chunks, NEW s, Listing(s, V), NEW t \in SetToSeqs(ToSet(s))
    PROVE  Listing(t, V) /\ (s # <<>> => t # <<>>)
<1> DEFINE S == ToSet(s)
           m == Cardinality(S)
<1>1. Len(s) \in Nat /\ DOMAIN s = 1..Len(s) /\ \A k \in DOMAIN s : s[k] \in V
  BY LenProperties DEF Listing
<1>2. S \subseteq V
  BY <1>1 DEF ToSet
<1>3. IsFiniteSet(S) /\ m \in Nat
  <2>1. IsFiniteSet(Chunks)
    BY RetrievalConstants DEF RetrievalConstants
  <2>2. S \subseteq Chunks
    BY <1>2
  <2> HIDE DEF S
  <2>3. IsFiniteSet(S)
    BY <2>1, <2>2, FS_Subset
  <2> QED
    BY <2>3, FS_CardinalityType
<1>4. t \in [1..m -> S] /\ \A i, j \in 1..m : i # j => t[i] # t[j]
  BY DEF SetToSeqs
<1>5. \A c \in S : \E k \in DOMAIN s : s[k] = c
  BY DEF ToSet
<1>6. s # <<>> => S # {}
  <2>1. s # <<>> => Len(s) \in Nat \ {0}
    BY EmptySeq DEF Listing
  <2>2. s # <<>> => 1 \in DOMAIN s
    BY <1>1, <2>1
  <2> QED
    BY <2>2 DEF ToSet
<1> DEFINE D == DOMAIN s
<1>7. IsFiniteSet(D) /\ Cardinality(D) \in Nat /\ Cardinality(D) <= Len(s)
  <2>1. D \in SUBSET DOMAIN s
    OBVIOUS
  <2> HIDE DEF D
  <2> QED
    BY <2>1, PlacesAreFinite DEF Listing
<1> HIDE DEF S, D
<1>8. ~(Cardinality(D) < m)
  <2> DEFINE at == [c \in S |-> CHOOSE k \in D : s[k] = c]
  <2>1. \A c \in S : at[c] \in D /\ s[at[c]] = c
    BY <1>5 DEF D
  <2>2. at \in [S -> D]
    BY <2>1
  <2> HIDE DEF at
  <2>3. \A c, d \in S : c # d => at[c] # at[d]
    BY <2>1
  <2> HIDE DEF m
  <2>4. ~(Cardinality(D) < Cardinality(S))
    BY <1>3, <1>7, <2>2, <2>3, Pigeons
  <2> QED
    BY <2>4 DEF m
<1>9. m <= TopK
  <2>1. TopK \in Nat /\ Len(s) <= TopK
    BY RetrievalConstants DEF RetrievalConstants, Listing
  <2> HIDE DEF m
  <2> DEFINE n == Len(s)
             d == Cardinality(D)
  <2>2. n \in Nat /\ n <= TopK /\ d \in Nat /\ d <= n /\ ~(d < m)
    BY <1>1, <1>7, <1>8, <2>1
  <2> HIDE DEF n, d
  <2> QED
    BY <1>3, <2>1, <2>2
<1>10. m = 0 => S = {}
  BY <1>3, FS_EmptySet
<1> HIDE DEF m
<1>11. t \in [1..m -> V]
  BY <1>2, <1>4
<1>12. t \in Seq(V) /\ Len(t) = m
  <2>1. t \in Seq(V)
    BY <1>3, <1>11, SeqDef
  <2>2. Len(t) \in Nat /\ DOMAIN t = 1..Len(t)
    BY <2>1, LenProperties
  <2>3. DOMAIN t = 1..m
    BY <1>11
  <2> QED
    BY <1>3, <2>1, <2>2, <2>3, SameLength
<1>13. IsInjective(t)
  BY <1>4 DEF IsInjective
<1>14. s # <<>> => t # <<>>
  <2>1. Len(<<>>) = 0
    OBVIOUS
  <2> QED
    BY <1>6, <1>10, <1>12, <2>1
<1> QED
  BY <1>9, <1>12, <1>13, <1>14 DEF Listing

\* A prompt: the first chunk, and what there is room for.
LEMMA AssembledFacts ==
    ASSUME NEW V, NEW s, Listing(s, V)
    PROVE  /\ Listing(Assembled(s), V)
           /\ s # <<>> => Assembled(s) # <<>>
           /\ Len(Assembled(s)) > 1 => Tokens(Assembled(s)) <= Room
<1> DEFINE fits == {k \in DOMAIN s : Tokens(First(s, k)) <= Room}
           S == {1} \cup fits
           m == Max(S)
<1>1. Assembled(s) = First(s, m)
  BY DEF Assembled
<1>2. Len(s) \in Nat /\ DOMAIN s = 1..Len(s)
  BY LenProperties DEF Listing
<1>3. S \in SUBSET Nat /\ S # {} /\ \A x \in S : x <= Len(s) + 1
  <2>1. fits \subseteq 1..Len(s)
    BY <1>2
  <2> HIDE DEF fits
  <2> QED
    BY <1>2, <2>1
<1>4. \A k \in S : k = 1 \/ Tokens(First(s, k)) <= Room
  OBVIOUS
<1>5. 1 \in S
  OBVIOUS
<1> HIDE DEF S
<1>6. m \in S /\ m >= 1
  <2>1. Len(s) + 1 \in Nat
    BY <1>2
  <2>2. Max(S) \in S /\ \A y \in S : Max(S) >= y
    BY <1>3, <2>1, GreatestIsThere
  <2> QED
    BY <1>5, <2>2
<1>7. m \in Nat
  BY <1>3, <1>6
<1> HIDE DEF m
<1>8. Listing(First(s, m), V) /\ (m > 0 /\ s # <<>> => First(s, m) # <<>>)
  BY <1>7, FirstListing
<1>9. Len(First(s, m)) <= m /\ Len(First(s, m)) \in Nat
  BY <1>2, <1>7, FirstFacts DEF Listing
<1>10. m = 1 => ~(Len(First(s, m)) > 1)
  BY <1>7, <1>9
<1>11. m > 0
  BY <1>6, <1>7
<1> QED
  BY <1>1, <1>4, <1>6, <1>8, <1>10, <1>11

\* What reranking gives.
LEMMA RerankedFacts ==
    ASSUME NEW V \in SUBSET Chunks, NEW found, Listing(found, V),
           NEW s \in Reranked(found) \cup {First(found, Narrow)}
    PROVE  Listing(s, V) /\ (Narrow > 0 /\ found # <<>> => s # <<>>)
<1>1. Narrow \in Nat
  BY RetrievalConstants DEF RetrievalConstants
<1>2. CASE s = First(found, Narrow)
  BY <1>1, <1>2, FirstListing
<1>3. CASE s \in Reranked(found)
  <2>1. PICK t \in SetToSeqs(ToSet(found)) : s = First(t, Narrow)
    BY <1>3 DEF Reranked
  <2>2. Listing(t, V) /\ (found # <<>> => t # <<>>)
    BY Reordered
  <2> QED
    BY <1>1, <2>1, <2>2, FirstListing
<1> QED
  BY <1>2, <1>3

-----------------------------------------------------------------------------
(* The inductive invariant of a search.                                    *)

HitSeqs    == Seq(Hits(Chunks))
ChunkSeqs  == Seq(Chunks)
ItemSeqs   == Seq(EvidenceItems)
SearchRecords ==
    [kind : SearchKinds, stage : Stages, lists : ListSeqs, fused : HitSeqs,
     found : ChunkSeqs, evidence : ItemSeqs]

\* While a source is asked, its statements gave what they may.
RunHolds(s, there) ==
    \A n \in 1..3 : s.stage = Source(n) =>
        ListsAre(s.lists, s.kind, n, there) /\ (s.kind # "evidence" => n = 1)

\* There are results only when they are fused, and what they are.
FoundHolds(s, there) ==
    /\ Listing(s.found, Given(s.kind, there))
    /\ s.stage \notin {"rerank", "done"} => s.fused = <<>> /\ s.found = <<>>
    /\ s.kind = "evidence" => s.fused = <<>> /\ s.found = <<>>
    /\ s.stage = "rerank" => s.kind = "question" /\ (s.fused # <<>> => s.found # <<>>)
    /\ s.kind # "changes" /\ s.fused # <<>> =>
         Len(s.lists) = 2 /\ BothFirst(s.fused, s.lists[1], s.lists[2])
    /\ s.kind = "question" /\ s.stage = "done" =>
         /\ Len(s.found) > 1 => Tokens(s.found) <= Room
         /\ s.fused # <<>> /\ Narrow > 0 => s.found # <<>>

\* The evidence is sound, and what is to come has a lower priority.
Coming == <<"first", "second", "third", "postmortems", "live">>
EvidenceHolds(s, there) ==
    /\ Sound(s.evidence, there)
    /\ s.kind # "evidence" => s.evidence = <<>>
    /\ s.stage \in {"second", "third", "postmortems", "live"} => s.kind = "evidence"
    /\ \A p \in 1..5 : s.stage = Coming[p] =>
         \A k \in DOMAIN s.evidence : Priority(s.evidence[k].source) < p
    /\ s.stage # "live" => Len(s.evidence) <= MaxEvidence

Holds(s, there) ==
    /\ s \in SearchRecords
    /\ s.stage = "new" => s = NoSearch
    /\ RunHolds(s, there) /\ FoundHolds(s, there) /\ EvidenceHolds(s, there)

SearchInv ==
    /\ store \in SUBSET Chunks /\ present \in SUBSET Chunks /\ written \in SUBSET Incidents
    /\ changes \in 0..MaxChanges
    /\ search.stage # "new" => store \subseteq present
    /\ Holds(search, present)

\* The stages of a search differ, and those of an investigation are in order.
LEMMA StageFacts ==
    /\ Source(1) = "first" /\ Source(2) = "second" /\ Source(3) = "third"
    /\ \A n \in 1..3 : /\ Source(n) = Coming[n] /\ Source(n) \in Stages
                       /\ Source(n) \notin {"new", "postmortems", "live", "rerank", "done"}
    /\ Coming[4] = "postmortems" /\ Coming[5] = "live"
    /\ \A p, q \in 1..5 : Coming[p] = Coming[q] => p = q
    /\ \A p \in 1..5 : Coming[p] \notin {"new", "rerank", "done"}
<1>1. Source(1) = "first" /\ Source(2) = "second" /\ Source(3) = "third"
  BY DEF Source
<1>2. /\ Coming[1] = "first" /\ Coming[2] = "second" /\ Coming[3] = "third"
      /\ Coming[4] = "postmortems" /\ Coming[5] = "live"
  BY DEF Coming
<1>3. \A n \in 1..3 : n = 1 \/ n = 2 \/ n = 3
  OBVIOUS
<1>4. \A p \in 1..5 : p = 1 \/ p = 2 \/ p = 3 \/ p = 4 \/ p = 5
  OBVIOUS
<1>5. \A n \in 1..3 : /\ Source(n) = Coming[n] /\ Source(n) \in Stages
                      /\ Source(n) \notin {"new", "postmortems", "live", "rerank", "done"}
  BY <1>1, <1>2, <1>3 DEF Stages
<1>6. \A p, q \in 1..5 : Coming[p] = Coming[q] => p = q
  BY <1>2, <1>4
<1>7. \A p \in 1..5 : Coming[p] \notin {"new", "rerank", "done"}
  BY <1>2, <1>4
<1> QED
  BY <1>1, <1>2, <1>5, <1>6, <1>7

\* An empty list is a listing.
LEMMA NothingIsListed == \A V : Listing(<<>>, V)
<1>1. TopK \in Nat
  BY RetrievalConstants DEF RetrievalConstants
<1>2. \A V : <<>> \in Seq(V) /\ Len(<<>>) = 0 /\ DOMAIN <<>> = {}
  OBVIOUS
<1> QED
  BY <1>1, <1>2 DEF Listing, IsInjective

\* The bounds of a search are numbers.
LEMMA NumberFacts ==
    /\ MaxEvidence \in Nat /\ MaxChanges \in Nat /\ TopK \in Nat /\ Narrow \in Nat
    /\ \A sort \in SearchKinds : Many(sort, 1) \in Nat
    /\ \A n \in 1..3 : Many("evidence", n) \in Nat
<1>1. \A n \in 1..3 : n = 1 \/ n = 2 \/ n = 3
  OBVIOUS
<1> QED
  BY <1>1, HowMany, RetrievalConstants DEF RetrievalConstants, SearchKinds

\* A search that begins.
LEMMA BeganHolds ==
    ASSUME NEW there \in SUBSET Chunks, NEW sort \in SearchKinds
    PROVE  Holds([NoSearch EXCEPT !.kind = sort, !.stage = Source(1)], there)
<1> DEFINE r == [NoSearch EXCEPT !.kind = sort, !.stage = Source(1)]
<1>0. Source(1) = "first"
  BY StageFacts
<1>1. NoSearch \in SearchRecords
  <2>1. <<>> \in ListSeqs /\ <<>> \in HitSeqs /\ <<>> \in ChunkSeqs /\ <<>> \in ItemSeqs
    BY DEF ListSeqs, HitSeqs, ChunkSeqs, ItemSeqs
  <2>2. "new" \in Stages /\ "question" \in SearchKinds
    BY DEF Stages, SearchKinds
  <2> QED
    BY <2>1, <2>2 DEF SearchRecords, NoSearch
<1>2. /\ NoSearch.lists = <<>> /\ NoSearch.fused = <<>>
      /\ NoSearch.found = <<>> /\ NoSearch.evidence = <<>>
  BY DEF NoSearch
<1>3. "first" \in Stages
  BY DEF Stages
<1>4. /\ r \in SearchRecords
      /\ r.kind = sort /\ r.stage = "first" /\ r.lists = <<>> /\ r.fused = <<>>
      /\ r.found = <<>> /\ r.evidence = <<>>
  BY <1>0, <1>1, <1>2, <1>3 DEF SearchRecords
<1>5. Len(<<>>) = 0 /\ DOMAIN <<>> = {}
  OBVIOUS
<1> HIDE DEF r
<1>6. RunHolds(r, there)
  <2>1. \A n \in 1..3 : r.stage = Source(n) => n = 1
    BY <1>4, StageFacts
  <2>2. ListsAre(r.lists, r.kind, 1, there)
    BY <1>4, <1>5, NumberFacts DEF ListsAre
  <2> QED
    BY <2>1, <2>2 DEF RunHolds
<1>7. FoundHolds(r, there)
  BY <1>4, NothingIsListed DEF FoundHolds
<1>8. EvidenceHolds(r, there)
  BY <1>4, <1>5, NothingIsSound, NumberFacts DEF EvidenceHolds
<1> QED
  BY <1>4, <1>6, <1>7, <1>8 DEF Holds, r

\* The first state.
LEMMA SearchBegins == RetrievalInit => SearchInv
<1> SUFFICES ASSUME RetrievalInit
             PROVE  SearchInv
  OBVIOUS
<1> USE DEF RetrievalInit
<1>1. /\ search.kind = "question" /\ search.stage = "new" /\ search.lists = <<>>
      /\ search.fused = <<>> /\ search.found = <<>> /\ search.evidence = <<>>
      /\ search = [kind |-> "question", stage |-> "new", lists |-> <<>>, fused |-> <<>>,
                   found |-> <<>>, evidence |-> <<>>]
  BY DEF NoSearch
<1>2. <<>> \in ListSeqs /\ <<>> \in HitSeqs /\ <<>> \in ChunkSeqs /\ <<>> \in ItemSeqs
  BY DEF ListSeqs, HitSeqs, ChunkSeqs, ItemSeqs
<1>3. "new" \in Stages /\ "question" \in SearchKinds
  BY DEF Stages, SearchKinds
<1>4. search \in SearchRecords
  BY <1>1, <1>2, <1>3 DEF SearchRecords
<1>5. Len(<<>>) = 0 /\ DOMAIN <<>> = {}
  OBVIOUS
<1>6. RunHolds(search, present)
  BY <1>1, StageFacts DEF RunHolds
<1>7. FoundHolds(search, present)
  BY <1>1, NothingIsListed DEF FoundHolds
<1>8. EvidenceHolds(search, present)
  BY <1>1, <1>5, NothingIsSound, NumberFacts DEF EvidenceHolds
<1>9. store \in SUBSET Chunks /\ written \in SUBSET Incidents /\ present \in SUBSET Chunks
  OBVIOUS
<1>10. changes \in 0..MaxChanges
  BY NumberFacts
<1> QED
  BY <1>1, <1>4, <1>6, <1>7, <1>8, <1>9, <1>10 DEF Holds, SearchInv

\* What was there stays there.
LEMMA HoldsStays ==
    ASSUME NEW s, NEW there, NEW later, there \subseteq later, Holds(s, there)
    PROVE  Holds(s, later)
<1>1. \A n \in 1..3 : ListsAre(s.lists, s.kind, n, there) => ListsAre(s.lists, s.kind, n, later)
  <2> TAKE n \in 1..3
  <2> HAVE ListsAre(s.lists, s.kind, n, there)
  <2>1. \A k : Readable(s.kind, Asked(s.kind, n, k), there) \subseteq Readable(s.kind, Asked(s.kind, n, k), later)
    BY DEF Readable
  <2>2. \A k \in DOMAIN s.lists : Listing(s.lists[k], Readable(s.kind, Asked(s.kind, n, k), there))
    BY DEF ListsAre
  <2>3. \A k \in DOMAIN s.lists : Listing(s.lists[k], Readable(s.kind, Asked(s.kind, n, k), later))
    BY <2>1, <2>2, ListingGrows
  <2> QED
    BY <2>3 DEF ListsAre
<1>2. RunHolds(s, later)
  BY <1>1 DEF RunHolds, Holds
<1>3. FoundHolds(s, later)
  <2>1. Given(s.kind, there) \subseteq Given(s.kind, later)
    BY DEF Given
  <2>2. Listing(s.found, Given(s.kind, there))
    BY DEF FoundHolds, Holds
  <2>3. Listing(s.found, Given(s.kind, later))
    BY <2>1, <2>2, ListingGrows
  <2> QED
    BY <2>3 DEF FoundHolds, Holds
<1>4. EvidenceHolds(s, later)
  BY SoundStays DEF EvidenceHolds, Holds
<1> QED
  BY <1>2, <1>3, <1>4 DEF Holds

\* The orders of a finite set.
LEMMA PermutationFacts ==
    ASSUME NEW V, IsFiniteSet(V), NEW S \in SUBSET V, NEW t \in SetToSeqs(S)
    PROVE  t \in Seq(V) /\ IsInjective(t) /\ Len(t) = Cardinality(S)
<1> DEFINE m == Cardinality(S)
<1>1. m \in Nat
  <2>1. IsFiniteSet(S)
    BY FS_Subset
  <2> QED
    BY <2>1, FS_CardinalityType
<1>2. t \in [1..m -> S] /\ \A i, j \in 1..m : i # j => t[i] # t[j]
  BY DEF SetToSeqs
<1> HIDE DEF m
<1>3. t \in [1..m -> V]
  BY <1>2
<1>4. t \in Seq(V)
  BY <1>1, <1>3, SeqDef
<1>5. Len(t) = m
  <2>1. Len(t) \in Nat /\ DOMAIN t = 1..Len(t) /\ DOMAIN t = 1..m
    BY <1>3, <1>4, LenProperties
  <2> QED
    BY <1>1, <2>1, SameLength
<1>6. IsInjective(t)
  BY <1>2, <1>4 DEF IsInjective
<1> QED
  BY <1>4, <1>5, <1>6 DEF m

\* A sequence over a set is one over a larger set.
LEMMA SeqOfMore ==
    ASSUME NEW V, NEW W, V \subseteq W, NEW s \in Seq(V)
    PROVE  s \in Seq(W)
<1>1. Len(s) \in Nat /\ s \in [1..Len(s) -> V]
  BY LenProperties
<1> DEFINE n == Len(s)
<1> HIDE DEF n
<1>2. n \in Nat /\ s \in [1..n -> V]
  BY <1>1 DEF n
<1>3. s \in [1..n -> W]
  BY <1>2
<1> QED
  BY <1>2, <1>3, SeqDef

\* What a statement finds, of what is there.
LEMMA FoundIsReadable ==
    ASSUME store \in SUBSET Chunks, present \in SUBSET Chunks, store \subseteq present,
           NEW sort, NEW names, NEW list \in ListsOf(Matching(sort, names))
    PROVE  Listing(list, Readable(sort, names, present)) /\ list \in Seq(Chunks)
<1> DEFINE V == Readable(sort, names, present)
<1>1. PICK S \in SUBSET Matching(sort, names) :
        list \in SetToSeqs(S) /\ Cardinality(S) <= TopK
  BY DEF ListsOf
<1>2. S \subseteq V /\ V \subseteq Chunks
  BY DEF Matching, Readable
<1>3. Listing(list, V)
  <2>1. IsFiniteSet(Chunks)
    BY RetrievalConstants DEF RetrievalConstants
  <2> HIDE DEF V
  <2>2. IsFiniteSet(V)
    BY <1>2, <2>1, FS_Subset
  <2>3. list \in Seq(V) /\ IsInjective(list) /\ Len(list) = Cardinality(S)
    BY <1>1, <1>2, <2>2, PermutationFacts
  <2> QED
    BY <1>1, <2>3 DEF Listing
<1>4. list \in Seq(Chunks)
  <2> HIDE DEF V
  <2> QED
    BY <1>2, <1>3, SeqOfMore DEF Listing
<1> QED
  BY <1>3, <1>4

-----------------------------------------------------------------------------
(* Steps of a search.                                                      *)

\* A search that goes on: its source.
LEMMA RunningFacts ==
    ASSUME SearchInv, NEW n \in Running
    PROVE  /\ n \in 1..3 /\ search.stage = Source(n)
           /\ ListsAre(search.lists, search.kind, n, present)
           /\ search.kind # "evidence" => n = 1
           /\ search.fused = <<>> /\ search.found = <<>>
           /\ \A k \in DOMAIN search.evidence : Priority(search.evidence[k].source) < n
           /\ Len(search.evidence) <= MaxEvidence
           /\ search \in SearchRecords
           /\ store \subseteq present
           /\ Many(search.kind, n) \in Nat
           /\ Many(search.kind, n) = Len(Statements(n))
<1>1. n \in 1..3 /\ search.stage = Source(n)
  BY DEF Running
<1>2. search.stage \notin {"new", "postmortems", "live", "rerank", "done"} /\ search.stage = Coming[n]
  BY <1>1, StageFacts
<1>3. n \in 1..5
  BY <1>1
<1>4. Holds(search, present) /\ (search.stage # "new" => store \subseteq present)
  BY DEF SearchInv
<1>5. RunHolds(search, present) /\ FoundHolds(search, present) /\ EvidenceHolds(search, present)
      /\ search \in SearchRecords
  BY <1>4 DEF Holds
<1>6. ListsAre(search.lists, search.kind, n, present) /\ (search.kind # "evidence" => n = 1)
  BY <1>1, <1>5 DEF RunHolds
<1>7. search.fused = <<>> /\ search.found = <<>>
  BY <1>2, <1>5 DEF FoundHolds
<1>8. /\ \A k \in DOMAIN search.evidence : Priority(search.evidence[k].source) < n
      /\ Len(search.evidence) <= MaxEvidence
  BY <1>2, <1>3, <1>5 DEF EvidenceHolds
<1>9. search.kind \in SearchKinds
  BY <1>5 DEF SearchRecords
<1>10. Many(search.kind, n) \in Nat
  BY <1>1, <1>6, <1>9, NumberFacts
<1>11. Many(search.kind, n) = Len(Statements(n))
  BY DEF Many, Statements
<1> QED
  BY <1>1, <1>2, <1>4, <1>5, <1>6, <1>7, <1>8, <1>10, <1>11

\* The lists of the source as they become: the rest stays.
LEMMA OtherLists ==
    ASSUME SearchInv, NEW n \in Running, NEW lists \in ListSeqs,
           ListsAre(lists, search.kind, n, present)
    PROVE  Holds([search EXCEPT !.lists = lists], present)
<1> DEFINE t == [search EXCEPT !.lists = lists]
<1>1. /\ n \in 1..3 /\ search.stage = Source(n)
      /\ search.kind # "evidence" => n = 1
      /\ search.fused = <<>> /\ search.found = <<>>
      /\ search \in SearchRecords
  BY RunningFacts
<1>2. FoundHolds(search, present) /\ EvidenceHolds(search, present)
  BY DEF SearchInv, Holds
<1>3. /\ t \in SearchRecords /\ t.kind = search.kind /\ t.stage = search.stage
      /\ t.lists = lists /\ t.fused = search.fused /\ t.found = search.found
      /\ t.evidence = search.evidence
  BY <1>1 DEF SearchRecords
<1> HIDE DEF t
<1>4. RunHolds(t, present)
  <2>1. \A m \in 1..3 : Source(m) = Source(n) => m = n
    BY <1>1, StageFacts
  <2>2. ListsAre(t.lists, t.kind, n, present)
    BY <1>3
  <2> QED
    BY <1>1, <1>3, <2>1, <2>2 DEF RunHolds
<1>5. FoundHolds(t, present)
  BY <1>1, <1>2, <1>3 DEF FoundHolds
<1>6. EvidenceHolds(t, present)
  BY <1>2, <1>3 DEF EvidenceHolds
<1>7. t.stage # "new"
  BY <1>1, <1>3, StageFacts
<1> QED
  BY <1>3, <1>4, <1>5, <1>6, <1>7 DEF Holds, t

\* A statement lists readable chunks.
LEMMA StatementHolds ==
    ASSUME SearchInv, NEW n \in Running, Statement(n)
    PROVE  SearchInv'
<1> DEFINE lists == search.lists
           L == Len(lists)
           names == Statements(n)[L \div 2 + 1]
<1>1. PICK list \in ListsOf(Matching(search.kind, names)) :
        search' = [search EXCEPT !.lists = Append(lists, list)]
  BY DEF Statement
<1>2. /\ ListsAre(lists, search.kind, n, present) /\ search \in SearchRecords
      /\ store \subseteq present /\ Many(search.kind, n) \in Nat
      /\ Many(search.kind, n) = Len(Statements(n))
  BY RunningFacts
<1>3. store \in SUBSET Chunks /\ present \in SUBSET Chunks
  BY DEF SearchInv
<1>4. Listing(list, Readable(search.kind, names, present)) /\ list \in Seq(Chunks)
  <2> HIDE DEF names
  <2> QED
    BY <1>1, <1>2, <1>3, FoundIsReadable
<1>5. lists \in ListSeqs /\ L \in Nat /\ DOMAIN lists = 1..L
  <2>1. lists \in ListSeqs
    BY <1>2 DEF SearchRecords
  <2> QED
    BY <2>1, LenProperties DEF ListSeqs
<1>6. names = Asked(search.kind, n, L + 1)
  <2> HIDE DEF L
  <2>1. ((L + 1) - 1) \div 2 + 1 = L \div 2 + 1
    BY <1>5
  <2> QED
    BY <2>1 DEF Asked, Statements, names
<1> DEFINE more == Append(lists, list)
<1>7. /\ more \in ListSeqs /\ Len(more) = L + 1 /\ DOMAIN more = 1..(L + 1)
      /\ \A k \in 1..L : more[k] = lists[k]
      /\ more[L + 1] = list
  <2>1. list \in Seq(Chunks) /\ lists \in Seq(Seq(Chunks))
    BY <1>4, <1>5 DEF ListSeqs
  <2>2. /\ more \in Seq(Seq(Chunks)) /\ Len(more) = L + 1
        /\ \A k \in 1..L : more[k] = lists[k]
        /\ more[L + 1] = list
    BY <2>1, AppendProperties
  <2>3. DOMAIN more = 1..Len(more)
    BY <2>2, LenProperties
  <2> QED
    BY <2>2, <2>3 DEF ListSeqs
<1>8. ListsAre(more, search.kind, n, present)
  <2>1. L < 2 * Many(search.kind, n)
    BY <1>2 DEF Statement
  <2>2. Len(more) <= 2 * Many(search.kind, n)
    <3> DEFINE M == Many(search.kind, n)
    <3> HIDE DEF L, M, more
    <3> QED
      BY <1>2, <1>5, <1>7, <2>1 DEF M
  <2>3. \A k \in DOMAIN more : Listing(more[k], Readable(search.kind, Asked(search.kind, n, k), present))
    <3> TAKE k \in DOMAIN more
    <3>1. \A j \in 1..L : Listing(lists[j], Readable(search.kind, Asked(search.kind, n, j), present))
      BY <1>2, <1>5 DEF ListsAre
    <3>2. Listing(list, Readable(search.kind, Asked(search.kind, n, L + 1), present))
      BY <1>4, <1>6
    <3> HIDE DEF lists, L, more, names
    <3>3. k \in 1..L \/ k = L + 1
      BY <1>5, <1>7
    <3> QED
      BY <1>7, <3>1, <3>2, <3>3
  <2> QED
    BY <2>2, <2>3 DEF ListsAre
<1>9. Holds(search', present)
  <2>1. search' = [search EXCEPT !.lists = more]
    BY <1>1
  <2>2. more \in ListSeqs
    BY <1>7
  <2> HIDE DEF more
  <2> QED
    BY <1>8, <2>1, <2>2, OtherLists
<1>10. UNCHANGED <<store, written, present, changes>>
  BY DEF Statement
<1> QED
  BY <1>2, <1>9, <1>10 DEF SearchInv

\* A retried source has no lists yet.
LEMMA AgainHolds ==
    ASSUME SearchInv, NEW n \in Running, Again(n)
    PROVE  SearchInv'
<1>1. search' = [search EXCEPT !.lists = <<>>] /\ UNCHANGED <<store, written, present, changes>>
  BY DEF Again
<1>2. <<>> \in ListSeqs
  BY DEF ListSeqs
<1>3. ListsAre(<<>>, search.kind, n, present)
  <2>1. Len(<<>>) = 0 /\ DOMAIN <<>> = {} /\ Many(search.kind, n) \in Nat
    BY RunningFacts
  <2> QED
    BY <2>1 DEF ListsAre
<1>4. Holds(search', present)
  BY <1>1, <1>2, <1>3, OtherLists
<1>5. store \subseteq present
  BY RunningFacts
<1> QED
  BY <1>1, <1>4, <1>5 DEF SearchInv

\* Priorities are numbers.
LEMMA PrioritiesAreNumbers ==
    ASSUME NEW e, NEW there, Sound(e, there)
    PROVE  \A k \in DOMAIN e : Priority(e[k].source) \in 1..5
<1> TAKE k \in DOMAIN e
<1>1. e[k] \in EvidenceItems
  BY LenProperties DEF Sound
<1>2. e[k].source \in Origins
  BY <1>1 DEF EvidenceItems
<1> QED
  BY <1>2, SourceFacts

\* The next source is of a lower priority, or there is none.
LEMMA NextSourceFacts ==
    ASSUME NEW n \in 1..3, NEW e
    PROVE  NextSource(n, e) \in {"done", Coming[n + 1]} /\ Coming[n + 1] \in Stages
<1>1. n = 1 \/ n = 2 \/ n = 3
  OBVIOUS
<1>2. /\ Coming[1 + 1] = Source(1 + 1) /\ Coming[2 + 1] = Source(2 + 1)
      /\ Coming[3 + 1] = "postmortems"
  BY StageFacts
<1>3. /\ Coming[1 + 1] \in Stages /\ Coming[2 + 1] \in Stages /\ Coming[3 + 1] \in Stages
  BY StageFacts DEF Stages
<1>4. NextSource(n, e) \in {"done", IF n < 3 THEN Source(n + 1) ELSE "postmortems"}
  BY DEF NextSource
<1>5. (IF n < 3 THEN Source(n + 1) ELSE "postmortems") = Coming[n + 1]
  <2>1. CASE n = 1
    BY <1>2, <2>1
  <2>2. CASE n = 2
    BY <1>2, <2>2
  <2>3. CASE n = 3
    BY <1>2, <2>3
  <2> QED
    BY <1>1, <2>1, <2>2, <2>3
<1> QED
  BY <1>1, <1>3, <1>4, <1>5

\* A source of evidence is done: the search goes on to the next, or ends.
LEMMA SourceIsDone ==
    ASSUME NEW n \in 1..3, NEW there, NEW t \in SearchRecords,
           t.kind = "evidence", t.stage \in {"done", Coming[n + 1]},
           t.lists = <<>>, t.fused = <<>>, t.found = <<>>,
           Sound(t.evidence, there), Len(t.evidence) <= MaxEvidence,
           \A k \in DOMAIN t.evidence : Priority(t.evidence[k].source) <= n
    PROVE  Holds(t, there)
<1>1. n + 1 \in 1..5
  OBVIOUS
<1>2. t.stage \notin {"new", "rerank"}
  BY <1>1, StageFacts
<1>3. RunHolds(t, there)
  <2>1. Len(<<>>) = 0 /\ DOMAIN <<>> = {}
    OBVIOUS
  <2>2. \A m \in 1..3 : ListsAre(t.lists, t.kind, m, there)
    BY <2>1, NumberFacts DEF ListsAre
  <2> QED
    BY <2>2 DEF RunHolds
<1>4. FoundHolds(t, there)
  BY <1>2, NothingIsListed DEF FoundHolds
<1>5. EvidenceHolds(t, there)
  <2>1. ASSUME NEW p \in 1..5, t.stage = Coming[p]
        PROVE  \A k \in DOMAIN t.evidence : Priority(t.evidence[k].source) < p
    <3>1. p = n + 1
      BY <1>1, <2>1, StageFacts
    <3>2. \A k \in DOMAIN t.evidence : Priority(t.evidence[k].source) \in 1..5
      BY PrioritiesAreNumbers
    <3> QED
      BY <3>1, <3>2
  <2> QED
    BY <2>1 DEF EvidenceHolds
<1> QED
  BY <1>2, <1>3, <1>4, <1>5 DEF Holds

\* A search that ends without results.
LEMMA EndedHolds ==
    ASSUME NEW there, NEW t \in SearchRecords, Holds(t, there), t.kind # "evidence",
           t.fused = <<>>, t.found = <<>>
    PROVE  Holds([t EXCEPT !.lists = <<>>, !.stage = "done"], there)
<1> DEFINE u == [t EXCEPT !.lists = <<>>, !.stage = "done"]
<1>1. "done" \in Stages /\ <<>> \in ListSeqs
  BY DEF Stages, ListSeqs
<1>2. /\ u \in SearchRecords /\ u.kind = t.kind /\ u.stage = "done" /\ u.lists = <<>>
      /\ u.fused = <<>> /\ u.found = <<>> /\ u.evidence = t.evidence
  BY <1>1 DEF SearchRecords
<1>3. EvidenceHolds(t, there)
  BY DEF Holds
<1>4. t.evidence = <<>>
  BY <1>3 DEF EvidenceHolds
<1> HIDE DEF u
<1>5. "done" # "new" /\ \A p \in 1..5 : "done" # Coming[p]
  BY StageFacts
<1>6. RunHolds(u, there)
  <2>1. \A n \in 1..3 : u.stage # Source(n)
    BY <1>2, StageFacts
  <2> QED
    BY <2>1 DEF RunHolds
<1>7. FoundHolds(u, there)
  <2>1. Len(<<>>) = 0
    OBVIOUS
  <2> QED
    BY <1>2, <2>1, NothingIsListed DEF FoundHolds
<1>8. EvidenceHolds(u, there)
  <2>1. Len(<<>>) = 0 /\ DOMAIN <<>> = {}
    OBVIOUS
  <2> QED
    BY <1>2, <1>4, <1>5, <2>1, NothingIsSound, NumberFacts DEF EvidenceHolds
<1> QED
  BY <1>2, <1>5, <1>6, <1>7, <1>8 DEF Holds, u

\* A search that fails, or goes on without the source.
LEMMA SearchFailsHolds ==
    ASSUME SearchInv, NEW n \in Running, SearchFails(n)
    PROVE  SearchInv'
<1>1. /\ n \in 1..3 /\ search.fused = <<>> /\ search.found = <<>>
      /\ \A k \in DOMAIN search.evidence : Priority(search.evidence[k].source) < n
      /\ Len(search.evidence) <= MaxEvidence
      /\ search \in SearchRecords
      /\ store \subseteq present
  BY RunningFacts
<1>2. UNCHANGED <<store, written, present, changes>>
  BY DEF SearchFails
<1>3. Holds(search, present)
  BY DEF SearchInv
<1>4. Holds(search', present)
  <2>1. CASE search.kind = "evidence"
    <3> DEFINE next == NextSource(n, search.evidence)
    <3>1. search' = [search EXCEPT !.lists = <<>>, !.stage = next]
      BY <2>1 DEF SearchFails
    <3>2. next \in {"done", Coming[n + 1]} /\ Coming[n + 1] \in Stages
      BY <1>1, NextSourceFacts
    <3>3. "done" \in Stages /\ <<>> \in ListSeqs
      BY DEF Stages, ListSeqs
    <3> HIDE DEF next
    <3>4. /\ search' \in SearchRecords /\ search'.kind = search.kind /\ search'.stage = next
          /\ search'.lists = <<>> /\ search'.fused = search.fused
          /\ search'.found = search.found /\ search'.evidence = search.evidence
      BY <1>1, <3>1, <3>2, <3>3 DEF SearchRecords
    <3>5. Sound(search.evidence, present)
      BY <1>3 DEF Holds, EvidenceHolds
    <3>6. \A k \in DOMAIN search.evidence : Priority(search.evidence[k].source) \in 1..5
      BY <3>5, PrioritiesAreNumbers
    <3>7. \A k \in DOMAIN search.evidence : Priority(search.evidence[k].source) <= n
      BY <1>1, <3>6
    <3>8. /\ search'.kind = "evidence" /\ search'.stage \in {"done", Coming[n + 1]}
          /\ search'.fused = <<>> /\ search'.found = <<>>
          /\ Sound(search'.evidence, present) /\ Len(search'.evidence) <= MaxEvidence
          /\ \A k \in DOMAIN search'.evidence : Priority(search'.evidence[k].source) <= n
      BY <1>1, <2>1, <3>2, <3>4, <3>5, <3>7
    <3> QED
      BY <1>1, <3>4, <3>8, SourceIsDone
  <2>2. CASE search.kind # "evidence"
    <3>1. search' = [search EXCEPT !.lists = <<>>, !.stage = "done"]
      BY <2>2 DEF SearchFails
    <3> QED
      BY <1>1, <1>3, <2>2, <3>1, EndedHolds
  <2> QED
    BY <2>1, <2>2
<1> QED
  BY <1>1, <1>2, <1>4 DEF SearchInv

\* What a source gave, after the others: cut, it goes on being sound.
LEMMA EvidenceGrows ==
    ASSUME SearchInv, NEW n \in Running, search.kind = "evidence",
           Len(search.lists) = 2 * Many("evidence", n)
    PROVE  /\ Sound(First(search.evidence \o Gathered(n), MaxEvidence), present)
           /\ Len(First(search.evidence \o Gathered(n), MaxEvidence)) <= MaxEvidence
           /\ \A k \in DOMAIN First(search.evidence \o Gathered(n), MaxEvidence) :
                Priority(First(search.evidence \o Gathered(n), MaxEvidence)[k].source) <= n
<1> DEFINE before == search.evidence
           all == before \o Gathered(n)
           cut == First(all, MaxEvidence)
<1>1. /\ n \in 1..3 /\ ListsAre(search.lists, search.kind, n, present)
      /\ \A k \in DOMAIN before : Priority(before[k].source) < n
      /\ search \in SearchRecords
  BY RunningFacts
<1>2. search.lists \in ListSeqs /\ present \in SUBSET Chunks
  BY <1>1 DEF SearchRecords, SearchInv
<1>3. GatheredFrom(n)
  BY <1>1, <1>2, GatheredIsEvidence
<1>4. PICK s : Gathered(n) = Items(SourceNames[n], s) /\ Listing(s, Sourced(n, present))
  BY <1>3 DEF GatheredFrom
<1>5. Sound(before, present)
  BY DEF SearchInv, Holds, EvidenceHolds
<1>6. Offered(s, n, before, present)
  <2>1. Sourced(n, present) \subseteq Things
    BY <1>2 DEF Sourced, Readable, Things
  <2>2. s \in Seq(Sourced(n, present)) /\ IsInjective(s)
    BY <1>4 DEF Listing
  <2>3. s \in Seq(Things)
    BY <2>1, <2>2, SeqOfMore
  <2>4. \A k \in DOMAIN s : s[k] \in Sourced(n, present)
    BY <2>2, LenProperties
  <2> QED
    BY <1>1, <2>2, <2>3, <2>4 DEF Offered
<1>7. n \in 1..5
  BY <1>1
<1>8. /\ Sound(all, present)
      /\ \A k \in DOMAIN all : Priority(all[k].source) <= n
  <2> HIDE DEF before
  <2> QED
    BY <1>1, <1>4, <1>5, <1>6, <1>7, AddedIsSound
<1> HIDE DEF all
<1>9. all \in Seq(EvidenceItems) /\ MaxEvidence \in Nat
  BY <1>8, NumberFacts DEF Sound
<1>10. Sound(cut, present)
  BY <1>8, <1>9, FirstIsSound
<1>11. /\ Len(cut) = IF MaxEvidence < Len(all) THEN MaxEvidence ELSE Len(all)
       /\ \A k \in DOMAIN cut : k \in DOMAIN all /\ cut[k] = all[k]
       /\ Len(all) \in Nat
  BY <1>9, FirstFacts, LenProperties
<1>12. Len(cut) <= MaxEvidence
  <2> DEFINE m == Len(all)
             c == Len(cut)
  <2>1. m \in Nat /\ c = IF MaxEvidence < m THEN MaxEvidence ELSE m
    BY <1>11
  <2> HIDE DEF m, c
  <2>2. c <= MaxEvidence
    BY <1>9, <2>1
  <2> QED
    BY <2>2 DEF c
<1>13. \A k \in DOMAIN cut : Priority(cut[k].source) <= n
  <2> HIDE DEF cut
  <2> QED
    BY <1>8, <1>11
<1> QED
  BY <1>10, <1>12, <1>13 DEF all

\* The lists of the other searches, fused; the recent ones of recent changes.
LEMMA ResultsAreFound ==
    ASSUME SearchInv, NEW n \in Running, search.kind # "evidence",
           Len(search.lists) = 2 * Len(Statements(n)),
           NEW recent \in Recency(ChunksOf(FusedAll)),
           NEW found,
           found = Kept(ChunksOf(FusedAll),
                        {k \in DOMAIN ChunksOf(FusedAll) : ChunksOf(FusedAll)[k] \in recent})
    PROVE  /\ FusedAll \in HitSeqs /\ found \in ChunkSeqs
           /\ Listing(found, Given(search.kind, present))
           /\ search.kind # "changes" =>
                Len(search.lists) = 2 /\ BothFirst(FusedAll, search.lists[1], search.lists[2])
           /\ search.kind = "question" /\ FusedAll # <<>> => found # <<>>
<1> DEFINE fused == FusedAll
           all == ChunksOf(fused)
           places == {k \in DOMAIN all : all[k] \in recent}
           V == Given(search.kind, present)
<1>1. /\ n = 1 /\ ListsAre(search.lists, search.kind, n, present) /\ search \in SearchRecords
      /\ Many(search.kind, n) = Len(Statements(n))
  BY RunningFacts
<1>2. search.lists \in ListSeqs /\ present \in SUBSET Chunks
      /\ search.kind \in {"question", "incidents", "changes"}
  BY <1>1 DEF SearchRecords, SearchInv, SearchKinds
<1>3. Len(search.lists) = 2 * Many(search.kind, 1)
  BY <1>1
<1>4. /\ Fused(fused, V)
      /\ search.kind # "changes" =>
           Len(search.lists) = 2 /\ BothFirst(fused, search.lists[1], search.lists[2])
  BY <1>1, <1>2, <1>3, FusedAllFacts
<1>5. V \subseteq Chunks
  BY <1>2 DEF Given
<1> HIDE DEF fused, V
<1>6. fused \in HitSeqs
  <2>1. fused \in Seq(Hits(V))
    BY <1>4 DEF Fused, OnceEach
  <2>2. Hits(V) \subseteq Hits(Chunks)
    BY <1>5 DEF Hits
  <2> QED
    BY <2>1, <2>2, SeqOfMore DEF HitSeqs
<1>7. /\ Listing(all, V) /\ DOMAIN all = DOMAIN fused
  BY <1>4, ChunksAreListed
<1> HIDE DEF all
<1>8. Listing(found, V) /\ (places # {} => found # <<>>)
  <2>1. places \in SUBSET DOMAIN all
    OBVIOUS
  <2>2. found = Kept(all, places)
    BY DEF all, fused
  <2> HIDE DEF places
  <2> QED
    BY <1>7, <2>1, <2>2, KeptListing
<1>9. found \in ChunkSeqs
  <2>1. found \in Seq(V)
    BY <1>8 DEF Listing
  <2> QED
    BY <1>5, <2>1, SeqOfMore DEF ChunkSeqs
<1>10. search.kind = "question" /\ fused # <<>> => found # <<>>
  <2> SUFFICES ASSUME search.kind = "question", fused # <<>>
               PROVE  found # <<>>
    OBVIOUS
  <2>1. recent = ToSet(all)
    BY DEF Recency, all, fused
  <2>2. Len(fused) \in Nat \ {0}
    <3>1. fused \in Seq(Hits(Chunks))
      BY <1>6 DEF HitSeqs
    <3> QED
      BY <3>1, EmptySeq
  <2>3. 1 \in DOMAIN all
    <3>1. DOMAIN fused = 1..Len(fused)
      BY <1>6, LenProperties DEF HitSeqs
    <3> QED
      BY <1>7, <2>2, <3>1
  <2>4. places # {}
    BY <2>1, <2>3 DEF ToSet
  <2> HIDE DEF places
  <2> QED
    BY <1>8, <2>4
<1> QED
  BY <1>4, <1>6, <1>8, <1>9, <1>10 DEF fused, V

\* A search that has its results: it reranks them, or ends.
LEMMA ResultsHold ==
    ASSUME SearchInv, NEW n \in Running, search.kind # "evidence",
           NEW fused \in HitSeqs, NEW found \in ChunkSeqs,
           Listing(found, Given(search.kind, present)),
           search.kind # "changes" =>
                Len(search.lists) = 2 /\ BothFirst(fused, search.lists[1], search.lists[2]),
           search.kind = "question" /\ fused # <<>> => found # <<>>,
           search' = [search EXCEPT !.fused = fused, !.found = found,
                        !.stage = IF search.kind = "question" THEN "rerank" ELSE "done"]
    PROVE  Holds(search', present)
<1> DEFINE next == IF search.kind = "question" THEN "rerank" ELSE "done"
           t == search'
<1>1. next \in {"rerank", "done"} /\ (next = "rerank" <=> search.kind = "question")
  OBVIOUS
<1>2. "rerank" \in Stages /\ "done" \in Stages
  BY DEF Stages
<1>3. search \in SearchRecords
  BY DEF SearchInv, Holds
<1>4. t = [search EXCEPT !.fused = fused, !.found = found, !.stage = next]
  OBVIOUS
<1> HIDE DEF next, t
<1>5. /\ t \in SearchRecords /\ t.kind = search.kind /\ t.stage = next
      /\ t.lists = search.lists /\ t.fused = fused /\ t.found = found
      /\ t.evidence = search.evidence
  BY <1>1, <1>2, <1>3, <1>4 DEF SearchRecords
<1>6. search.evidence = <<>>
  BY DEF SearchInv, Holds, EvidenceHolds
<1>7. t.stage # "new" /\ \A p \in 1..5 : t.stage # Coming[p]
  BY <1>1, <1>5, StageFacts
<1>8. RunHolds(t, present)
  <2>1. \A m \in 1..3 : t.stage # Source(m)
    BY <1>1, <1>5, StageFacts
  <2> QED
    BY <2>1 DEF RunHolds
<1>9. FoundHolds(t, present)
  BY <1>1, <1>5 DEF FoundHolds
<1>10. EvidenceHolds(t, present)
  <2>1. Len(<<>>) = 0 /\ DOMAIN <<>> = {}
    OBVIOUS
  <2> QED
    BY <1>1, <1>5, <1>6, <1>7, <2>1, NothingIsSound, NumberFacts DEF EvidenceHolds
<1>11. Holds(t, present)
  BY <1>5, <1>7, <1>8, <1>9, <1>10 DEF Holds
<1> QED
  BY <1>11 DEF t

\* A source that is complete, or a search.
LEMMA CompleteHolds ==
    ASSUME SearchInv, NEW n \in Running, Complete(n)
    PROVE  SearchInv'
<1>1. /\ n \in 1..3 /\ search.fused = <<>> /\ search.found = <<>>
      /\ search \in SearchRecords
      /\ store \subseteq present
      /\ Many(search.kind, n) = Len(Statements(n))
  BY RunningFacts
<1>2. UNCHANGED <<store, written, present, changes>> /\ Len(search.lists) = 2 * Len(Statements(n))
  BY DEF Complete
<1>3. Holds(search', present)
  <2>1. CASE search.kind = "evidence"
    <3> DEFINE all  == search.evidence \o Gathered(n)
               next == NextSource(n, all)
               cut  == First(all, MaxEvidence)
    <3>1. search' = [search EXCEPT !.evidence = cut, !.lists = <<>>, !.stage = next]
      BY <2>1 DEF Complete
    <3>2. next \in {"done", Coming[n + 1]} /\ Coming[n + 1] \in Stages
      BY <1>1, NextSourceFacts
    <3>3. "done" \in Stages /\ <<>> \in ListSeqs
      BY DEF Stages, ListSeqs
    <3>4. Len(search.lists) = 2 * Many("evidence", n)
      BY <1>1, <1>2, <2>1
    <3>5. Sound(cut, present) /\ Len(cut) <= MaxEvidence
          /\ \A k \in DOMAIN cut : Priority(cut[k].source) <= n
      BY <2>1, <3>4, EvidenceGrows
    <3> HIDE DEF next, cut
    <3>6. cut \in ItemSeqs
      BY <3>5 DEF Sound, ItemSeqs
    <3>7. /\ search' \in SearchRecords /\ search'.kind = search.kind /\ search'.stage = next
          /\ search'.lists = <<>> /\ search'.fused = search.fused
          /\ search'.found = search.found /\ search'.evidence = cut
      BY <1>1, <3>1, <3>2, <3>3, <3>6 DEF SearchRecords
    <3>8. /\ search'.kind = "evidence" /\ search'.stage \in {"done", Coming[n + 1]}
          /\ search'.fused = <<>> /\ search'.found = <<>>
          /\ Sound(search'.evidence, present) /\ Len(search'.evidence) <= MaxEvidence
          /\ \A k \in DOMAIN search'.evidence : Priority(search'.evidence[k].source) <= n
      BY <1>1, <2>1, <3>2, <3>5, <3>7
    <3> QED
      BY <1>1, <3>7, <3>8, SourceIsDone
  <2>2. CASE search.kind # "evidence"
    <3> DEFINE fused == FusedAll
               all   == ChunksOf(fused)
    <3>1. PICK recent \in Recency(all) :
            search' = [search EXCEPT !.fused = fused,
                         !.found = Kept(all, {k \in DOMAIN all : all[k] \in recent}),
                         !.stage = IF search.kind = "question" THEN "rerank" ELSE "done"]
      BY <2>2 DEF Complete
    <3> DEFINE found == Kept(all, {k \in DOMAIN all : all[k] \in recent})
    <3>2. /\ fused \in HitSeqs /\ found \in ChunkSeqs
          /\ Listing(found, Given(search.kind, present))
          /\ search.kind # "changes" =>
               Len(search.lists) = 2 /\ BothFirst(fused, search.lists[1], search.lists[2])
          /\ search.kind = "question" /\ fused # <<>> => found # <<>>
      BY <1>2, <2>2, <3>1, ResultsAreFound
    <3>3. search' = [search EXCEPT !.fused = fused, !.found = found,
                         !.stage = IF search.kind = "question" THEN "rerank" ELSE "done"]
      BY <3>1
    <3> HIDE DEF fused, found
    <3> QED
      BY <2>2, <3>2, <3>3, ResultsHold
  <2> QED
    BY <2>1, <2>2
<1> QED
  BY <1>1, <1>2, <1>3 DEF SearchInv

\* A question has its prompt: what was found and there is room for.
LEMMA RerankHolds == ASSUME SearchInv, Rerank PROVE SearchInv'
<1>1. UNCHANGED <<store, written, present, changes>> /\ search.stage = "rerank"
  BY DEF Rerank
<1>2. search \in SearchRecords /\ FoundHolds(search, present) /\ EvidenceHolds(search, present)
  BY DEF SearchInv, Holds
<1>3. /\ search.kind = "question" /\ Listing(search.found, Given("question", present))
      /\ search.fused # <<>> => search.found # <<>>
      /\ search.fused # <<>> =>
           Len(search.lists) = 2 /\ BothFirst(search.fused, search.lists[1], search.lists[2])
      /\ search.evidence = <<>>
  BY <1>1, <1>2 DEF FoundHolds, EvidenceHolds
<1> DEFINE V == Given("question", present)
<1>4. V \in SUBSET Chunks
  BY DEF SearchInv, Given
<1> HIDE DEF V
<1>5. PICK found :
        /\ search' = [search EXCEPT !.found = found, !.stage = "done"]
        /\ Listing(found, V)
        /\ Len(found) > 1 => Tokens(found) <= Room
        /\ search.found # <<>> /\ Narrow > 0 => found # <<>>
  <2>1. CASE search.found = <<>>
    <3>1. search' = [search EXCEPT !.stage = "done"]
      BY <2>1 DEF Rerank
    <3>2. search' = [search EXCEPT !.found = search.found, !.stage = "done"]
      BY <1>2, <3>1 DEF SearchRecords
    <3>3. ~(Len(search.found) > 1)
      BY <2>1
    <3> QED
      BY <1>3, <2>1, <3>2, <3>3 DEF V
  <2>2. CASE search.found # <<>>
    <3>1. PICK s \in Reranked(search.found) \cup {First(search.found, Narrow)} :
            search' = [search EXCEPT !.found = Assembled(s), !.stage = "done"]
      BY <2>2 DEF Rerank
    <3>2. Listing(search.found, V)
      BY <1>3 DEF V
    <3>3. Listing(s, V) /\ (Narrow > 0 /\ search.found # <<>> => s # <<>>)
      BY <1>4, <3>1, <3>2, RerankedFacts
    <3>4. /\ Listing(Assembled(s), V)
          /\ s # <<>> => Assembled(s) # <<>>
          /\ Len(Assembled(s)) > 1 => Tokens(Assembled(s)) <= Room
      BY <3>3, AssembledFacts
    <3> QED
      BY <3>1, <3>3, <3>4
  <2> QED
    BY <2>1, <2>2
<1> DEFINE t == search'
<1>6. t = [search EXCEPT !.found = found, !.stage = "done"]
  BY <1>5
<1>7. found \in ChunkSeqs
  <2>1. found \in Seq(V)
    BY <1>5 DEF Listing
  <2> QED
    BY <1>4, <2>1, SeqOfMore DEF ChunkSeqs
<1>8. "done" \in Stages
  BY DEF Stages
<1> HIDE DEF t
<1>9. /\ t \in SearchRecords /\ t.kind = "question" /\ t.stage = "done"
      /\ t.lists = search.lists /\ t.fused = search.fused /\ t.found = found
      /\ t.evidence = <<>>
  BY <1>2, <1>3, <1>6, <1>7, <1>8 DEF SearchRecords
<1>10. RunHolds(t, present)
  <2>1. \A n \in 1..3 : t.stage # Source(n)
    BY <1>9, StageFacts
  <2> QED
    BY <2>1 DEF RunHolds
<1>11. FoundHolds(t, present)
  BY <1>3, <1>5, <1>9 DEF FoundHolds, V
<1>12. EvidenceHolds(t, present)
  <2>1. Len(<<>>) = 0 /\ DOMAIN <<>> = {} /\ \A p \in 1..5 : t.stage # Coming[p]
    BY <1>9, StageFacts
  <2> QED
    BY <1>9, <2>1, NothingIsSound, NumberFacts DEF EvidenceHolds
<1>13. Holds(t, present)
  BY <1>9, <1>10, <1>11, <1>12 DEF Holds
<1>14. store \subseteq present
  BY <1>1 DEF SearchInv
<1> QED
  BY <1>1, <1>13, <1>14 DEF SearchInv, t

\* The last sources.
LEMMA LastSources ==
    ASSUME NEW there, NEW t \in SearchRecords, t.kind = "evidence", t.stage \in {"live", "done"},
           t.fused = <<>>, t.found = <<>>, Sound(t.evidence, there),
           t.stage = "live" => \A k \in DOMAIN t.evidence : Priority(t.evidence[k].source) < 5,
           t.stage = "done" => Len(t.evidence) <= MaxEvidence
    PROVE  Holds(t, there)
<1>1. RunHolds(t, there)
  <2>1. \A n \in 1..3 : t.stage # Source(n)
    BY StageFacts
  <2> QED
    BY <2>1 DEF RunHolds
<1>2. FoundHolds(t, there)
  BY NothingIsListed DEF FoundHolds
<1>3. EvidenceHolds(t, there)
  <2>1. ASSUME NEW p \in 1..5, t.stage = Coming[p]
        PROVE  \A k \in DOMAIN t.evidence : Priority(t.evidence[k].source) < p
    <3>1. p = 5 /\ t.stage = "live"
      <4>1. 5 \in 1..5 /\ Coming[5] = "live" /\ Coming[p] # "done"
        BY StageFacts
      <4> QED
        BY <2>1, <4>1, StageFacts
    <3> QED
      BY <3>1
  <2> QED
    BY <2>1 DEF EvidenceHolds
<1> QED
  BY <1>1, <1>2, <1>3 DEF Holds

\* What holds while the last sources are asked.
LEMMA LastFacts ==
    ASSUME SearchInv, NEW p \in {4, 5}, search.stage = Coming[p]
    PROVE  /\ search \in SearchRecords /\ search.kind = "evidence"
           /\ search.fused = <<>> /\ search.found = <<>>
           /\ Sound(search.evidence, present)
           /\ \A k \in DOMAIN search.evidence : Priority(search.evidence[k].source) < p
           /\ store \subseteq present
<1>1. p \in 1..5 /\ search.stage \in {"postmortems", "live"}
  BY StageFacts
<1>2. search \in SearchRecords /\ FoundHolds(search, present) /\ EvidenceHolds(search, present)
  BY DEF SearchInv, Holds
<1>3. search.kind = "evidence" /\ Sound(search.evidence, present)
  BY <1>1, <1>2 DEF EvidenceHolds
<1>4. \A k \in DOMAIN search.evidence : Priority(search.evidence[k].source) < p
  BY <1>1, <1>2 DEF EvidenceHolds
<1>5. search.fused = <<>> /\ search.found = <<>>
  BY <1>2, <1>3 DEF FoundHolds
<1>6. store \subseteq present
  BY <1>1 DEF SearchInv
<1> QED
  BY <1>2, <1>3, <1>4, <1>5, <1>6

\* Postmortems that no runbook told.
LEMMA GatherPostmortemsHolds == ASSUME SearchInv, GatherPostmortems PROVE SearchInv'
<1> DEFINE before == search.evidence
<1>1. UNCHANGED <<store, written, present, changes>> /\ search.stage = "postmortems"
  BY DEF GatherPostmortems
<1>2. PICK list \in ListsOf(written \ Told) :
        search' = [search EXCEPT !.evidence = @ \o Items("postmortem", list), !.stage = "live"]
  BY DEF GatherPostmortems
<1>3. /\ search \in SearchRecords /\ search.kind = "evidence"
      /\ search.fused = <<>> /\ search.found = <<>>
      /\ Sound(before, present)
      /\ \A k \in DOMAIN before : Priority(before[k].source) < 4
      /\ store \subseteq present
  <2>1. search.stage = Coming[4] /\ 4 \in {4, 5}
    BY <1>1, StageFacts
  <2> QED
    BY <2>1, LastFacts
<1>4. Told = ToldBy(before)
  BY DEF Told, ToldBy
<1> DEFINE V == Incidents \ ToldBy(before)
<1>5. list \in Seq(V) /\ IsInjective(list)
  <2>1. PICK S \in SUBSET (written \ Told) : list \in SetToSeqs(S)
    BY <1>2 DEF ListsOf
  <2>2. S \subseteq V
    BY <1>4 DEF SearchInv
  <2>3. IsFiniteSet(Incidents) /\ V \subseteq Incidents
    BY RetrievalConstants DEF RetrievalConstants
  <2> HIDE DEF V
  <2>4. IsFiniteSet(V)
    BY <2>3, FS_Subset
  <2> QED
    BY <2>1, <2>2, <2>4, PermutationFacts
<1>6. Offered(list, 4, before, present)
  <2>1. V \subseteq Things
    BY DEF Things
  <2>2. \A k \in DOMAIN list : list[k] \in V
    BY <1>5, LenProperties
  <2> HIDE DEF V
  <2>3. list \in Seq(Things)
    BY <1>5, <2>1, SeqOfMore
  <2> QED
    BY <1>5, <2>2, <2>3 DEF Offered, V
<1> DEFINE all == before \o Items("postmortem", list)
<1>7. Sound(all, present) /\ \A k \in DOMAIN all : Priority(all[k].source) <= 4
  <2>1. 4 \in 1..5 /\ SourceNames[4] = "postmortem"
    BY SourceFacts
  <2> HIDE DEF before
  <2> QED
    BY <1>3, <1>6, <2>1, AddedIsSound
<1>8. search' = [search EXCEPT !.evidence = all, !.stage = "live"]
  BY <1>2
<1> HIDE DEF all
<1>9. \A k \in DOMAIN all : Priority(all[k].source) < 5
  <2>1. \A k \in DOMAIN all : Priority(all[k].source) \in 1..5
    BY <1>7, PrioritiesAreNumbers
  <2> QED
    BY <1>7, <2>1
<1>10. all \in ItemSeqs /\ "live" \in Stages
  BY <1>7 DEF Sound, ItemSeqs, Stages
<1>11. /\ search' \in SearchRecords /\ search'.kind = "evidence" /\ search'.stage = "live"
       /\ search'.fused = <<>> /\ search'.found = <<>> /\ search'.evidence = all
  BY <1>3, <1>8, <1>10 DEF SearchRecords
<1>12. /\ search'.stage \in {"live", "done"} /\ Sound(search'.evidence, present)
       /\ search'.stage = "live" =>
            \A k \in DOMAIN search'.evidence : Priority(search'.evidence[k].source) < 5
       /\ search'.stage = "done" => Len(search'.evidence) <= MaxEvidence
  BY <1>7, <1>9, <1>11
<1>13. Holds(search', present)
  BY <1>11, <1>12, LastSources
<1> QED
  BY <1>1, <1>3, <1>13 DEF SearchInv

\* Live lookups, which are cut to what there is room for.
LEMMA GatherLiveHolds == ASSUME SearchInv, GatherLive PROVE SearchInv'
<1> DEFINE before == search.evidence
<1>1. UNCHANGED <<store, written, present, changes>> /\ search.stage = "live"
  BY DEF GatherLive
<1>2. PICK n \in 0..MaxEvidence :
        search' = [search EXCEPT !.stage = "done",
            !.evidence = First(@ \o Items("live", [k \in 1..n |-> k]), MaxEvidence)]
  BY DEF GatherLive
<1>3. /\ search \in SearchRecords /\ search.kind = "evidence"
      /\ search.fused = <<>> /\ search.found = <<>>
      /\ Sound(before, present)
      /\ \A k \in DOMAIN before : Priority(before[k].source) < 5
      /\ store \subseteq present
  <2>1. search.stage = Coming[5] /\ 5 \in {4, 5}
    BY <1>1, StageFacts
  <2> QED
    BY <2>1, LastFacts
<1> DEFINE list == [k \in 1..n |-> k]
<1>4. Offered(list, 5, before, present)
  <2>1. n \in Nat
    BY <1>2, NumberFacts
  <2>2. list \in [1..n -> Things]
    BY DEF Things
  <2> HIDE DEF list
  <2>3. list \in Seq(Things)
    BY <2>1, <2>2, SeqDef
  <2> QED
    BY <2>3 DEF Offered
<1> DEFINE all == before \o Items("live", list)
           cut == First(all, MaxEvidence)
<1>5. Sound(all, present)
  <2>1. 5 \in 1..5 /\ SourceNames[5] = "live"
    BY SourceFacts
  <2> HIDE DEF before, list
  <2> QED
    BY <1>3, <1>4, <2>1, AddedIsSound
<1>6. search' = [search EXCEPT !.stage = "done", !.evidence = cut]
  BY <1>2
<1> HIDE DEF all
<1>7. all \in Seq(EvidenceItems) /\ MaxEvidence \in Nat
  BY <1>5, NumberFacts DEF Sound
<1>8. Sound(cut, present)
  BY <1>5, <1>7, FirstIsSound
<1>9. Len(cut) <= MaxEvidence
  <2> DEFINE m == Len(all)
             c == Len(cut)
  <2>1. m \in Nat /\ c = IF MaxEvidence < m THEN MaxEvidence ELSE m
    BY <1>7, FirstFacts, LenProperties
  <2> HIDE DEF m, c
  <2>2. c <= MaxEvidence
    BY <1>7, <2>1
  <2> QED
    BY <2>2 DEF c
<1> HIDE DEF cut
<1>10. cut \in ItemSeqs /\ "done" \in Stages
  BY <1>8 DEF Sound, ItemSeqs, Stages
<1>11. /\ search' \in SearchRecords /\ search'.kind = "evidence" /\ search'.stage = "done"
       /\ search'.fused = <<>> /\ search'.found = <<>> /\ search'.evidence = cut
  BY <1>3, <1>6, <1>10 DEF SearchRecords
<1>12. /\ search'.stage \in {"live", "done"} /\ Sound(search'.evidence, present)
       /\ search'.stage = "live" =>
            \A k \in DOMAIN search'.evidence : Priority(search'.evidence[k].source) < 5
       /\ search'.stage = "done" => Len(search'.evidence) <= MaxEvidence
  BY <1>8, <1>9, <1>11
<1>13. Holds(search', present)
  BY <1>11, <1>12, LastSources
<1> QED
  BY <1>1, <1>3, <1>13 DEF SearchInv

-----------------------------------------------------------------------------
(* Searches hold what they promise.                                        *)

\* A search that begins counts what is there.
LEMMA BeginSearchHolds ==
    ASSUME SearchInv, NEW sort \in SearchKinds, BeginSearch(sort)
    PROVE  SearchInv'
<1>1. /\ search.stage = "new" /\ present' = store /\ UNCHANGED <<store, written, changes>>
      /\ search' = [search EXCEPT !.kind = sort, !.stage = Source(1)]
  BY DEF BeginSearch
<1>2. search = NoSearch /\ store \in SUBSET Chunks
  BY <1>1 DEF SearchInv, Holds
<1>3. search' = [NoSearch EXCEPT !.kind = sort, !.stage = Source(1)]
  BY <1>1, <1>2
<1>4. Holds(search', store)
  BY <1>2, <1>3, BeganHolds
<1> QED
  BY <1>1, <1>2, <1>4 DEF SearchInv

\* Documents come and go.
LEMMA ChangesHold ==
    ASSUME SearchInv,
           \/ \E c \in Chunks : Upsert(c) \/ Delete(c)
           \/ \E i \in Incidents : Write(i)
    PROVE  SearchInv'
<1>1. Changed /\ search' = search
  BY DEF Upsert, Delete, Write
<1>2. changes' \in 0..MaxChanges
  <2>1. changes \in 0..MaxChanges /\ changes < MaxChanges /\ changes' = changes + 1
    BY <1>1 DEF Changed, SearchInv
  <2> QED
    BY <2>1, NumberFacts
<1>3. search.stage # "new" /\ store \subseteq present
  BY <1>1 DEF Changed, SearchInv
<1>4. /\ store' \in SUBSET Chunks /\ present' \in SUBSET Chunks /\ written' \in SUBSET Incidents
      /\ store' \subseteq present' /\ present \subseteq present'
  BY <1>3 DEF SearchInv, Upsert, Delete, Write
<1>5. Holds(search, present')
  <2>1. Holds(search, present)
    BY DEF SearchInv
  <2> QED
    BY <1>4, <2>1, HoldsStays
<1>6. Holds(search', present')
  BY <1>1, <1>5
<1> QED
  BY <1>2, <1>4, <1>6 DEF SearchInv

\* Every step of a search keeps it.
LEMMA RetrievalStep == ASSUME SearchInv, [RetrievalNext]_retrievalVars PROVE SearchInv'
<1>1. ASSUME NEW sort \in SearchKinds, BeginSearch(sort) PROVE SearchInv'
  BY <1>1, BeginSearchHolds
<1>2. ASSUME NEW n \in Running, Statement(n) \/ Again(n) \/ Complete(n) \/ SearchFails(n)
      PROVE  SearchInv'
  BY <1>2, StatementHolds, AgainHolds, CompleteHolds, SearchFailsHolds
<1>3. CASE Rerank
  BY <1>3, RerankHolds
<1>4. CASE GatherPostmortems
  BY <1>4, GatherPostmortemsHolds
<1>5. CASE GatherLive
  BY <1>5, GatherLiveHolds
<1>6. CASE \/ \E c \in Chunks : Upsert(c) \/ Delete(c)
           \/ \E i \in Incidents : Write(i)
  BY <1>6, ChangesHold
<1>7. CASE UNCHANGED retrievalVars
  BY <1>7 DEF retrievalVars, SearchInv
<1> QED
  BY <1>1, <1>2, <1>3, <1>4, <1>5, <1>6, <1>7 DEF RetrievalNext

\* The invariant holds.
LEMMA SearchHolds == RetrievalSpec => []SearchInv
<1>1. SearchInv /\ [RetrievalNext]_retrievalVars => SearchInv'
  BY RetrievalStep
<1> QED
  BY <1>1, SearchBegins, PTL DEF RetrievalSpec

\* What is found may be, once, in its order.
LEMMA FoundIsEarned == ASSUME SearchInv PROVE ResultsAreEarned
<1>1. search \in SearchRecords /\ FoundHolds(search, present) /\ EvidenceHolds(search, present)
  BY DEF SearchInv, Holds
<1>2. Listing(search.found, Given(search.kind, present))
  BY <1>1 DEF FoundHolds
<1>3. \A c \in ToSet(search.found) : c \in present /\ Allowed(search.kind, c)
  <2>1. \A k \in DOMAIN search.found : search.found[k] \in Given(search.kind, present)
    BY <1>2, LenProperties DEF Listing
  <2> QED
    BY <2>1 DEF ToSet, Given
<1>4. IsInjective(search.found) /\ Len(search.found) <= TopK
  BY <1>2 DEF Listing
<1> DEFINE both(c) == \A k \in DOMAIN search.lists : c \in ToSet(search.lists[k])
           hits == search.fused
<1>5. ASSUME search.kind # "changes", TopK <= Damping + 1, NEW i \in DOMAIN hits, NEW j \in DOMAIN hits,
             both(hits[i].chunk), ~both(hits[j].chunk)
      PROVE  i < j
  <2>1. hits # <<>>
    OBVIOUS
  <2>2. Len(search.lists) = 2 /\ BothFirst(hits, search.lists[1], search.lists[2])
    BY <1>1, <1>5, <2>1 DEF FoundHolds
  <2>3. DOMAIN search.lists = {1, 2}
    <3>1. search.lists \in ListSeqs
      BY <1>1 DEF SearchRecords
    <3>2. DOMAIN search.lists = 1..2
      BY <2>2, <3>1, LenProperties DEF ListSeqs
    <3>3. 1..2 = {1, 2}
      OBVIOUS
    <3> QED
      BY <3>2, <3>3
  <2>4. hits[i].chunk \in ToSet(search.lists[1]) /\ hits[i].chunk \in ToSet(search.lists[2])
    BY <1>5, <2>3
  <2>5. hits[j].chunk \notin ToSet(search.lists[1]) \/ hits[j].chunk \notin ToSet(search.lists[2])
    BY <1>5, <2>3
  <2> QED
    BY <1>5, <2>2, <2>4, <2>5 DEF BothFirst, FewAreAsked
<1>6. search.kind = "question" /\ search.stage = "done" =>
        /\ Len(search.found) > 1 => Tokens(search.found) <= Room
        /\ search.fused # <<>> /\ Narrow > 0 => search.found # <<>>
  BY <1>1 DEF FoundHolds
<1> QED
  BY <1>3, <1>4, <1>5, <1>6 DEF ResultsAreEarned

\* Evidence is of each piece once.
LEMMA EvidenceIsOnce == ASSUME SearchInv PROVE EvidenceIsDistinct
<1>1. EvidenceHolds(search, present) /\ present \in SUBSET Chunks
  BY DEF SearchInv, Holds
<1>2. Sound(search.evidence, present) /\ (search.stage = "done" => Len(search.evidence) <= MaxEvidence)
  BY <1>1 DEF EvidenceHolds
<1> QED
  BY <1>1, <1>2, SoundIsDistinct

(***************************************************************************)
(* Whatever documents come and go while a search runs, and whatever its    *)
(* statements find of them: what it hands on was there and may be read,    *)
(* each chunk once, those first that words and vectors both found          *)
(* (fusion.py:24-28); evidence is of each piece once and by priority.      *)
(***************************************************************************)
THEOREM SearchIsAlwaysSound == RetrievalSpec => []SearchIsSound
<1>1. SearchInv => SearchIsSound
  BY FoundIsEarned, EvidenceIsOnce DEF SearchIsSound
<1> QED
  BY <1>1, SearchHolds, PTL

\* The types of a search (retrieval/search.py), of every collection of documents.
THEOREM RetrievalTypesHold == RetrievalSpec => []RetrievalTypeOK
<1>1. SearchInv => RetrievalTypeOK
  BY DEF SearchInv, Holds, SearchRecords, RetrievalTypeOK, ListSeqs, ChunkSeqs
<1> QED
  BY <1>1, SearchHolds, PTL

-----------------------------------------------------------------------------
(* The parts of a run, and what they promise together (MCServices).        *)

LEMMA AsksAreAPart == MCSpec => AskSpec
<1>1. MCInit => AskInit
  BY DEF MCInit
<1>2. [MCNext]_mcVars => [AskNext]_askVars
  BY DEF MCNext, mcVars, askVars
<1> QED
  BY <1>1, <1>2, PTL DEF MCSpec, AskSpec

LEMMA RepliesAreAPart == MCSpec => GroundingSpec
<1>1. MCInit => GroundingInit
  BY DEF MCInit
<1>2. [MCNext]_mcVars => [GroundingNext]_groundingVars
  BY DEF MCNext, mcVars, groundingVars
<1> QED
  BY <1>1, <1>2, PTL DEF MCSpec, GroundingSpec

\* What an ask says of its review is true, and its reply rests on what was found: the
\* answer on its chunks, a hypothesis on evidence, the verdict on the critique it names.
THEOREM RepliesAreAlwaysEarned == MCSpec => []RepliesAreEarned
<1>1. ReviewIsEarned /\ RepliesRest => RepliesAreEarned
  BY DEF RepliesAreEarned
<1> QED
  BY <1>1, AsksAreAPart, RepliesAreAPart, ReviewsAreEarned, RepliesAlwaysRest, PTL

=============================================================================
