------------------------------- MODULE Buckets -------------------------------
(***************************************************************************)
(* The token buckets that limit requests (app/shared): one in Redis, which *)
(* all processes share and which Redis forgets when it has been idle for   *)
(* long enough, and one in the memory of a process.                        *)
(*                                                                         *)
(* Tokens are counted in units, Unit of them to a token, and time in       *)
(* ticks.  Reading, refilling and taking is one step: a script in Redis,   *)
(* or a lock.  The clock is kept as the age of what is stored.             *)
(***************************************************************************)
EXTENDS Naturals

CONSTANTS
    Unit,         \* units of one token
    Rates,        \* units that may be refilled each tick
    Capacities,   \* capacities that a caller may give
    NoCapacity,   \* the caller gives none
    MinTTL,       \* ticks that Redis keeps an idle bucket at least
    Callers

ASSUME BucketConstants ==
    /\ Unit \in Nat \ {0}
    /\ Rates \subseteq Nat \ {0}
    /\ Capacities \subseteq Nat
    /\ \A c \in Capacities : c >= Unit
    /\ NoCapacity \notin Capacities
    /\ MinTTL \in Nat

VARIABLES
    limit,    \* [rate, capacity, shared]: the limiter, and what its callers pass
    bucket,   \* what is stored: [kept, tokens, age]
    level,    \* auxiliary: units used and not yet refilled, by a reference meter
    sleeps,   \* callers of acquire: ticks to sleep, or Awake
    waived   \* auxiliary: the store has failed or was emptied

bucketVars == <<limit, bucket, level, sleeps, waived>>

Larger(x, y)  == IF x >= y THEN x ELSE y
Smaller(x, y) == IF x <= y THEN x ELSE y
Ceiling(x, y) == (x + y - 1) \div y

Awake == [told |-> FALSE, ticks |-> 0]

\* effective_capacity and initial_tokens: without a capacity, a second's worth, and
\* never less than a token.
Capacity == IF limit.capacity = NoCapacity THEN Larger(limit.rate, Unit) ELSE limit.capacity
Initial  == IF limit.capacity = NoCapacity THEN limit.rate ELSE limit.capacity

\* With a plausible mistake: half the time that a refill takes.
TTL_Half == Larger(MinTTL, Ceiling(Capacity, 2 * limit.rate))

\* PEXPIRE: at least two full refills.
TTL == Larger(MinTTL, Ceiling(2 * Capacity, limit.rate))

Forgotten == [kept |-> FALSE, tokens |-> 0, age |-> 0]

BucketInit ==
    /\ limit \in [rate : Rates, capacity : Capacities \cup {NoCapacity}, shared : BOOLEAN]
    /\ bucket = Forgotten
    /\ level = 0
    /\ sleeps = [c \in Callers |-> Awake]
    /\ waived = FALSE

-----------------------------------------------------------------------------
\* With a plausible mistake: a full bucket runs over.
Refilled_Over == IF bucket.kept THEN bucket.tokens + bucket.age * limit.rate ELSE Initial

\* _refill, or the first part of the script.
Refilled == IF bucket.kept THEN Smaller(Capacity, bucket.tokens + bucket.age * limit.rate)
            ELSE Initial

\* ((1 - tokens) / rate), rounded up.
Wait(tokens) == Larger(1, Ceiling(Unit - tokens, limit.rate))

Stored(tokens) == [kept |-> TRUE, tokens |-> tokens, age |-> 0]

\* The reference meter; beyond one token too many it is not read (a bound of the model).
Used == Smaller(level + Unit, Capacity + Unit)

Take ==
    /\ Refilled >= Unit
    /\ bucket' = Stored(Refilled - Unit)
    /\ level' = Used

\* What sleeping callers were told counts no more: another was served, or the bucket
\* was forgotten.
Untold == [c \in Callers |-> [sleeps[c] EXCEPT !.told = FALSE]]

\* acquire: take one, or sleep and try again.
Acquire(c) ==
    /\ sleeps[c].ticks = 0
    /\ \/ /\ Take
          /\ sleeps' = [Untold EXCEPT ![c] = Awake]
       \/ /\ Refilled < Unit
          /\ bucket' = Stored(Refilled)
          /\ sleeps' = [sleeps EXCEPT ![c] = [told |-> TRUE, ticks |-> Wait(Refilled)]]
          /\ UNCHANGED level
    /\ UNCHANGED <<limit, waived>>

\* try_acquire: take one, or be refused at once (RateLimitedError).
TryAcquire(c) ==
    /\ sleeps[c] = Awake
    /\ \/ /\ Take
          /\ sleeps' = Untold
       \/ /\ Refilled < Unit
          /\ bucket' = Stored(Refilled)
          /\ UNCHANGED <<level, sleeps>>
    /\ UNCHANGED <<limit, waived>>

\* Redis does not answer: try_acquire lets the request pass.
FailsOpen ==
    /\ limit.shared
    /\ waived' = TRUE
    /\ UNCHANGED <<limit, bucket, level, sleeps>>

\* Redis, or the process that keeps the bucket, restarts.
StoreIsEmptied ==
    /\ bucket.kept
    /\ bucket' = Forgotten
    /\ waived' = TRUE
    /\ UNCHANGED <<limit, level, sleeps>>

\* Time passes for all; what has been idle for the TTL is gone from Redis.
Expires == limit.shared /\ bucket.age + 1 >= TTL

Tick ==
    /\ bucket' = IF ~bucket.kept THEN bucket
                 ELSE IF Expires THEN Forgotten
                 ELSE [bucket EXCEPT !.age = Smaller(@ + 1, TTL)]
    /\ level' = level - Smaller(level, limit.rate)
    /\ sleeps' = [c \in Callers |->
                    [(IF Expires THEN Untold ELSE sleeps)[c] EXCEPT !.ticks = @ - Smaller(@, 1)]]
    /\ UNCHANGED <<limit, waived>>

BucketNext ==
    \/ \E c \in Callers : Acquire(c) \/ TryAcquire(c)
    \/ FailsOpen \/ StoreIsEmptied \/ Tick

BucketSpec == BucketInit /\ [][BucketNext]_bucketVars

-----------------------------------------------------------------------------
BucketTypeOK ==
    /\ limit \in [rate : Rates, capacity : Capacities \cup {NoCapacity}, shared : BOOLEAN]
    /\ bucket \in [kept : BOOLEAN, tokens : 0..Capacity, age : 0..TTL]
    /\ level \in Nat
    /\ sleeps \in [Callers -> [told : BOOLEAN, ticks : 0..Wait(0)]]
    /\ waived \in BOOLEAN

(***************************************************************************)
(* The limit holds over every stretch of time, through the expiry of an    *)
(* idle bucket: never more than a capacity at once and the rate after it.  *)
(* And a caller that has slept for as long as it was told, while nobody    *)
(* else was served, is served, unless it slept through the expiry.  Both   *)
(* but for an outage or a restart of the store.                            *)
(***************************************************************************)
LimitHolds ==
    waived \/ /\ level <= Capacity
               /\ \A c \in Callers : sleeps[c].told /\ sleeps[c].ticks = 0 => Refilled >= Unit
=============================================================================
