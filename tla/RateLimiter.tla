---------------------------- MODULE RateLimiter ----------------------------
(***************************************************************************)
(* The token buckets of the server's rate limiter (rate_limiter.py): the   *)
(* request threads that ask allow(), which read the clock before they take *)
(* the lock, and the thread that sweeps stale buckets.                     *)
(*                                                                         *)
(* Tokens are counted in the clock ticks it takes to accrue them, so that  *)
(* the refill rate is one.  The limiter is enabled; a disabled one has no  *)
(* state.  A bucket of fewer tokens than a request costs is not modelled.  *)
(***************************************************************************)
EXTENDS Integers, FiniteSets

CONSTANTS
  Names,       \* the caller identities requests are counted under
  Threads,     \* request threads
  Burst,       \* requests_per_window * burst_multiplier: the size of a bucket
  Cost,        \* what a request costs
  MaxEntries,  \* max_entries
  MaxLag,      \* ticks a thread may hold a clock value before it has the lock
  MaxClock     \* bound of the model: ticks that pass

ASSUME LimiterAssumption ==
  /\ Burst \in Nat /\ Cost \in Nat \ {0} /\ Cost <= Burst
  /\ MaxEntries \in Nat \ {0} /\ MaxClock \in Nat
  /\ MaxLag \in Nat /\ 2 * MaxLag <= Burst

NoTime == -1
Sweeper == "sweeper"
Holders == Threads \cup {Sweeper}

\* Mutant: int(window / requests), zero for more than a request per second.
RetryTruncated == 0

\* int(window / requests) + 1 seconds, more than one token takes to accrue.
RetryAfter == Cost + 1

VARIABLES
  clock,    \* time.monotonic()
  buckets,  \* _buckets
  now,      \* the clock value each thread holds, or NoTime
  spent,    \* per name, what was granted since the window of interest opened ...
  since,    \* ... and when that was: any time, or when its bucket was evicted
  refused   \* when it was first refused since it was last granted a request

limiter == <<clock, buckets, now, spent, since, refused>>

RInit ==
  /\ clock = 0
  /\ buckets = [c \in {} |-> 0]
  /\ now = [t \in Holders |-> NoTime]
  /\ spent = [c \in Names |-> 0]
  /\ since = [c \in Names |-> 0]
  /\ refused = [c \in Names |-> NoTime]

Lesser(a, b) == IF a <= b THEN a ELSE b

Bucket(tokens, last_refill) == [tokens |-> tokens, last_refill |-> last_refill]

Tick ==
  /\ clock < MaxClock
  /\ \A t \in Holders : now[t] # NoTime => clock - now[t] < MaxLag
  /\ clock' = clock + 1
  /\ UNCHANGED <<buckets, now, spent, since, refused>>

ReadClock(t) ==
  /\ now[t] = NoTime
  /\ now' = [now EXCEPT ![t] = clock]
  /\ UNCHANGED <<clock, buckets, spent, since, refused>>

\* Mutant: a clock value from before the last refill takes nothing back.
RefilledForward(b, time) ==
  Bucket(Lesser(Burst, b.tokens + (IF time > b.last_refill THEN time - b.last_refill ELSE 0)), time)

\* An older clock value takes back what had accrued since.
Refilled(b, time) == Bucket(Lesser(Burst, b.tokens + (time - b.last_refill)), time)

Full(c) == c \notin DOMAIN buckets /\ Cardinality(DOMAIN buckets) >= MaxEntries

\* The bucket _evict_oldest takes; among equally old ones the first of the dict.
Oldest == {c \in DOMAIN buckets :
             \A d \in DOMAIN buckets : buckets[c].last_refill <= buckets[d].last_refill}
Evicted(c) == IF Full(c) THEN {{d} : d \in Oldest} ELSE {{}}

Filled(c, time) == IF c \in DOMAIN buckets THEN Refilled(buckets[c], time) ELSE Bucket(Burst, time)

Granted(c, time) == Filled(c, time).tokens >= Cost

\* allow(), from the lock on.
Allow(t, c) ==
  /\ now[t] # NoTime
  /\ now' = [now EXCEPT ![t] = NoTime]
  /\ \E gone \in Evicted(c) :
       LET price == IF Granted(c, now[t]) THEN Cost ELSE 0
           filled == Filled(c, now[t])
       IN /\ buckets' = [d \in (DOMAIN buckets \ gone) \cup {c} |->
                           IF d = c THEN Bucket(filled.tokens - price, filled.last_refill)
                           ELSE buckets[d]]
          /\ spent' = [d \in Names |-> IF d \in gone THEN 0
                                       ELSE IF d = c THEN spent[c] + price ELSE spent[d]]
          /\ since' = [d \in Names |-> IF d \in gone THEN clock ELSE since[d]]
  /\ refused' = [refused EXCEPT ![c] = IF Granted(c, now[t]) THEN NoTime
                                       ELSE IF @ = NoTime THEN clock ELSE @]
  /\ UNCHANGED clock

\* Twice the time an empty bucket takes to fill.
Stale(b) == b.last_refill < now[Sweeper] - 2 * Burst

\* _cleanup_sweep
Sweep ==
  /\ now[Sweeper] # NoTime
  /\ now' = [now EXCEPT ![Sweeper] = NoTime]
  /\ buckets' = [c \in {d \in DOMAIN buckets : ~Stale(buckets[d])} |-> buckets[c]]
  /\ UNCHANGED <<clock, spent, since, refused>>

\* Not of the program: a window of interest may open at any time.
Observe(c) ==
  /\ spent[c] > 0
  /\ spent' = [spent EXCEPT ![c] = 0]
  /\ since' = [since EXCEPT ![c] = clock]
  /\ UNCHANGED <<clock, buckets, now, refused>>

RNext ==
  \/ Tick \/ Sweep \/ \E t \in Holders : ReadClock(t)
  \/ \E c \in Names : Observe(c) \/ \E t \in Threads : Allow(t, c)

RSpec == RInit /\ [][RNext]_limiter

-----------------------------------------------------------------------------
(***************************************************************************)
(* Properties.                                                             *)
(***************************************************************************)
RTypeOK ==
  /\ clock \in Nat
  /\ DOMAIN buckets \subseteq Names /\ Cardinality(DOMAIN buckets) <= MaxEntries
  /\ \A c \in DOMAIN buckets : buckets[c] \in [tokens : Int, last_refill : Nat]
  /\ now \in [Holders -> Nat \cup {NoTime}]
  /\ spent \in [Names -> Nat] /\ since \in [Names -> Nat]
  /\ refused \in [Names -> Nat \cup {NoTime}]

\* In no window of time is a caller granted more than a full bucket and what
\* accrues meanwhile, give or take the lag of the clock values: not by threads
\* that refill a bucket out of order, nor by a bucket that is swept and made anew,
\* as long as it is not evicted.
GrantsBounded ==
  \A c \in Names : spent[c] <= Burst + (clock - since[c]) + MaxLag

\* A caller that waits for as long as Retry-After told it is granted its next
\* request, whatever other threads did to its bucket with older clock values.
RetryHonoured ==
  [][\A c \in Names : \A t \in Threads :
       refused[c] # NoTime /\ now[t] >= refused[c] + RetryAfter /\ Allow(t, c)
         => refused'[c] = NoTime]_limiter
=============================================================================
