-------------------------- MODULE FrontDoorProofs --------------------------
(***************************************************************************)
(* The rate limiter and the server in front of the queue, for every number *)
(* of callers, threads, tasks and requests, every size of a bucket and     *)
(* every page size.                                                        *)
(***************************************************************************)
EXTENDS FrontDoor, SequenceTheorems, FiniteSetTheorems, TLAPS

(***************************************************************************)
(* The rate limiter.  A bucket may go below zero, by as much as a clock    *)
(* value may lag, when it is refilled out of order; what makes the bound   *)
(* hold is that spent + tokens - last_refill never grows, and that a       *)
(* bucket is swept only when it would long be full.                        *)
(***************************************************************************)
BucketTyped(b) == b \in [tokens : Int, last_refill : Int]

Typed ==
  /\ clock \in Nat
  /\ DOMAIN buckets \subseteq Names
  /\ buckets = [c \in DOMAIN buckets |-> buckets[c]]
  /\ \A c \in DOMAIN buckets : BucketTyped(buckets[c])
  /\ now \in [Holders -> Int]
  /\ spent \in [Names -> Nat] /\ since \in [Names -> Nat]

\* A clock value that is held is at most MaxLag old.
Recent(time) == clock - MaxLag <= time /\ time <= clock
HeldRecent == \A t \in Holders : now[t] # NoTime => Recent(now[t])

\* A bucket is never above its size; it would not be empty if it were refilled now.
Sound(b) ==
  /\ b.tokens <= Burst /\ -MaxLag <= b.tokens
  /\ b.last_refill <= clock
  /\ 0 <= b.tokens + (clock - b.last_refill)

\* What was granted since the window opened, and what is left, against the time.
Paid(c) == spent[c] + (buckets[c].tokens - buckets[c].last_refill) <= Burst - since[c] + MaxLag

Account(c) ==
  /\ since[c] <= clock
  /\ c \in DOMAIN buckets => Sound(buckets[c])
  /\ c \in DOMAIN buckets /\ spent[c] > 0 => Paid(c)
  /\ c \notin DOMAIN buckets => spent[c] <= clock - since[c]

Accounted == \A c \in Names : Account(c)

Inv == Typed /\ HeldRecent /\ Accounted

-----------------------------------------------------------------------------
\* A bucket that is asked for by a thread whose clock value is recent: whatever was
\* there, it is typed and sound, and no more is owed than before.
LEMMA FilledSound ==
  ASSUME Inv, NEW c \in Names, NEW time \in Int, Recent(time)
  PROVE  LET f == Filled(c, time) IN
         /\ BucketTyped(f) /\ f.last_refill = time
         /\ Sound(f)
         /\ spent[c] > 0 => spent[c] + (f.tokens - time) <= Burst - since[c] + MaxLag
<1> USE LimiterAssumption DEF Inv, Recent, Sound, BucketTyped
<1>1. CASE c \in DOMAIN buckets
  <2> DEFINE b == buckets[c]
  <2>1. /\ b.tokens \in Int /\ b.last_refill \in Int
        /\ Filled(c, time) = Bucket(Lesser(Burst, b.tokens + (time - b.last_refill)), time)
    BY <1>1 DEF Filled, Refilled, Typed
  <2>2. /\ Filled(c, time).last_refill = time
        /\ Filled(c, time).tokens = Lesser(Burst, b.tokens + (time - b.last_refill))
        /\ BucketTyped(Filled(c, time))
    BY <2>1 DEF Bucket, Lesser
  <2>3. Sound(b) /\ clock \in Nat /\ spent[c] \in Nat /\ since[c] \in Nat /\ since[c] <= clock
    BY <1>1 DEF Accounted, Account, Typed
  <2>4. spent[c] > 0 => spent[c] + (b.tokens - b.last_refill) <= Burst - since[c] + MaxLag
    BY <1>1 DEF Accounted, Account, Paid
  <2> HIDE DEF b
  <2> QED BY <2>1, <2>2, <2>3, <2>4 DEF Lesser
<1>2. CASE c \notin DOMAIN buckets
  <2>1. Filled(c, time) = [tokens |-> Burst, last_refill |-> time]
    BY <1>2 DEF Filled, Bucket
  <2>2. clock \in Nat /\ spent[c] \in Nat /\ since[c] \in Nat /\ spent[c] <= clock - since[c]
    BY <1>2 DEF Accounted, Account, Typed
  <2> QED BY <2>1, <2>2
<1> QED BY <1>1, <1>2

LEMMA InitAccounted == RInit => Inv
BY LimiterAssumption DEF RInit, Inv, Typed, HeldRecent, Accounted, Account, NoTime

LEMMA TickAccounted == ASSUME Inv, Tick PROVE Inv'
<1> USE LimiterAssumption DEF Inv, Tick
<1>1. Typed' BY DEF Typed
<1>2. HeldRecent' BY DEF HeldRecent, Recent, Typed, NoTime
<1>3. Accounted' BY DEF Accounted, Account, Typed, Sound, Paid, BucketTyped
<1> QED BY <1>1, <1>2, <1>3

LEMMA ReadAccounted == ASSUME Inv, NEW t \in Holders, ReadClock(t) PROVE Inv'
<1> USE LimiterAssumption DEF Inv, ReadClock
<1>1. Typed' BY DEF Typed
<1>2. HeldRecent' BY DEF HeldRecent, Recent, Typed, NoTime
<1>3. Accounted' BY DEF Accounted, Account, Sound, Paid
<1> QED BY <1>1, <1>2, <1>3

LEMMA ObserveAccounted == ASSUME Inv, NEW c \in Names, Observe(c) PROVE Inv'
<1> USE LimiterAssumption DEF Inv, Observe
<1>1. Typed' BY DEF Typed
<1>2. HeldRecent' BY DEF HeldRecent, Recent
<1>3. Accounted' BY DEF Accounted, Account, Typed, Sound, Paid
<1> QED BY <1>1, <1>2, <1>3

\* A bucket that is swept was last refilled so long ago that all it has granted has
\* accrued again.
LEMMA SweepAccounted == ASSUME Inv, Sweep PROVE Inv'
<1> USE LimiterAssumption DEF Inv
<1>0. Sweeper \in Holders BY DEF Holders
<1>1. Typed'
  <2> DEFINE left == {d \in DOMAIN buckets : ~Stale(buckets[d])}
  <2>1. buckets' = [c \in left |-> buckets[c]] BY DEF Sweep
  <2>2. DOMAIN buckets' = left BY <2>1
  <2> QED BY <2>1, <2>2, <1>0 DEF Sweep, Typed, NoTime
<1>2. HeldRecent' BY <1>0 DEF Sweep, HeldRecent, Recent, Typed
<1>3. ASSUME NEW c \in Names
      PROVE  Account(c)'
  <2>1. /\ DOMAIN buckets' = {d \in DOMAIN buckets : ~Stale(buckets[d])}
        /\ c \in DOMAIN buckets' => buckets'[c] = buckets[c]
        /\ clock' = clock /\ spent' = spent /\ since' = since
    BY DEF Sweep
  <2>2. CASE c \in DOMAIN buckets'
    BY <2>1, <2>2 DEF Accounted, Account, Sound, Paid
  <2>3. CASE c \notin DOMAIN buckets
    BY <2>1, <2>3 DEF Accounted, Account
  <2>4. CASE c \in DOMAIN buckets /\ c \notin DOMAIN buckets'
    <3>1. buckets[c].last_refill < now[Sweeper] - 2 * Burst
      BY <2>1, <2>4 DEF Stale
    <3>2. now[Sweeper] \in Int /\ now[Sweeper] <= clock
      BY <1>0 DEF Sweep, HeldRecent, Recent, Typed
    <3>3. /\ buckets[c].tokens \in Int /\ buckets[c].last_refill \in Int
          /\ clock \in Nat /\ spent[c] \in Nat /\ since[c] \in Nat /\ since[c] <= clock
          /\ -MaxLag <= buckets[c].tokens
      BY <2>4 DEF Typed, BucketTyped, Accounted, Account, Sound
    <3>4. spent[c] > 0 => spent[c] + (buckets[c].tokens - buckets[c].last_refill) <= Burst - since[c] + MaxLag
      BY <2>4 DEF Accounted, Account, Paid
    <3>5. spent[c] <= clock - since[c]
      BY <3>1, <3>2, <3>3, <3>4
    <3> QED BY <2>1, <2>4, <3>3, <3>5 DEF Account
  <2> QED BY <2>2, <2>3, <2>4
<1>4. Accounted' BY <1>3 DEF Accounted
<1> QED BY <1>1, <1>2, <1>4

\* A grant takes from the bucket what it adds to the account; a bucket that is
\* evicted takes its account with it.
LEMMA AllowAccounted ==
  ASSUME Inv, NEW t \in Threads, NEW c \in Names, Allow(t, c) PROVE Inv'
<1> USE LimiterAssumption DEF Inv
<1> DEFINE f == Filled(c, now[t])
           price == IF Granted(c, now[t]) THEN Cost ELSE 0
<1>0. t \in Holders BY DEF Holders
<1>1. PICK gone \in Evicted(c) :
        /\ buckets' = [d \in (DOMAIN buckets \ gone) \cup {c} |->
                         IF d = c THEN Bucket(f.tokens - price, f.last_refill) ELSE buckets[d]]
        /\ spent' = [d \in Names |-> IF d \in gone THEN 0
                                     ELSE IF d = c THEN spent[c] + price ELSE spent[d]]
        /\ since' = [d \in Names |-> IF d \in gone THEN clock ELSE since[d]]
  BY DEF Allow
<1>2. clock' = clock /\ now' = [now EXCEPT ![t] = NoTime] /\ now[t] # NoTime
  BY DEF Allow
<1>3. now[t] \in Int /\ Recent(now[t])
  BY <1>0, <1>2 DEF HeldRecent, Typed
<1>4. /\ BucketTyped(f) /\ f.last_refill = now[t] /\ Sound(f)
      /\ spent[c] > 0 => spent[c] + (f.tokens - now[t]) <= Burst - since[c] + MaxLag
  BY <1>3, FilledSound
<1>5. price \in Nat /\ (price = 0 \/ (price = Cost /\ f.tokens >= Cost))
  BY DEF Granted
<1>6. gone \subseteq DOMAIN buckets /\ c \notin gone
  <2>1. CASE Full(c) BY <2>1, <1>1 DEF Evicted, Oldest, Full
  <2>2. CASE ~Full(c) BY <2>2, <1>1 DEF Evicted
  <2> QED BY <2>1, <2>2
<1>7. f.tokens \in Int /\ f.last_refill \in Int /\ clock \in Nat
  BY <1>4 DEF BucketTyped, Typed
<1> HIDE DEF f, price
<1>8. DOMAIN buckets' = (DOMAIN buckets \ gone) \cup {c}
  BY <1>1
<1>9. buckets'[c] = [tokens |-> f.tokens - price, last_refill |-> f.last_refill]
  BY <1>1 DEF Bucket
<1>10. \A d \in DOMAIN buckets' : d # c => d \in DOMAIN buckets /\ buckets'[d] = buckets[d]
  BY <1>1, <1>8
<1>11. Typed'
  <2>1. \A d \in DOMAIN buckets' : BucketTyped(buckets'[d])
    BY <1>5, <1>7, <1>9, <1>10 DEF Typed, BucketTyped
  <2>2. DOMAIN buckets' \subseteq Names /\ clock' \in Nat
    BY <1>2, <1>8 DEF Typed
  <2>3. buckets' = [d \in DOMAIN buckets' |-> buckets'[d]]
    BY <1>1
  <2>4. now' \in [Holders -> Int]
    BY <1>0, <1>2 DEF Typed, NoTime
  <2>5. spent' \in [Names -> Nat] /\ since' \in [Names -> Nat]
    BY <1>1, <1>5 DEF Typed
  <2> QED BY <2>1, <2>2, <2>3, <2>4, <2>5 DEF Typed, BucketTyped
<1>12. HeldRecent'
  BY <1>0, <1>2 DEF HeldRecent, Recent, Typed
<1>13. ASSUME NEW d \in Names
       PROVE  Account(d)'
  <2>0. /\ spent[d] \in Nat /\ since[d] \in Nat /\ since[d] <= clock
        /\ MaxLag \in Nat /\ Burst \in Nat /\ Cost \in Nat
    BY DEF Typed, Accounted, Account
  <2>1. CASE d = c
    <3>1. spent'[c] = spent[c] + price /\ since'[c] = since[c] /\ c \in DOMAIN buckets'
      BY <1>1, <1>6, <1>8
    <3>2. buckets'[c].tokens = f.tokens - price /\ buckets'[c].last_refill = f.last_refill
      BY <1>9
    <3>3. Sound(f) /\ Recent(now[t]) /\ f.last_refill = now[t] /\ now[t] \in Int
      BY <1>3, <1>4
    <3>4. Sound(buckets[c])'
      BY <2>0, <1>2, <1>5, <1>7, <3>2, <3>3 DEF Sound, Recent
    <3>5. spent'[c] > 0 => Paid(c)'
      <4> SUFFICES spent'[c] > 0 => spent'[c] + (buckets'[c].tokens - buckets'[c].last_refill)
                                      <= Burst - since'[c] + MaxLag
        BY DEF Paid
      <4>1. CASE spent[c] > 0
        BY <4>1, <2>0, <2>1, <1>4, <1>5, <1>7, <3>1, <3>2, <3>3
      <4>2. CASE spent[c] = 0
        BY <4>2, <2>0, <2>1, <1>5, <1>7, <3>1, <3>2, <3>3 DEF Sound, Recent
      <4> QED BY <4>1, <4>2, <2>0, <2>1
    <3> QED BY <2>0, <2>1, <1>2, <3>1, <3>4, <3>5 DEF Account
  <2>2. CASE d # c /\ d \in gone
    <3>1. spent'[d] = 0 /\ since'[d] = clock /\ d \notin DOMAIN buckets'
      BY <2>2, <1>1, <1>8
    <3> QED BY <3>1, <1>2, <1>7 DEF Account
  <2>3. CASE d # c /\ d \notin gone
    <3>1. spent'[d] = spent[d] /\ since'[d] = since[d]
      BY <2>3, <1>1
    <3>2. d \in DOMAIN buckets' <=> d \in DOMAIN buckets
      BY <2>3, <1>8
    <3>3. d \in DOMAIN buckets' => buckets'[d] = buckets[d]
      BY <2>3, <1>10
    <3> QED BY <3>1, <3>2, <3>3, <1>2, <2>0 DEF Accounted, Account, Sound, Paid
  <2> QED BY <2>1, <2>2, <2>3
<1>14. Accounted' BY <1>13 DEF Accounted
<1> QED BY <1>11, <1>12, <1>14

LEMMA InvBounds == Inv => GrantsBounded
<1> SUFFICES ASSUME Inv, NEW c \in Names PROVE spent[c] <= Burst + (clock - since[c]) + MaxLag
  BY DEF GrantsBounded
<1> USE LimiterAssumption DEF Inv
<1>1. clock \in Nat /\ spent[c] \in Nat /\ since[c] \in Nat /\ since[c] <= clock
  BY DEF Typed, Accounted, Account
<1>2. CASE c \notin DOMAIN buckets
  BY <1>1, <1>2 DEF Accounted, Account
<1>3. CASE c \in DOMAIN buckets
  <2>1. /\ buckets[c].tokens \in Int /\ buckets[c].last_refill \in Int
        /\ 0 <= buckets[c].tokens + (clock - buckets[c].last_refill)
    BY <1>3 DEF Typed, BucketTyped, Accounted, Account, Sound
  <2>2. spent[c] > 0 => spent[c] + (buckets[c].tokens - buckets[c].last_refill) <= Burst - since[c] + MaxLag
    BY <1>3 DEF Accounted, Account, Paid
  <2> QED BY <1>1, <2>1, <2>2
<1> QED BY <1>2, <1>3

\* The account of every caller is kept by everything the request threads and the
\* sweeping thread do, in any order of their clock values.
THEOREM LimiterSafe == RSpec => []Inv
<1>1. Inv /\ [RNext]_limiter => Inv'
  <2> SUFFICES ASSUME Inv, [RNext]_limiter PROVE Inv'
    OBVIOUS
  <2>1. CASE Tick BY <2>1, TickAccounted
  <2>2. CASE Sweep BY <2>2, SweepAccounted
  <2>3. CASE \E t \in Holders : ReadClock(t) BY <2>3, ReadAccounted
  <2>4. CASE \E c \in Names : Observe(c) BY <2>4, ObserveAccounted
  <2>5. CASE \E c \in Names : \E t \in Threads : Allow(t, c) BY <2>5, AllowAccounted
  <2>6. CASE UNCHANGED limiter
    BY <2>6 DEF limiter, Inv, Typed, HeldRecent, Recent, Accounted, Account, Sound, Paid
  <2> QED BY <2>1, <2>2, <2>3, <2>4, <2>5, <2>6 DEF RNext
<1> QED BY InitAccounted, <1>1, PTL DEF RSpec

\* No caller is granted more, in any window of time, than a full bucket and what
\* accrues meanwhile, give or take the lag: not by allow() with old clock values,
\* nor by a bucket that was swept and made anew.
THEOREM GrantsAreBounded == RSpec => []GrantsBounded
BY LimiterSafe, InvBounds, PTL

\* What a refused caller still has to wait for: at the time it was refused its bucket
\* held no less than nothing, and nothing has been taken from it since.
Waits(c) ==
  refused[c] # NoTime /\ c \in DOMAIN buckets
    => 0 <= buckets[c].tokens + (refused[c] - buckets[c].last_refill)

\* Inv, the types, and what is needed to count the entries.
Kept ==
  /\ Inv /\ RTypeOK /\ IsFiniteSet(DOMAIN buckets)
  /\ \A c \in Names : Waits(c)

LEMMA InitKept == RInit => Kept
<1> SUFFICES ASSUME RInit PROVE Kept
  OBVIOUS
<1>1. Inv BY InitAccounted
<1>2. DOMAIN buckets = {} BY DEF RInit
<1>3. IsFiniteSet(DOMAIN buckets) /\ Cardinality(DOMAIN buckets) = 0
  BY <1>2, FS_EmptySet
<1>4. RTypeOK
  BY <1>2, <1>3, LimiterAssumption DEF RTypeOK, RInit, NoTime
<1>5. \A c \in Names : Waits(c)
  BY DEF RInit, Waits
<1> QED BY <1>1, <1>3, <1>4, <1>5 DEF Kept

\* An evicted entry makes room for the new one.
LEMMA RoomKept ==
  ASSUME Kept, NEW c \in Names, NEW gone \in Evicted(c), NEW D,
         D = (DOMAIN buckets \ gone) \cup {c}
  PROVE  IsFiniteSet(D) /\ Cardinality(D) <= MaxEntries
<1> DEFINE held == DOMAIN buckets
<1>1. IsFiniteSet(held) /\ Cardinality(held) \in Nat /\ Cardinality(held) <= MaxEntries /\ MaxEntries \in Nat
  BY FS_CardinalityType, LimiterAssumption DEF Kept, RTypeOK
<1>2. CASE Full(c)
  <2>1. PICK d \in held : gone = {d}
    BY <1>2 DEF Evicted, Oldest
  <2>2. IsFiniteSet(held \ {d}) /\ Cardinality(held \ {d}) = Cardinality(held) - 1
    BY <1>1, <2>1, FS_RemoveElement
  <2>3. /\ IsFiniteSet((held \ {d}) \cup {c})
        /\ \/ Cardinality((held \ {d}) \cup {c}) = Cardinality(held \ {d})
           \/ Cardinality((held \ {d}) \cup {c}) = Cardinality(held \ {d}) + 1
    BY <2>2, FS_AddElement
  <2>4. D = (held \ {d}) \cup {c}
    BY <2>1
  <2>5. /\ IsFiniteSet(D)
        /\ \/ Cardinality(D) = Cardinality(held) - 1
           \/ Cardinality(D) = (Cardinality(held) - 1) + 1
    BY <2>2, <2>3, <2>4, Zenon
  <2> HIDE DEF held
  <2> QED BY <1>1, <2>5
<1>3. CASE ~Full(c)
  <2>1. D = held \cup {c}
    BY <1>3 DEF Evicted
  <2>2. /\ IsFiniteSet(held \cup {c})
        /\ \/ Cardinality(held \cup {c}) = Cardinality(held)
           \/ c \notin held /\ Cardinality(held \cup {c}) = Cardinality(held) + 1
    BY <1>1, FS_AddElement
  <2>3. c \notin held => Cardinality(held) < MaxEntries
    BY <1>1, <1>3 DEF Full
  <2>4. /\ IsFiniteSet(D)
        /\ \/ Cardinality(D) = Cardinality(held)
           \/ c \notin held /\ Cardinality(D) = Cardinality(held) + 1
    BY <2>1, <2>2, Zenon
  <2> HIDE DEF held
  <2> QED BY <1>1, <2>3, <2>4
<1> QED BY <1>2, <1>3

LEMMA TickKept == ASSUME Kept, Tick PROVE Kept'
<1>1. Inv' BY TickAccounted DEF Kept
<1>2. RTypeOK' BY DEF Kept, RTypeOK, Tick
<1> QED BY <1>1, <1>2 DEF Kept, Tick, Waits

LEMMA ReadKept == ASSUME Kept, NEW t \in Holders, ReadClock(t) PROVE Kept'
<1>1. Inv' BY ReadAccounted DEF Kept
<1>2. RTypeOK' BY DEF Kept, RTypeOK, ReadClock
<1> QED BY <1>1, <1>2 DEF Kept, ReadClock, Waits

LEMMA ObserveKept == ASSUME Kept, NEW c \in Names, Observe(c) PROVE Kept'
<1>1. Inv' BY ObserveAccounted DEF Kept
<1>2. RTypeOK' BY DEF Kept, RTypeOK, Observe
<1> QED BY <1>1, <1>2 DEF Kept, Observe, Waits

LEMMA SweepKept == ASSUME Kept, Sweep PROVE Kept'
<1>1. Inv' BY SweepAccounted DEF Kept
<1>2. /\ DOMAIN buckets' \subseteq DOMAIN buckets
      /\ \A c \in DOMAIN buckets' : buckets'[c] = buckets[c]
      /\ clock' = clock /\ spent' = spent /\ since' = since /\ refused' = refused
      /\ now' = [now EXCEPT ![Sweeper] = NoTime]
  BY DEF Sweep
<1>3. IsFiniteSet(DOMAIN buckets') /\ Cardinality(DOMAIN buckets') <= Cardinality(DOMAIN buckets)
  BY <1>2, FS_Subset DEF Kept
<1>4. Cardinality(DOMAIN buckets') \in Nat /\ Cardinality(DOMAIN buckets) \in Nat
  BY <1>3, FS_CardinalityType DEF Kept
<1>5. Cardinality(DOMAIN buckets') <= MaxEntries
  BY <1>3, <1>4, LimiterAssumption DEF Kept, RTypeOK
<1>6. RTypeOK'
  BY <1>2, <1>5 DEF Kept, RTypeOK
<1>7. \A c \in Names : Waits(c)'
  BY <1>2 DEF Kept, Waits
<1> QED BY <1>1, <1>3, <1>6, <1>7 DEF Kept

\* A refusal takes nothing and leaves no more than there was; only a bucket that was
\* not there, or is granted from, is another one.
LEMMA AllowKept ==
  ASSUME Kept, NEW t \in Threads, NEW c \in Names, Allow(t, c) PROVE Kept'
<1> USE LimiterAssumption
<1> DEFINE f == Filled(c, now[t])
           price == IF Granted(c, now[t]) THEN Cost ELSE 0
<1>0. t \in Holders /\ Inv BY DEF Holders, Kept
<1>1. PICK gone \in Evicted(c) :
        /\ buckets' = [d \in (DOMAIN buckets \ gone) \cup {c} |->
                         IF d = c THEN Bucket(f.tokens - price, f.last_refill) ELSE buckets[d]]
        /\ spent' = [d \in Names |-> IF d \in gone THEN 0
                                     ELSE IF d = c THEN spent[c] + price ELSE spent[d]]
        /\ since' = [d \in Names |-> IF d \in gone THEN clock ELSE since[d]]
  BY DEF Allow
<1>2. clock' = clock /\ now' = [now EXCEPT ![t] = NoTime] /\ now[t] # NoTime
  BY DEF Allow
<1>3. now[t] \in Nat /\ Recent(now[t]) /\ clock \in Nat
  BY <1>0, <1>2 DEF Inv, HeldRecent, Kept, RTypeOK
<1>4. BucketTyped(f) /\ f.last_refill = now[t] /\ Sound(f)
  BY <1>0, <1>3, FilledSound
<1>5. price \in Nat /\ f.tokens \in Int /\ f.last_refill \in Nat
  BY <1>3, <1>4 DEF BucketTyped
<1>6. Granted(c, now[t]) <=> f.tokens >= Cost
  BY DEF Granted
<1>7. ~Granted(c, now[t]) => price = 0
  OBVIOUS
<1> HIDE DEF f, price
<1>8. DOMAIN buckets' = (DOMAIN buckets \ gone) \cup {c}
  BY <1>1
<1>9. buckets'[c] = [tokens |-> f.tokens - price, last_refill |-> f.last_refill]
  BY <1>1 DEF Bucket
<1>10. \A d \in DOMAIN buckets' : d # c => d \in DOMAIN buckets /\ buckets'[d] = buckets[d]
  BY <1>1, <1>8
<1>11. refused' = [refused EXCEPT ![c] = IF Granted(c, now[t]) THEN NoTime
                                         ELSE IF @ = NoTime THEN clock ELSE @]
  BY DEF Allow
<1>12. refused \in [Names -> Nat \cup {NoTime}]
  BY DEF Kept, RTypeOK
<1>13. IsFiniteSet(DOMAIN buckets') /\ Cardinality(DOMAIN buckets') <= MaxEntries
  BY <1>1, <1>8, RoomKept
<1>14. RTypeOK'
  <2>1. \A d \in DOMAIN buckets' : buckets'[d] \in [tokens : Int, last_refill : Nat]
    BY <1>5, <1>9, <1>10 DEF Kept, RTypeOK
  <2>2. DOMAIN buckets' \subseteq Names
    BY <1>8 DEF Kept, RTypeOK
  <2>3. now' \in [Holders -> Nat \cup {NoTime}]
    BY <1>2 DEF Kept, RTypeOK
  <2>4. spent' \in [Names -> Nat] /\ since' \in [Names -> Nat]
    BY <1>1, <1>3, <1>5 DEF Kept, RTypeOK
  <2>5. refused' \in [Names -> Nat \cup {NoTime}]
    BY <1>3, <1>11, <1>12
  <2> QED BY <1>2, <1>3, <1>13, <2>1, <2>2, <2>3, <2>4, <2>5 DEF RTypeOK
<1>15. ASSUME NEW d \in Names PROVE Waits(d)'
  <2>1. CASE d # c
    <3>1. refused'[d] = refused[d]
      BY <2>1, <1>11, <1>12
    <3> QED BY <2>1, <3>1, <1>10 DEF Kept, Waits
  <2>2. CASE d = c /\ Granted(c, now[t])
    <3>1. refused'[c] = NoTime
      BY <2>2, <1>11, <1>12
    <3> QED BY <2>2, <3>1 DEF Waits
  <2>3. CASE d = c /\ ~Granted(c, now[t])
    <3>1. buckets'[c].tokens = f.tokens /\ buckets'[c].last_refill = now[t]
      BY <2>3, <1>4, <1>5, <1>7, <1>9
    <3>2. f.tokens < Cost
      BY <2>3, <1>5, <1>6
    <3>3. CASE refused[c] = NoTime
      <4>1. refused'[c] = clock
        BY <2>3, <3>3, <1>11, <1>12
      <4> QED BY <2>3, <3>1, <4>1, <1>3, <1>4, <1>5 DEF Waits, Sound
    <3>4. CASE refused[c] # NoTime
      <4>1. refused'[c] = refused[c] /\ refused[c] \in Nat
        BY <2>3, <3>4, <1>11, <1>12
      <4>2. CASE c \notin DOMAIN buckets
        BY <4>2, <3>2 DEF f, Filled, Bucket
      <4>3. CASE c \in DOMAIN buckets
        <5>1. /\ buckets[c].tokens \in Int /\ buckets[c].last_refill \in Nat
              /\ 0 <= buckets[c].tokens + (refused[c] - buckets[c].last_refill)
          BY <3>4, <4>3 DEF Kept, RTypeOK, Waits
        <5>2. f.tokens = Lesser(Burst, buckets[c].tokens + (now[t] - buckets[c].last_refill))
          BY <4>3 DEF f, Filled, Refilled, Bucket
        <5>3. f.tokens = buckets[c].tokens + (now[t] - buckets[c].last_refill)
          BY <3>2, <5>1, <5>2, <1>3 DEF Lesser
        <5> QED BY <2>3, <3>1, <4>1, <5>1, <5>3, <1>3 DEF Waits
      <4> QED BY <4>2, <4>3
    <3> QED BY <3>3, <3>4
  <2> QED BY <2>1, <2>2, <2>3
<1>16. Inv' BY <1>0, AllowAccounted
<1> QED BY <1>13, <1>14, <1>15, <1>16 DEF Kept

\* By the time Retry-After told, a bucket that is still there has a request's worth.
LEMMA RetryStep ==
  ASSUME Kept, NEW t \in Threads, NEW c \in Names, Allow(t, c),
         refused[c] # NoTime, now[t] >= refused[c] + RetryAfter
  PROVE  refused'[c] = NoTime
<1> USE LimiterAssumption
<1>1. now[t] \in Nat /\ refused[c] \in Nat /\ refused \in [Names -> Nat \cup {NoTime}]
  BY DEF Kept, RTypeOK, Holders, Allow
<1>2. Granted(c, now[t])
  <2>1. CASE c \notin DOMAIN buckets
    BY <2>1 DEF Granted, Filled, Bucket
  <2>2. CASE c \in DOMAIN buckets
    <3>1. /\ buckets[c].tokens \in Int /\ buckets[c].last_refill \in Nat
          /\ 0 <= buckets[c].tokens + (refused[c] - buckets[c].last_refill)
      BY <2>2 DEF Kept, RTypeOK, Waits
    <3>2. Filled(c, now[t]).tokens = Lesser(Burst, buckets[c].tokens + (now[t] - buckets[c].last_refill))
      BY <2>2 DEF Filled, Refilled, Bucket
    <3>3. Lesser(Burst, buckets[c].tokens + (now[t] - buckets[c].last_refill)) >= Cost
      BY <1>1, <3>1 DEF Lesser, RetryAfter
    <3> QED BY <3>2, <3>3 DEF Granted
  <2> QED BY <2>1, <2>2
<1> QED BY <1>1, <1>2 DEF Allow

LEMMA KeptStep == Kept /\ [RNext]_limiter => Kept'
<1> SUFFICES ASSUME Kept, [RNext]_limiter PROVE Kept'
  OBVIOUS
<1>1. CASE Tick BY <1>1, TickKept
<1>2. CASE Sweep BY <1>2, SweepKept
<1>3. CASE \E t \in Holders : ReadClock(t) BY <1>3, ReadKept
<1>4. CASE \E c \in Names : Observe(c) BY <1>4, ObserveKept
<1>5. CASE \E c \in Names : \E t \in Threads : Allow(t, c) BY <1>5, AllowKept
<1>6. CASE UNCHANGED limiter
  BY <1>6 DEF limiter, Kept, Inv, Typed, HeldRecent, Recent, Accounted, Account, Sound, Paid, RTypeOK, Waits
<1> QED BY <1>1, <1>2, <1>3, <1>4, <1>5, <1>6 DEF RNext

\* The entries never outnumber max_entries, every field of the limiter has its type, and
\* what a refused caller waits for is neither taken nor lost.
THEOREM LimiterKept == RSpec => []Kept
BY InitKept, KeptStep, PTL DEF RSpec

\* A caller that waits as long as Retry-After told it is granted its next request,
\* whatever allow() did to its bucket meanwhile with older clock values.
THEOREM RetryIsHonoured == RSpec => RetryHonoured
<1>1. Kept /\ [RNext]_limiter =>
        [\A c \in Names : \A t \in Threads :
           refused[c] # NoTime /\ now[t] >= refused[c] + RetryAfter /\ Allow(t, c)
             => refused'[c] = NoTime]_limiter
  BY RetryStep
<1> QED BY <1>1, LimiterKept, PTL DEF RSpec, RetryHonoured

-----------------------------------------------------------------------------
(***************************************************************************)
(* Request threads: what has been written, and changed, at each stage.     *)
(***************************************************************************)
Stages == {"done", "limit", "handle", "enqueue", "wait", "cancel"}
Statuses == Seq(200 .. 503)

Walks == [offset : Nat, told : SUBSET Tasks, began : SUBSET Tasks, shifted : BOOLEAN, over : BOOLEAN]

GateTyped ==
  /\ request \in [Threads -> Requests]
  /\ stage \in [Threads -> Stages]
  /\ reply \in [Threads -> Statuses]
  /\ changed \in [Threads -> BOOLEAN]

Refusing == {400, 401, 404, 409, 413, 429, 503}

\* What a thread has answered, and may have changed, when it is done with q.
Closed(q, statuses, changes) ==
  /\ statuses # <<>> /\ Head(statuses) \in Refusing => ~changes
  /\ \/ Len(statuses) = 1
     \/ q.via = "rest" /\ q.body = "malformed" /\ statuses = <<>>
     \/ RefusedSend(q, statuses)

\* Nothing is written or changed before the handler is done, but for a send that waits.
Open(q, at, statuses, changes) ==
  /\ statuses = <<>>
  /\ at # "wait" => ~changes
  /\ at = "enqueue" => q.op = "send"

Served(q, at, statuses, changes) ==
  IF at = "done" THEN Closed(q, statuses, changes) ELSE Open(q, at, statuses, changes)

\* What every request thread has written and done, by how far it is.
GateInv ==
  GateTyped /\ \A t \in Threads : Served(request[t], stage[t], reply[t], changed[t])

-----------------------------------------------------------------------------
\* A SendMessage that is refused.
LEMMA RefusalAnswers ==
  ASSUME NEW t \in Threads, GateInv, NEW status \in {409, 503}, request[t].op = "send"
  PROVE  /\ Refusal(t, status) \in Statuses
         /\ Closed(request[t], Refusal(t, status), FALSE)
<1>1. CASE request[t].via = "rpc"
  <2>1. Refusal(t, status) = <<status, 200>> /\ <<status, 200>> \in Statuses
    BY <1>1 DEF Refusal, Statuses
  <2> QED BY <1>1, <2>1 DEF Closed, RefusedSend
<1>2. CASE request[t].via # "rpc"
  <2>1. Refusal(t, status) = <<status>> /\ <<status>> \in Statuses /\ Len(<<status>>) = 1
    BY <1>2 DEF Refusal, Statuses
  <2> QED BY <2>1 DEF Closed
<1> QED BY <1>1, <1>2

\* A step of a thread that has not written anything yet.
LEMMA GoServes ==
  ASSUME GateInv, NEW t \in Threads, NEW to \in Stages, NEW statuses \in Statuses, NEW changes \in BOOLEAN,
         stage[t] # "done", Go(t, to, statuses, changes),
         Served(request[t], to, statuses, changed[t] \/ changes)
  PROVE  GateInv'
<1>1. reply[t] = <<>> /\ reply[t] \o statuses = statuses
  BY DEF GateInv, Served, Open, Statuses
<1>2. /\ request' = request
      /\ stage' = [stage EXCEPT ![t] = to]
      /\ reply' = [reply EXCEPT ![t] = statuses]
      /\ changed' = [changed EXCEPT ![t] = changed[t] \/ changes]
  BY <1>1 DEF Go
<1>3. GateTyped'
  BY <1>2 DEF GateInv, GateTyped
<1>4. ASSUME NEW u \in Threads
      PROVE  Served(request'[u], stage'[u], reply'[u], changed'[u])
  <2>1. CASE u = t
    BY <1>2, <2>1 DEF GateInv, GateTyped
  <2>2. CASE u # t
    BY <1>2, <2>2 DEF GateInv, GateTyped
  <2> QED BY <2>1, <2>2
<1> QED BY <1>3, <1>4 DEF GateInv

\* A thread that is answered at once and has changed nothing.
LEMMA AnswerServes ==
  ASSUME GateInv, NEW t \in Threads, NEW status \in 200 .. 503,
         stage[t] \notin {"done", "wait"}, Answer(t, status)
  PROVE  GateInv'
<1>1. <<status>> \in Statuses /\ Len(<<status>>) = 1
  BY DEF Statuses
<1>2. ~changed[t]
  BY DEF GateInv, GateTyped, Served, Open
<1>3. Served(request[t], "done", <<status>>, changed[t] \/ FALSE)
  BY <1>1, <1>2 DEF Served, Closed
<1> QED BY <1>1, <1>3, GoServes DEF Answer, Stages

\* A thread that goes on and writes nothing.
LEMMA GoOnServes ==
  ASSUME GateInv, NEW t \in Threads, NEW to \in Stages \ {"done", "wait"},
         stage[t] \notin {"done", "wait"}, Go(t, to, <<>>, FALSE),
         to = "enqueue" => request[t].op = "send"
  PROVE  GateInv'
<1>1. <<>> \in Statuses
  BY DEF Statuses
<1>2. ~changed[t]
  BY DEF GateInv, GateTyped, Served, Open
<1>3. Served(request[t], to, <<>>, changed[t] \/ FALSE)
  BY <1>2 DEF Served, Open
<1> QED BY <1>1, <1>3, GoServes

LEMMA ReceiveServes ==
  ASSUME GateInv, NEW t \in Threads, NEW q \in Requests, Receive(t, q)
  PROVE  GateInv'
<1> DEFINE to == IF Gate(q) = "refuse" THEN "done" ELSE Gate(q)
           statuses == IF Gate(q) = "refuse" THEN <<401>> ELSE <<>>
<1>1. /\ request' = [request EXCEPT ![t] = q]
      /\ stage' = [stage EXCEPT ![t] = to]
      /\ reply' = [reply EXCEPT ![t] = statuses]
      /\ changed' = [changed EXCEPT ![t] = FALSE]
  BY DEF Receive
<1>2. to \in Stages /\ statuses \in Statuses /\ Served(q, to, statuses, FALSE)
  <2>1. CASE Gate(q) = "refuse"
    <3>1. to = "done" /\ statuses = <<401>>
      BY <2>1
    <3>2. <<401>> \in Statuses /\ Len(<<401>>) = 1
      BY DEF Statuses
    <3> QED BY <3>1, <3>2 DEF Served, Closed, Stages
  <2>2. CASE Gate(q) # "refuse"
    <3>1. to \in {"handle", "limit"} /\ statuses = <<>>
      BY <2>2 DEF Gate
    <3>2. <<>> \in Statuses
      BY DEF Statuses
    <3> QED BY <3>1, <3>2 DEF Served, Open, Stages
  <2> QED BY <2>1, <2>2
<1> HIDE DEF to, statuses
<1>3. GateTyped'
  BY <1>1, <1>2 DEF GateInv, GateTyped
<1>4. ASSUME NEW u \in Threads
      PROVE  Served(request'[u], stage'[u], reply'[u], changed'[u])
  <2>1. CASE u = t
    BY <1>1, <1>2, <2>1 DEF GateInv, GateTyped
  <2>2. CASE u # t
    BY <1>1, <2>2 DEF GateInv, GateTyped
  <2> QED BY <2>1, <2>2
<1> QED BY <1>3, <1>4 DEF GateInv

LEMMA LimitServes ==
  ASSUME GateInv, NEW t \in Threads, Limit(t) PROVE GateInv'
<1>1. stage[t] = "limit"
  BY DEF Limit
<1>2. CASE Answer(t, 429)
  BY <1>1, <1>2, AnswerServes
<1>3. CASE Go(t, "done", <<FaultStatus(request[t])>>, FALSE)
  <2>1. FaultStatus(request[t]) \in 200 .. 503
    BY DEF FaultStatus
  <2> QED BY <1>1, <1>3, <2>1, AnswerServes DEF Answer
<1>4. CASE Go(t, "handle", <<>>, FALSE)
  BY <1>1, <1>4, GoOnServes DEF Stages
<1> QED BY <1>2, <1>3, <1>4 DEF Limit

LEMMA HandleServes ==
  ASSUME GateInv, NEW t \in Threads, Handle(t) PROVE GateInv'
<1>1. CASE Raise(t)
  <2>1. stage[t] = "handle" /\ request[t].body = "malformed"
    BY <1>1 DEF Raise
  <2>2. CASE request[t].via = "rest"
    <3>1. <<>> \in Statuses /\ Go(t, "done", <<>>, FALSE)
      BY <1>1, <2>2 DEF Raise, Go, Statuses
    <3>2. Served(request[t], "done", <<>>, changed[t] \/ FALSE)
      BY <2>1, <2>2 DEF Served, Closed
    <3> QED BY <2>1, <3>1, <3>2, GoServes DEF Stages
  <2>3. CASE request[t].via # "rest"
    <3>1. Answer(t, 500)
      BY <1>1, <2>3 DEF Raise, Answer, Go
    <3> QED BY <2>1, <3>1, AnswerServes
  <2> QED BY <2>2, <2>3
<1>2. CASE SendCheck(t)
  <2>1. stage[t] = "handle" /\ request[t].op = "send"
    BY <1>2 DEF SendCheck, Handles
  <2>2. CASE Answer(t, 200)
    BY <2>1, <2>2, AnswerServes
  <2>3. CASE Go(t, "done", Refusal(t, 409), FALSE)
    <3>1. ~changed[t]
      BY <2>1 DEF GateInv, GateTyped, Served, Open
    <3>2. Refusal(t, 409) \in Statuses /\ Closed(request[t], Refusal(t, 409), FALSE)
      BY <2>1, RefusalAnswers
    <3>3. Served(request[t], "done", Refusal(t, 409), changed[t] \/ FALSE)
      BY <3>1, <3>2 DEF Served
    <3> QED BY <2>1, <2>3, <3>2, <3>3, GoServes DEF Stages
  <2>4. CASE Go(t, "enqueue", <<>>, FALSE)
    BY <2>1, <2>4, GoOnServes DEF Stages
  <2> QED BY <1>2, <2>2, <2>3, <2>4 DEF SendCheck
<1>3. CASE SendEnqueue(t)
  <2>1. stage[t] = "enqueue" /\ request[t].op = "send" /\ ~changed[t]
    BY <1>3 DEF SendEnqueue, GateInv, GateTyped, Served, Open
  <2>2. CASE Go(t, "done", Refusal(t, 503), FALSE)
    <3>1. ~changed[t]
      BY <2>1
    <3>2. Refusal(t, 503) \in Statuses /\ Closed(request[t], Refusal(t, 503), FALSE)
      BY <2>1, RefusalAnswers
    <3>3. Served(request[t], "done", Refusal(t, 503), changed[t] \/ FALSE)
      BY <3>1, <3>2 DEF Served
    <3> QED BY <2>1, <2>2, <3>2, <3>3, GoServes DEF Stages
  <2>3. CASE Go(t, "wait", <<>>, TRUE)
    <3>1. <<>> \in Statuses /\ Served(request[t], "wait", <<>>, changed[t] \/ TRUE)
      BY <2>1 DEF Statuses, Served, Open
    <3> QED BY <2>1, <2>3, <3>1, GoServes DEF Stages
  <2> QED BY <1>3, <2>2, <2>3 DEF SendEnqueue
<1>4. CASE SendAnswer(t)
  <2>1. <<200>> \in Statuses /\ Len(<<200>>) = 1 /\ Head(<<200>>) = 200
    BY DEF Statuses
  <2>2. Served(request[t], "done", <<200>>, changed[t] \/ FALSE)
    BY <2>1 DEF Served, Closed, Refusing
  <2> QED BY <1>4, <2>1, <2>2, GoServes DEF SendAnswer, Answer, Stages
<1>5. CASE GetTask(t)
  BY <1>5, AnswerServes DEF GetTask, Handles
<1>6. CASE CancelCheck(t)
  <2>1. stage[t] = "handle" /\ request[t].op = "cancel"
    BY <1>6 DEF CancelCheck, Handles
  <2>2. CASE Answer(t, 404) BY <2>1, <2>2, AnswerServes
  <2>3. CASE Answer(t, 409) BY <2>1, <2>3, AnswerServes
  <2>4. CASE Go(t, "cancel", <<>>, FALSE) BY <2>1, <2>4, GoOnServes DEF Stages
  <2> QED BY <1>6, <2>2, <2>3, <2>4 DEF CancelCheck
<1>7. CASE Cancel(t)
  <2>1. <<200>> \in Statuses /\ Len(<<200>>) = 1 /\ Head(<<200>>) = 200
    BY DEF Statuses
  <2>2. Served(request[t], "done", <<200>>, changed[t] \/ TRUE)
    BY <2>1 DEF Served, Closed, Refusing
  <2> QED BY <1>7, <2>1, <2>2, GoServes DEF Cancel, Stages
<1>8. CASE Subscribe(t)
  <2>1. stage[t] = "handle"
    BY <1>8 DEF Subscribe, Handles
  <2>2. CASE Answer(t, 404) BY <2>1, <2>2, AnswerServes
  <2>3. CASE Answer(t, 200) BY <2>1, <2>3, AnswerServes
  <2> QED BY <1>8, <2>2, <2>3 DEF Subscribe
<1>9. CASE List(t)
  BY <1>9, AnswerServes DEF List, Handles
<1> QED BY <1>1, <1>2, <1>3, <1>4, <1>5, <1>6, <1>7, <1>8, <1>9 DEF Handle

LEMMA InitServes == Init => GateInv
<1> SUFFICES ASSUME Init PROVE GateInv
  OBVIOUS
<1>1. (CHOOSE q \in Requests : TRUE) \in Requests
  BY FrontDoorAssumption
<1>2. <<200>> \in Statuses /\ Len(<<200>>) = 1 /\ Head(<<200>>) = 200
  BY DEF Statuses
<1>3. GateTyped
  BY <1>1, <1>2 DEF Init, GateTyped, Stages
<1>4. \A t \in Threads : Served(request[t], stage[t], reply[t], changed[t])
  BY <1>2 DEF Init, Served, Closed, Refusing
<1> QED BY <1>3, <1>4 DEF GateInv

LEMMA GateStep == GateInv /\ [Next]_vars => GateInv'
<1> SUFFICES ASSUME GateInv, [Next]_vars PROVE GateInv'
  OBVIOUS
<1> USE DEF GateInv, GateTyped
<1>1. CASE UNCHANGED gate
  BY <1>1 DEF gate
<1>2. CASE \E t \in Threads : \E q \in Requests : Receive(t, q)
  BY <1>2, ReceiveServes
<1>3. CASE \E t \in Threads : Limit(t)
  BY <1>3, LimitServes
<1>4. CASE \E t \in Threads : Handle(t)
  BY <1>4, HandleServes
<1>5. CASE Housekeeping \/ \E t \in Threads : AskLimiter(t)
  BY <1>1, <1>5 DEF Housekeeping, AskLimiter
<1>6. CASE (\E i \in Tasks : Finish(i)) \/ \E k \in DOMAIN order : Forget(k)
  BY <1>1, <1>6 DEF Finish, Forget
<1>7. CASE UNCHANGED vars
  BY <1>1, <1>7 DEF vars
<1> QED BY <1>2, <1>3, <1>4, <1>5, <1>6, <1>7 DEF Next

-----------------------------------------------------------------------------
(***************************************************************************)
(* The task table, and the client that lists it page by page.              *)
(***************************************************************************)
States == {"unknown", "submitted"} \cup Terminal

\* At most two entries are of one task, and that only while it is pending.
Entries(list, known) ==
  /\ \A k \in DOMAIN list : known[list[k]] # "unknown"
  /\ \A j, k \in DOMAIN list : j # k /\ list[j] = list[k] => known[list[k]] = "submitted"
  /\ \A j, k, l \in DOMAIN list : list[j] = list[k] /\ list[k] = list[l] => j = k \/ k = l \/ j = l

\* What a walk has passed it has told; and the rest it was promised is still listed.
Passed(list, w) ==
  /\ w.began \subseteq ToSet(list)
  /\ \A k \in DOMAIN list : k <= w.offset => list[k] \in w.told \/ list[k] \notin w.began

Walked(list, w) ==
  ~w.shifted => IF w.over THEN w.began \subseteq w.told ELSE Passed(list, w)

\* The task table and the client that lists it.
ListInv ==
  /\ state \in [Tasks -> States]
  /\ order \in Seq(Tasks) /\ Entries(order, state)
  /\ walk \in Walks /\ Walked(order, walk)

-----------------------------------------------------------------------------
\* A sequence without its k-th element.
LEMMA Cut ==
  ASSUME NEW S, NEW s \in Seq(S), NEW k \in 1 .. Len(s)
  PROVE  LET q == SubSeq(s, 1, k - 1) \o SubSeq(s, k + 1, Len(s))
         IN /\ q \in Seq(S) /\ DOMAIN q = 1 .. (Len(s) - 1)
            /\ \A i \in 1 .. (k - 1) : q[i] = s[i]
            /\ \A i \in k .. (Len(s) - 1) : q[i] = s[i + 1]
<1> DEFINE a == SubSeq(s, 1, k - 1)
           b == SubSeq(s, k + 1, Len(s))
           n == Len(s)
<1>1. n \in Nat /\ k \in 1 .. n /\ \A i \in 1 .. n : s[i] \in S
  OBVIOUS
<1>2. a \in Seq(S) /\ Len(a) = k - 1 /\ \A i \in 1 .. (k - 1) : a[i] = s[i]
  BY SubSeqProperties
<1>3. /\ b \in Seq(S) /\ Len(b) = (IF k + 1 <= n THEN n - (k + 1) + 1 ELSE 0)
      /\ \A i \in 1 .. (n - (k + 1) + 1) : b[i] = s[(k + 1) + i - 1]
  BY SubSeqProperties
<1> HIDE DEF a, b, n
<1>4. Len(b) = n - k /\ \A i \in 1 .. (n - k) : b[i] = s[k + i]
  <2>1. Len(b) = n - k
    BY <1>1, <1>3
  <2>2. \A i \in 1 .. (n - k) : i \in 1 .. (n - (k + 1) + 1) /\ (k + 1) + i - 1 = k + i
    BY <1>1
  <2> QED
    BY <1>3, <2>1, <2>2
<1>5. /\ a \o b \in Seq(S) /\ DOMAIN (a \o b) = 1 .. (Len(a) + Len(b))
      /\ \A i \in 1 .. Len(a) : (a \o b)[i] = a[i]
      /\ \A i \in 1 .. Len(b) : (a \o b)[Len(a) + i] = b[i]
  <2>1. a \in Seq(S) /\ b \in Seq(S)
    BY <1>2, <1>3
  <2> QED
    BY <2>1
<1>6. Len(a) + Len(b) = n - 1
  BY <1>1, <1>2, <1>4
<1>7. \A i \in k .. (n - 1) : i - (k - 1) \in 1 .. (n - k) /\ (k - 1) + (i - (k - 1)) = i /\ k + (i - (k - 1)) = i + 1
  BY <1>1
<1> QED
  <2>1. \A i \in k .. (n - 1) : (a \o b)[i] = s[i + 1]
    BY <1>2, <1>4, <1>5, <1>7
  <2>2. /\ a \o b \in Seq(S) /\ DOMAIN (a \o b) = 1 .. (n - 1)
        /\ \A i \in 1 .. (k - 1) : (a \o b)[i] = s[i]
        /\ \A i \in k .. (n - 1) : (a \o b)[i] = s[i + 1]
    BY <1>2, <1>5, <1>6, <2>1
  <2> QED
    BY <2>2 DEF a, b, n

\* The place in the longer list of the entry at i once k is gone.
Before(i, k) == IF i < k THEN i ELSE i + 1

LEMMA Removed ==
  ASSUME NEW S, NEW s \in Seq(S), NEW k \in DOMAIN s, NEW r, r = RemoveAt(s, k)
  PROVE  /\ r \in Seq(S)
         /\ \A i \in DOMAIN r : Before(i, k) \in DOMAIN s /\ Before(i, k) # k /\ r[i] = s[Before(i, k)]
         /\ \A i, j \in DOMAIN r : Before(i, k) = Before(j, k) => i = j
         /\ \A i \in DOMAIN r : i < k => Before(i, k) = i
<1>1. k \in 1 .. Len(s) /\ DOMAIN s = 1 .. Len(s) /\ Len(s) \in Nat
  OBVIOUS
<1>2. r = SubSeq(s, 1, k - 1) \o SubSeq(s, k + 1, Len(s))
  BY DEF RemoveAt
<1>3. /\ r \in Seq(S) /\ DOMAIN r = 1 .. (Len(s) - 1)
      /\ \A i \in 1 .. (k - 1) : r[i] = s[i]
      /\ \A i \in k .. (Len(s) - 1) : r[i] = s[i + 1]
  BY <1>1, <1>2, Cut
<1>4. \A i \in DOMAIN r : Before(i, k) \in DOMAIN s /\ Before(i, k) # k /\ r[i] = s[Before(i, k)]
  BY <1>1, <1>3 DEF Before
<1>5. \A i, j \in DOMAIN r : Before(i, k) = Before(j, k) => i = j
  BY <1>1, <1>3 DEF Before
<1> QED BY <1>1, <1>3, <1>4, <1>5 DEF Before

\* An entry is gone: the rest is still in order, and a walk that goes on has not passed
\* the place of what is gone.
LEMMA LeavesKeeps ==
  ASSUME ListInv, NEW k \in DOMAIN order, Leaves(k)
  PROVE  /\ order' \in Seq(Tasks) /\ Entries(order', state)
         /\ walk' \in Walks /\ Walked(order', walk')
         /\ \A i \in Tasks : k \in Older(i) => \A j, l \in DOMAIN order' : order'[j] = i /\ order'[l] = i => j = l
<1> DEFINE r == RemoveAt(order, k)
<1>1. order' = r /\ order \in Seq(Tasks)
  BY DEF Leaves, ListInv
<1>2. /\ r \in Seq(Tasks)
      /\ \A i \in DOMAIN r : Before(i, k) \in DOMAIN order /\ Before(i, k) # k /\ r[i] = order[Before(i, k)]
      /\ \A i, j \in DOMAIN r : Before(i, k) = Before(j, k) => i = j
      /\ \A i \in DOMAIN r : i < k => Before(i, k) = i
  BY <1>1, Removed
<1>3. walk' = [walk EXCEPT !.began = @ \cap ToSet(r), !.shifted = @ \/ (~walk.over /\ k <= walk.offset)]
  BY DEF Leaves
<1> HIDE DEF r
<1>4. Entries(r, state)
  BY <1>2 DEF ListInv, Entries
<1>5. /\ walk' \in Walks
      /\ walk'.offset = walk.offset /\ walk'.told = walk.told /\ walk'.over = walk.over
      /\ walk'.began = walk.began \cap ToSet(r)
      /\ walk'.shifted = (walk.shifted \/ (~walk.over /\ k <= walk.offset))
  BY <1>3 DEF ListInv, Walks
<1>6. Walked(r, walk')
  <2> SUFFICES ASSUME ~walk'.shifted
               PROVE  IF walk'.over THEN walk'.began \subseteq walk'.told ELSE Passed(r, walk')
    BY DEF Walked
  <2>1. CASE walk.over
    BY <1>5, <2>1 DEF ListInv, Walked
  <2>2. CASE ~walk.over
    <3>1. ~(k <= walk.offset) /\ walk.offset \in Nat /\ k \in Nat
      BY <1>1, <1>5, <2>2 DEF ListInv, Walks
    <3>2. Passed(order, walk)
      BY <1>5, <2>2 DEF ListInv, Walked
    <3>3. ASSUME NEW i \in DOMAIN r, i <= walk.offset
          PROVE  r[i] \in walk.told \/ r[i] \notin walk.began
      <4>1. i < k /\ i \in DOMAIN order /\ r[i] = order[i]
        BY <1>2, <3>1, <3>3
      <4> QED BY <3>2, <3>3, <4>1 DEF Passed
    <3>4. Passed(r, walk')
      BY <1>5, <3>3 DEF Passed
    <3> QED BY <1>5, <2>2, <3>4
  <2> QED BY <2>1, <2>2
<1>7. ASSUME NEW i \in Tasks, k \in Older(i), NEW j \in DOMAIN r, NEW l \in DOMAIN r, r[j] = i, r[l] = i
      PROVE  j = l
  <2>1. order[k] = i
    BY <1>7 DEF Older
  <2>2. Before(j, k) = Before(l, k)
    BY <1>2, <1>7, <2>1 DEF ListInv, Entries
  <2> QED BY <1>2, <2>2
<1> QED BY <1>1, <1>2, <1>4, <1>5, <1>6, <1>7

\* From _pending to _completed: the older entry of the id, if there is one, is gone, so
\* that the task is listed once when it is no longer pending.
LEMMA RetireKeeps ==
  ASSUME ListInv, NEW i \in Tasks, NEW outcome \in Terminal, Retire(i, outcome)
  PROVE  ListInv'
<1>1. state' = [state EXCEPT ![i] = outcome] /\ state' \in [Tasks -> States]
  BY DEF Retire, ListInv, States
<1>2. /\ state'[i] # "unknown"
      /\ \A j \in Tasks : j # i => state'[j] = state[j]
  BY <1>1 DEF ListInv, Terminal
<1>3. SUFFICES /\ order' \in Seq(Tasks) /\ Entries(order', state)
               /\ walk' \in Walks /\ Walked(order', walk')
               /\ \A j, l \in DOMAIN order' : order'[j] = i /\ order'[l] = i => j = l
  <2>1. Entries(order', state')
    <3>1. \A j \in DOMAIN order' : order'[j] \in Tasks
      BY <1>3
    <3> QED BY <1>2, <1>3, <3>1 DEF Entries
  <2> QED BY <1>1, <1>3, <2>1 DEF ListInv
<1>4. CASE Older(i) = {} /\ UNCHANGED <<order, walk>>
  <2>1. \A j, l \in DOMAIN order : order[j] = i /\ order[l] = i => j = l
    BY <1>4 DEF Older, ListInv
  <2> QED BY <1>4, <2>1 DEF ListInv
<1>5. CASE \E k \in Older(i) : Leaves(k)
  <2>1. PICK k \in Older(i) : Leaves(k)
    BY <1>5
  <2>2. k \in DOMAIN order
    BY <2>1 DEF Older
  <2> QED BY <2>1, <2>2, LeavesKeeps
<1> QED BY <1>4, <1>5 DEF Retire

\* A new task comes first, which moves every other one further from the walk's start; it
\* is not one that was promised.
LEMMA EnqueueKeeps ==
  ASSUME ListInv, NEW t \in Threads, Task(t) \in Tasks, SendEnqueue(t)
  PROVE  ListInv'
<1> DEFINE i == Task(t)
<1>1. CASE UNCHANGED <<state, order, walk>>
  BY <1>1 DEF ListInv
<1>2. CASE /\ state[i] # "submitted"
           /\ state' = [state EXCEPT ![i] = "submitted"]
           /\ order' = <<i>> \o order
           /\ walk' = [walk EXCEPT !.began = @ \ {i}]
  <2> HIDE DEF i
  <2>1. order \in Seq(Tasks) /\ <<i>> \in Seq(Tasks) /\ Len(<<i>>) = 1 /\ <<i>>[1] = i /\ i \in Tasks
    BY DEF ListInv, i
  <2>2. /\ order' \in Seq(Tasks) /\ DOMAIN order' = 1 .. (Len(order) + 1)
        /\ order'[1] = i
        /\ \A k \in 2 .. (Len(order) + 1) : k - 1 \in DOMAIN order /\ order'[k] = order[k - 1]
    BY <1>2, <2>1
  <2>3. /\ state' \in [Tasks -> States] /\ state'[i] = "submitted"
        /\ \A j \in Tasks : j # i => state'[j] = state[j]
    BY <1>2, <2>1 DEF ListInv, States
  <2>4. \A j, k \in DOMAIN order : order[j] = i /\ order[k] = i => j = k
    BY <1>2, <2>1 DEF ListInv, Entries
  <2>5. \A k \in DOMAIN order' : k = 1 \/ (k \in 2 .. (Len(order) + 1) /\ k - 1 \in 1 .. Len(order))
    BY <2>1, <2>2
  <2>6. Entries(order', state')
    <3>1. \A k \in DOMAIN order' : state'[order'[k]] # "unknown"
      BY <2>1, <2>2, <2>3, <2>5 DEF ListInv, Entries
    <3>2. ASSUME NEW j \in DOMAIN order', NEW k \in DOMAIN order', j # k, order'[j] = order'[k]
          PROVE  state'[order'[k]] = "submitted"
      <4>1. CASE order'[k] = i BY <4>1, <2>3
      <4>2. CASE order'[k] # i
        <5>1. j # 1 /\ k # 1
          BY <2>2, <3>2, <4>2
        <5>2. /\ j - 1 \in DOMAIN order /\ k - 1 \in DOMAIN order /\ j - 1 # k - 1
              /\ order'[j] = order[j - 1] /\ order'[k] = order[k - 1]
          BY <2>2, <2>5, <3>2, <5>1
        <5>3. order[j - 1] = order[k - 1]
          BY <3>2, <5>2
        <5>4. \A m, n \in DOMAIN order : m # n /\ order[m] = order[n] => state[order[n]] = "submitted" /\ order[n] \in Tasks
          BY <2>1 DEF ListInv, Entries
        <5>5. state[order[k - 1]] = "submitted" /\ order[k - 1] \in Tasks
          BY <5>2, <5>3, <5>4
        <5> QED BY <2>3, <4>2, <5>2, <5>5
      <4> QED BY <4>1, <4>2
    <3>3. ASSUME NEW j \in DOMAIN order', NEW k \in DOMAIN order', NEW l \in DOMAIN order',
                 order'[j] = order'[k], order'[k] = order'[l], j # k, k # l, j # l
          PROVE  FALSE
      <4>1. CASE order'[k] = i
        <5>1. \A m \in DOMAIN order' : m # 1 => m - 1 \in DOMAIN order /\ order'[m] = order[m - 1] /\ m \in Int
          BY <2>2, <2>5
        <5>2. \A m, n \in DOMAIN order' : order'[m] = i /\ order'[n] = i => m = 1 \/ n = 1 \/ m = n
          BY <2>4, <5>1
        <5> QED BY <3>3, <4>1, <5>2
      <4>2. CASE order'[k] # i
        <5>1. j # 1 /\ k # 1 /\ l # 1
          BY <2>2, <3>3, <4>2
        <5>2. /\ j - 1 \in DOMAIN order /\ k - 1 \in DOMAIN order /\ l - 1 \in DOMAIN order
              /\ order'[j] = order[j - 1] /\ order'[k] = order[k - 1] /\ order'[l] = order[l - 1]
              /\ j - 1 # k - 1 /\ k - 1 # l - 1 /\ j - 1 # l - 1
          BY <2>2, <2>5, <3>3, <5>1
        <5>3. order[j - 1] = order[k - 1] /\ order[k - 1] = order[l - 1]
          BY <3>3, <5>2
        <5>4. \A m, n, o \in DOMAIN order : order[m] = order[n] /\ order[n] = order[o] => m = n \/ n = o \/ m = o
          BY DEF ListInv, Entries
        <5> QED BY <5>2, <5>3, <5>4
      <4> QED BY <4>1, <4>2
    <3> QED BY <3>1, <3>2, <3>3 DEF Entries
  <2>7. /\ walk' \in Walks
        /\ walk'.offset = walk.offset /\ walk'.told = walk.told /\ walk'.over = walk.over
        /\ walk'.began = walk.began \ {i} /\ walk'.shifted = walk.shifted
    BY <1>2 DEF ListInv, Walks
  <2>8. Walked(order', walk')
    <3> SUFFICES ASSUME ~walk.shifted
                 PROVE  IF walk.over THEN walk'.began \subseteq walk.told ELSE Passed(order', walk')
      BY <2>7 DEF Walked
    <3>1. CASE walk.over
      BY <2>7, <3>1 DEF ListInv, Walked
    <3>2. CASE ~walk.over
      <4>1. Passed(order, walk) /\ walk.offset \in Nat
        BY <3>2 DEF ListInv, Walked, Walks
      <4>2. ASSUME NEW k \in DOMAIN order', k <= walk.offset
            PROVE  order'[k] \in walk.told \/ order'[k] \notin walk'.began
        <5>1. CASE k = 1 BY <2>2, <2>7, <5>1
        <5>2. CASE k # 1
          <6>1. k - 1 \in DOMAIN order /\ order'[k] = order[k - 1] /\ k - 1 <= walk.offset
            BY <2>2, <2>5, <4>1, <4>2, <5>2
          <6> QED BY <2>7, <4>1, <6>1 DEF Passed
        <5> QED BY <5>1, <5>2
      <4>3. ToSet(order) \subseteq ToSet(order')
        <5>1. ASSUME NEW m \in DOMAIN order PROVE \E k \in DOMAIN order' : order'[k] = order[m]
          <6>1. m + 1 \in DOMAIN order' /\ order'[m + 1] = order[m]
            BY <2>1, <2>2
          <6> QED BY <6>1
        <5> QED BY <5>1 DEF ToSet
      <4>4. walk'.began \subseteq ToSet(order')
        BY <2>7, <4>1, <4>3 DEF Passed
      <4> QED BY <2>7, <3>2, <4>2, <4>4 DEF Passed
    <3> QED BY <3>1, <3>2
  <2> QED BY <2>2, <2>3, <2>6, <2>7, <2>8 DEF ListInv
<1> QED BY <1>1, <1>2 DEF SendEnqueue

\* A page tells every entry from its offset on, up to its size.
LEMMA PageTells ==
  ASSUME NEW o \in Nat, order \in Seq(Tasks)
  PROVE  /\ ToSet(Page(o)) \subseteq Tasks
         /\ \A k \in DOMAIN order : o < k /\ k <= o + PageSize => order[k] \in ToSet(Page(o))
<1> DEFINE n == Lesser(Len(order), o + PageSize)
           q == Page(o)
<1>1. PageSize \in Nat /\ Len(order) \in Nat /\ n \in Nat /\ n <= Len(order)
  BY FrontDoorAssumption DEF Lesser
<1>2. /\ q \in Seq(Tasks)
      /\ Len(q) = (IF o + 1 <= n THEN n - (o + 1) + 1 ELSE 0)
      /\ \A i \in 1 .. (n - (o + 1) + 1) : q[i] = order[(o + 1) + i - 1]
  <2>1. q = SubSeq(order, o + 1, n)
    BY DEF Page
  <2>2. \A i \in o + 1 .. n : order[i] \in Tasks
    BY <1>1
  <2> HIDE DEF n, q
  <2> QED BY <1>1, <2>1, <2>2, SubSeqProperties
<1>3. ToSet(q) \subseteq Tasks
  BY <1>2 DEF ToSet
<1>4. ASSUME NEW k \in DOMAIN order, o < k, k <= o + PageSize
      PROVE  order[k] \in ToSet(q)
  <2>1. k \in 1 .. Len(order) /\ k <= n
    BY <1>1, <1>4 DEF Lesser
  <2> HIDE DEF n, q
  <2>2. k - o \in 1 .. (n - (o + 1) + 1) /\ (o + 1) + (k - o) - 1 = k /\ o + 1 <= n
    BY <1>1, <1>4, <2>1
  <2>3. k - o \in DOMAIN q /\ q[k - o] = order[k]
    BY <1>1, <1>2, <2>2
  <2> QED BY <2>3 DEF ToSet
<1> QED BY <1>3, <1>4

\* A page tells what comes next; after the last one all that was promised has been told.
LEMMA ListKeeps ==
  ASSUME ListInv, NEW t \in Threads, List(t) PROVE ListInv'
<1> DEFINE w == IF walk.over THEN NoWalk ELSE walk
           page == ToSet(Page(w.offset))
           promised == IF w.offset = 0 THEN ToSet(order) ELSE w.began
<1>1. /\ state' = state /\ order' = order
      /\ walk' = [offset |-> w.offset + PageSize, told |-> w.told \cup page, began |-> promised,
                  shifted |-> w.shifted, over |-> ~HasMore(w.offset)]
  BY DEF List
<1>2. w \in Walks /\ ~w.over /\ (w.shifted \/ Passed(order, [w EXCEPT !.began = promised]))
  <2>1. CASE walk.over \/ w.offset = 0
    <3>1. w \in Walks /\ ~w.over /\ w.offset = 0
      BY <2>1 DEF ListInv, Walks, NoWalk
    <3>2. promised = ToSet(order)
      BY <3>1
    <3> HIDE DEF w, promised
    <3>3. \A k \in DOMAIN order : ~(k <= 0)
      BY DEF ListInv
    <3> QED BY <3>1, <3>2, <3>3 DEF Passed, Walks
  <2>2. CASE ~walk.over /\ w.offset # 0
    <3>1. w = walk /\ promised = walk.began /\ walk \in Walks /\ ~walk.over
      BY <2>2 DEF ListInv
    <3>2. walk.shifted \/ Passed(order, walk)
      BY <2>2 DEF ListInv, Walked
    <3> HIDE DEF w, promised
    <3> QED BY <3>1, <3>2 DEF Passed, Walks
  <2> QED BY <2>1, <2>2
<1> HIDE DEF w
<1>3. w.offset \in Nat /\ w.told \subseteq Tasks /\ w.shifted \in BOOLEAN /\ order \in Seq(Tasks)
  BY <1>2 DEF Walks, ListInv
<1>4. /\ page \subseteq Tasks
      /\ \A k \in DOMAIN order : w.offset < k /\ k <= w.offset + PageSize => order[k] \in page
  BY <1>3, PageTells
<1>5. promised \subseteq Tasks
  <2>1. ToSet(order) \subseteq Tasks /\ w.began \subseteq Tasks
    BY <1>2, <1>3 DEF ToSet, Walks
  <2> QED BY <2>1
<1> HIDE DEF page, promised
<1>6. w.offset + PageSize \in Nat /\ HasMore(w.offset) \in BOOLEAN
  BY <1>3, FrontDoorAssumption DEF HasMore
<1>7. walk' \in Walks
  BY <1>1, <1>3, <1>4, <1>5, <1>6 DEF Walks
<1>8. ASSUME ~w.shifted
      PROVE  /\ promised \subseteq ToSet(order)
             /\ \A k \in DOMAIN order : k <= w.offset + PageSize
                  => order[k] \in w.told \cup page \/ order[k] \notin promised
  <2>1. Passed(order, [w EXCEPT !.began = promised])
    BY <1>2, <1>8
  <2>2. /\ promised \subseteq ToSet(order)
        /\ \A k \in DOMAIN order : k <= w.offset => order[k] \in w.told \/ order[k] \notin promised
    BY <1>2, <2>1 DEF Passed, Walks
  <2>3. \A k \in DOMAIN order : k \in Int /\ (k <= w.offset \/ w.offset < k)
    BY <1>3
  <2> QED BY <1>4, <2>2, <2>3
<1>9. Walked(order, walk')
  <2> SUFFICES ASSUME ~walk'.shifted
               PROVE  IF walk'.over THEN walk'.began \subseteq walk'.told ELSE Passed(order, walk')
    BY DEF Walked
  <2>1. ~w.shifted
    BY <1>1
  <2>2. CASE HasMore(w.offset)
    BY <1>1, <1>8, <2>1, <2>2 DEF Passed
  <2>3. CASE ~HasMore(w.offset)
    <3>1. \A k \in DOMAIN order : k <= w.offset + PageSize
      BY <1>3, <2>3, FrontDoorAssumption DEF HasMore
    <3>2. promised \subseteq w.told \cup page
      BY <1>8, <2>1, <3>1 DEF ToSet
    <3> QED BY <1>1, <2>3, <3>2
  <2> QED BY <2>2, <2>3
<1> QED BY <1>1, <1>7, <1>9 DEF ListInv

LEMMA InitList == Init => ListInv
<1> SUFFICES ASSUME Init PROVE ListInv
  OBVIOUS
<1>1. order = <<>> /\ DOMAIN order = {} /\ order \in Seq(Tasks)
  BY DEF Init
<1>2. walk \in Walks /\ Walked(order, walk)
  BY <1>1 DEF Init, NoWalk, Walks, Walked, Passed
<1> QED BY <1>1, <1>2 DEF ListInv, Init, States, Entries

LEMMA ListStep == GateInv /\ ListInv /\ [Next]_vars => ListInv'
<1> SUFFICES ASSUME GateInv, ListInv, [Next]_vars PROVE ListInv'
  OBVIOUS
<1>0. \A t \in Threads : Task(t) \in Tasks
  BY FrontDoorAssumption DEF GateInv, GateTyped, Task, RequestFields
<1>1. CASE UNCHANGED <<state, order, walk>>
  BY <1>1 DEF ListInv
<1>2. CASE \E t \in Threads : SendEnqueue(t)
  BY <1>0, <1>2, EnqueueKeeps
<1>3. CASE \E t \in Threads : Cancel(t)
  <2>1. PICK t \in Threads : Cancel(t)
    BY <1>3
  <2>2. CASE Retire(Task(t), "canceled")
    BY <1>0, <2>2, RetireKeeps DEF Terminal
  <2> QED BY <1>1, <2>1, <2>2 DEF Cancel
<1>4. CASE \E t \in Threads : List(t)
  BY <1>4, ListKeeps
<1>5. CASE \E i \in Tasks : Finish(i)
  BY <1>5, RetireKeeps DEF Finish, Terminal
<1>6. CASE \E k \in DOMAIN order : Forget(k)
  <2>1. PICK k \in DOMAIN order : Forget(k)
    BY <1>6
  <2>2. Leaves(k) /\ state' = state
    BY <2>1 DEF Forget
  <2> QED BY <2>2, LeavesKeeps DEF ListInv
<1>7. CASE \E t \in Threads : Handle(t)
  BY <1>1, <1>2, <1>3, <1>4, <1>7 DEF Handle, Raise, SendCheck, SendAnswer, GetTask, CancelCheck, Subscribe
<1>8. CASE Housekeeping \/ \E t \in Threads : AskLimiter(t) \/ Limit(t) \/ \E q \in Requests : Receive(t, q)
  BY <1>1, <1>8 DEF Housekeeping, AskLimiter, Limit, Receive
<1>9. CASE UNCHANGED vars
  BY <1>1, <1>9 DEF vars
<1> QED BY <1>5, <1>6, <1>7, <1>8, <1>9 DEF Next

-----------------------------------------------------------------------------
(***************************************************************************)
(* The server.                                                             *)
(***************************************************************************)
\* What request threads do with the limiter is what its most general callers may do.
LEMMA LimiterStep == GateInv /\ [Next]_vars => [RNext]_limiter
<1> SUFFICES ASSUME GateInv, [Next]_vars PROVE [RNext]_limiter
  OBVIOUS
<1>0. \A t \in Threads : request[t].name \in Names /\ t \in Holders
  BY FrontDoorAssumption DEF GateInv, GateTyped, RequestFields, Holders
<1>1. CASE UNCHANGED limiter
  BY <1>1
<1>2. CASE \E t \in Threads : Limit(t)
  BY <1>0, <1>2 DEF Limit, RNext
<1>3. CASE \E t \in Threads : AskLimiter(t)
  BY <1>0, <1>3 DEF AskLimiter, RNext
<1>4. CASE Housekeeping
  BY <1>4 DEF Housekeeping, RNext, Holders
<1>5. CASE \E t \in Threads : Handle(t)
  BY <1>1, <1>5 DEF Handle, Raise, SendCheck, SendEnqueue, SendAnswer, GetTask, CancelCheck, Cancel, Subscribe, List
<1>6. CASE (\E i \in Tasks : Finish(i)) \/ \E k \in DOMAIN order : Forget(k)
  BY <1>1, <1>6 DEF Finish, Forget
<1>7. CASE \E t \in Threads : \E q \in Requests : Receive(t, q)
  BY <1>1, <1>7 DEF Receive
<1>8. CASE UNCHANGED vars
  BY <1>1, <1>8 DEF vars
<1> QED BY <1>2, <1>3, <1>4, <1>5, <1>6, <1>7, <1>8 DEF Next

\* Each request thread has written, and changed, what its place in the handlers allows, and
\* the task table and the pages of it that were told fit together.
THEOREM ServerServes == Spec => [](GateInv /\ ListInv)
BY InitServes, InitList, GateStep, ListStep, PTL DEF Spec

\* The server uses the limiter as its most general callers may, so that all that is
\* proved of the limiter holds of the server.
THEOREM ServerUsesLimiter == Spec => RSpec
<1>1. Init => RInit
  BY DEF Init
<1> QED BY <1>1, ServerServes, LimiterStep, PTL DEF Spec, RSpec

\* Grants are bounded, and Retry-After is honoured, in the server.
THEOREM LimitsHold == Spec => []GrantsBounded /\ RetryHonoured
BY ServerUsesLimiter, GrantsAreBounded, RetryIsHonoured, PTL

\* What the invariants say of replies and entries, in the words of FrontDoor.
LEMMA ServesSoundly == Kept /\ GateInv /\ ListInv => RepliesSound
<1> SUFFICES ASSUME Kept, GateInv, ListInv PROVE RepliesSound
  OBVIOUS
<1>1. ListedOnce
  <2> SUFFICES ASSUME NEW k \in DOMAIN order
               PROVE  /\ state[order[k]] # "unknown"
                      /\ k \in Older(order[k]) => /\ state[order[k]] = "submitted"
                                                  /\ \A j \in Older(order[k]) : j = k
    BY DEF ListedOnce
  <2>1. state[order[k]] # "unknown"
    BY DEF ListInv, Entries
  <2>2. ASSUME k \in Older(order[k])
        PROVE  state[order[k]] = "submitted"
    <3>1. PICK j \in DOMAIN order : j < k /\ order[j] = order[k]
      BY <2>2 DEF Older
    <3>2. j # k
      BY <3>1 DEF ListInv
    <3> QED BY <3>1, <3>2 DEF ListInv, Entries
  <2>3. ASSUME k \in Older(order[k]), NEW j \in Older(order[k]), j # k
        PROVE  FALSE
    <3>1. PICK a \in DOMAIN order : a < k /\ order[a] = order[k]
      BY <2>3 DEF Older
    <3>2. j \in DOMAIN order /\ order[j] = order[k]
      BY <2>3 DEF Older
    <3>3. PICK b \in DOMAIN order : b < j /\ order[b] = order[k]
      BY <2>3 DEF Older
    <3>4. a \in Nat /\ b \in Nat /\ j \in Nat /\ k \in Nat
      BY <3>1, <3>2, <3>3 DEF ListInv
    <3>5. \A m, n, o \in DOMAIN order : order[m] = order[k] /\ order[n] = order[k] /\ order[o] = order[k]
            => m = n \/ n = o \/ m = o
      BY DEF ListInv, Entries
    <3>6. a = j
      BY <2>3, <3>1, <3>2, <3>4, <3>5
    <3>7. b = k \/ b = j
      BY <2>3, <3>2, <3>3, <3>5
    <3> QED BY <3>1, <3>3, <3>4, <3>6, <3>7
  <2> QED BY <2>1, <2>2, <2>3
<1>2. \A t \in Threads : reply[t] \in Seq(200 .. 503) /\ changed[t] \in BOOLEAN
  BY DEF GateInv, GateTyped, Statuses
<1>3. TypeOK
  BY <1>1, <1>2 DEF TypeOK, Kept, GateInv, GateTyped, Stages, ListInv, States, Walks
<1>4. RefusedWithoutTrace
  BY DEF RefusedWithoutTrace, GateInv, GateTyped, Served, Closed, Open, Refusing
<1>5. AnsweredOnce
  BY DEF AnsweredOnce, GateInv, Served, Closed
<1> QED BY <1>3, <1>4, <1>5 DEF RepliesSound

\* Every request is answered once, but for a REST handler that raises and answers
\* nothing, and for a SendMessage of JSON-RPC that is refused and is told so before a
\* 200; one that is refused has changed no task; and every field has its type, whatever
\* the threads do in between the checks of server.py.
THEOREM RepliesAreSound == Spec => []RepliesSound
BY ServerUsesLimiter, LimiterKept, ServerServes, ServesSoundly, PTL

\* A client that follows nextPageToken is told every task that stays, unless one on the
\* pages it has passed was forgotten: pages of any size over any number of tasks.
THEOREM NoTaskIsSkipped == Spec => []NoTaskSkipped
<1>1. ListInv => NoTaskSkipped
  BY DEF ListInv, Walked, Walks, NoTaskSkipped
<1> QED BY <1>1, ServerServes, PTL
=============================================================================
