--------------------------- MODULE RateLimiterProofs ---------------------------
(***************************************************************************)
(* Theorems about the rate limiter: for every configuration of tenants,     *)
(* rates and bursts of either sign, and any length of time, the lazily        *)
(* refilled bucket keeps its bounds and answers as one that is refilled       *)
(* continuously.                                                              *)
(***************************************************************************)
EXTENDS RateLimiter, NaturalsInduction, WellFoundedInduction, TLAPS

-----------------------------------------------------------------------------
(***************************************************************************)
(* The limits that Load leaves                                              *)
(***************************************************************************)

Below == {ss \in Nat \X Nat : ss[1] < ss[2]}

LEMMA BelowIsWellFounded == IsWellFoundedOn(Below, Nat)
<1>1. OpToRel(<, Nat) = Below
  BY Zenon DEF OpToRel, Below
<1> QED
  BY <1>1, NatLessThanWellFounded, Zenon

\* A nonempty set of positions in a list has a last one.
LEMMA LastPosition ==
  ASSUME NEW n \in Nat, NEW I \in SUBSET (1..n), I # {}
  PROVE  \E i \in I : \A j \in I : j <= i
<1> DEFINE Distances == {n - i : i \in I}
<1>1. Distances \in SUBSET Nat /\ Distances # {}
  <2>1. \A i \in I : i \in 1..n /\ n - i \in Nat
    OBVIOUS
  <2> QED
    BY <2>1
<1>2. PICK d \in Distances : \A e \in Distances : ~(<<e, d>> \in Below)
  BY <1>1, BelowIsWellFounded, WFMin
<1>3. PICK i \in I : d = n - i
  BY <1>2
<1>4. ASSUME NEW j \in I
      PROVE  j <= i
  <2>1. n - j \in Distances /\ n - j \in Nat /\ d \in Nat
    BY <1>1
  <2>2. ~(n - j < d)
    BY <1>2, <2>1 DEF Below
  <2> QED
    BY <1>3, <2>1, <2>2
<1> QED
  BY <1>4

\* LastFor finds an entry of the list, and one for the key.
LEMMA LastForEntry ==
  ASSUME NEW E, NEW list \in Seq(E), NEW key \in KeysOf(list)
  PROVE  \E i \in DOMAIN list : LastFor(list, key) = list[i]
<1> DEFINE I == {i \in DOMAIN list : list[i].key = key}
<1>1. Len(list) \in Nat /\ DOMAIN list = 1..Len(list) /\ I # {}
  BY DEF KeysOf
<1>2. PICK i \in I : \A j \in I : j <= i
  BY <1>1, LastPosition
<1>3. \A j \in DOMAIN list : j > i => list[j].key # key
  BY <1>1, <1>2
<1> QED
  BY <1>2, <1>3 DEF LastFor

\* An entry of the map Load leaves: its burst is a token or more, or the default.
LEMMA TenantEntry ==
  ASSUME NEW key \in DOMAIN TenantsByKey
  PROVE  /\ TenantsByKey[key].id \in Tenants
         /\ TenantsByKey[key].rate \in Int
         /\ TenantsByKey[key].burst \in Int
         /\ TenantsByKey[key].burst >= Unit \/ TenantsByKey[key].burst = DefaultBurst
<1> DEFINE Fine(e) == /\ e = [id |-> e.id, rate |-> e.rate, burst |-> e.burst]
                      /\ e.rate \in Int /\ e.burst \in Int
                      /\ e.burst > 0 => e.burst >= Unit \/ e.burst = DefaultBurst
           tenants == withDevTenant(parseTenantKeys(overlayFile))
<1> USE TenantAssumption, LimiterAssumption
<1>1. ASSUME NEW k \in DOMAIN overlayFile
      PROVE  Fine(overlayFile[k])
  <2>1. PICK i \in DOMAIN FileTenants : LastFor(FileTenants, k) = FileTenants[i]
    BY LastForEntry DEF overlayFile
  <2>2. FileTenants[i].rate \in Int /\ FileTenants[i].burst \in Int
    <3> DEFINE Entries == [key : Keys \cup {NoKey}, id : TenantIds, rate : Int, burst : Int]
    <3>1. FileTenants \in Seq(Entries)
      OBVIOUS
    <3> HIDE DEF Entries
    <3>2. FileTenants[i] \in Entries
      BY <2>1, <3>1
    <3> QED
      BY <3>2 DEF Entries
  <2>3. FileTenants[i].burst > 0 => FileTenants[i].burst >= Unit
    BY BurstAssumption
  <2> QED
    BY <2>1, <2>2, <2>3 DEF overlayFile
<1>2. ASSUME NEW k \in DOMAIN parseTenantKeys(overlayFile)
      PROVE  Fine(parseTenantKeys(overlayFile)[k])
  <2>1. CASE k \in KeysOf(EnvTenants)
    BY <2>1 DEF parseTenantKeys
  <2>2. CASE k \notin KeysOf(EnvTenants)
    <3>1. k \in DOMAIN overlayFile /\ parseTenantKeys(overlayFile)[k] = overlayFile[k]
      BY <2>2 DEF parseTenantKeys
    <3> QED
      BY <1>1, <3>1
  <2> QED
    BY <2>1, <2>2
<1>3. key \in DOMAIN tenants /\ TenantsByKey[key] = withDefaults(key, tenants[key])
  BY DEF TenantsByKey
<1>4. Fine(tenants[key])
  BY <1>2, <1>3 DEF withDevTenant
<1> HIDE DEF tenants
<1> DEFINE e == tenants[key]
<1>5. /\ TenantsByKey[key].rate = IF e.rate <= 0 THEN DefaultRate ELSE e.rate
      /\ TenantsByKey[key].burst = IF e.burst <= 0 THEN DefaultBurst ELSE e.burst
  BY <1>3, <1>4 DEF withDefaults
<1> QED
  BY <1>4, <1>5 DEF Tenants

\* The limits a request may find give it a token, or leave it to a default that does not.
LEMMA LimitsType ==
  ASSUME NEW t \in Tenants, NEW limit \in Limits[t]
  PROVE  /\ limit \in Limit
         /\ limit.burst >= Unit \/ NoToken(limit)
<1>1. limit \in Limit /\ (limit.burst >= Unit \/ limit.burst = DefaultBurst)
  BY TenantEntry DEF Limits, Limit
<1> QED
  BY <1>1, TenantAssumption, LimiterAssumption DEF Limit, NoToken

-----------------------------------------------------------------------------
(***************************************************************************)
(* Amounts                                                                  *)
(***************************************************************************)

\* What is gained or lost in a span of time d.
LEMMA Product ==
  ASSUME NEW r \in Int, NEW d \in Nat
  PROVE  /\ r * d \in Int /\ d * r = r * d
         /\ r >= 0 => r * d >= 0
         /\ r < 0 => r * d <= 0
OBVIOUS

\* What is refilled in two spans is refilled in their union.
LEMMA Spans ==
  ASSUME NEW r \in Int, NEW a \in Int, NEW b \in Int, NEW c \in Int
  PROVE  r * (c - a) = r * (b - a) + (c - b) * r
OBVIOUS

LEMMA OneMore ==
  ASSUME NEW n \in Int, NEW i \in Int, NEW u \in Int
  PROVE  (n + 1 - i + 1) * u = (n - i + 1) * u + u
OBVIOUS

-----------------------------------------------------------------------------
(***************************************************************************)
(* One bucket and the times its tenant was admitted                         *)
(***************************************************************************)

\* A bucket as it is at time when: not above its burst, not in debt unless its limit is,
\* and not refilled in the future.
GoodBucket(b, when) ==
    /\ b = [tokens |-> b.tokens, lastRefill |-> b.lastRefill, limit |-> b.limit]
    /\ b.tokens \in Int /\ b.lastRefill \in Nat /\ b.limit \in Limit
    /\ b.tokens <= b.limit.burst
    /\ NoDebt(b)
    /\ b.lastRefill <= when

\* What the tenant has had since its i-th request, with what its bucket holds, is at
\* most its burst and the refill since then.
Spent(b, log) ==
    \A i \in 1..Len(log) :
        /\ log[i] \in Nat /\ log[i] <= b.lastRefill
        /\ b.tokens + (Len(log) - i + 1) * Unit
             <= b.limit.burst + b.limit.rate * (b.lastRefill - log[i])

\* A bucket that loses nothing by itself is full or holds at least the refill since the
\* last admission.
Held(b, log) ==
    b.limit.rate >= 0 /\ log # << >> =>
        \/ b.tokens >= b.limit.burst
        \/ b.tokens >= b.limit.rate * (b.lastRefill - log[Len(log)])

Sound(b, log, when) == GoodBucket(b, when) /\ Spent(b, log) /\ Held(b, log)

\* The bucket after its lazy refill, and what it then is at any time.
LEMMA Refill ==
  ASSUME now \in Nat, NEW b, GoodBucket(b, now)
  PROVE  /\ refilled(b) = [tokens     |-> Level(b),
                           lastRefill |-> now,
                           limit      |-> b.limit]
         /\ Level(b) \in Int
         /\ Level(b) <= b.limit.burst
         /\ Level(b) <= b.tokens + (now - b.lastRefill) * b.limit.rate
         /\ b.limit.rate >= 0 => b.tokens <= Level(b)
         /\ \/ Level(b) = b.limit.burst
            \/ Level(b) = b.tokens + (now - b.lastRefill) * b.limit.rate
<1>1. b.limit.rate \in Int /\ b.limit.burst \in Int
  BY DEF GoodBucket, Limit
<1>2. now - b.lastRefill \in Nat
  BY DEF GoodBucket
<1>3. /\ (now - b.lastRefill) * b.limit.rate \in Int
      /\ b.limit.rate >= 0 => (now - b.lastRefill) * b.limit.rate >= 0
  BY <1>1, <1>2, Product
<1>4. b.tokens \in Int /\ b.tokens <= b.limit.burst
  BY DEF GoodBucket
<1> DEFINE gain == (now - b.lastRefill) * b.limit.rate
<1>5. Level(b) = IF b.limit.burst < b.tokens + gain THEN b.limit.burst ELSE b.tokens + gain
  BY DEF Level, minFloat
<1>6. refilled(b) = [tokens |-> Level(b), lastRefill |-> now, limit |-> b.limit]
  <2>1. refilled(b) = [b EXCEPT !.tokens = Level(b), !.lastRefill = now]
    BY DEF refilled, Level
  <2>2. b = [tokens |-> b.tokens, lastRefill |-> b.lastRefill, limit |-> b.limit]
    BY DEF GoodBucket
  <2> HIDE DEF gain
  <2>3. refilled(b) = [[b EXCEPT !.tokens = Level(b)] EXCEPT !.lastRefill = now]
    BY <2>1, Zenon
  <2> QED
    BY <2>2, <2>3
<1> HIDE DEF gain
<1>7. gain \in Int /\ (b.limit.rate >= 0 => gain >= 0)
  BY <1>3 DEF gain
<1>8. /\ Level(b) \in Int
      /\ Level(b) <= b.limit.burst
      /\ Level(b) <= b.tokens + gain
      /\ b.limit.rate >= 0 => b.tokens <= Level(b)
      /\ Level(b) = b.limit.burst \/ Level(b) = b.tokens + gain
  BY <1>1, <1>4, <1>5, <1>7
<1> QED
  BY <1>6, <1>8 DEF gain

\* A bucket that is refilled now holds what it shows.
LEMMA LevelNow ==
  ASSUME now \in Nat, NEW b, GoodBucket(b, now), b.lastRefill = now
  PROVE  Level(b) = b.tokens
<1>1. b.limit.rate \in Int /\ b.limit.burst \in Int /\ b.tokens \in Int /\ b.tokens <= b.limit.burst
  BY DEF GoodBucket, Limit
<1>2. (now - b.lastRefill) * b.limit.rate = 0
  BY <1>1
<1> QED
  BY <1>1, <1>2 DEF Level, minFloat

\* A full bucket is sound for a tenant that was never admitted.
LEMMA FreshSound ==
  ASSUME now \in Nat, NEW limit \in Limit
  PROVE  Sound([tokens |-> limit.burst, lastRefill |-> now, limit |-> limit], << >>, now)
BY DEF Sound, GoodBucket, NoDebt, Spent, Held, Limit

\* The refill keeps a bucket sound.
LEMMA RefillSound ==
  ASSUME now \in Nat, NEW b, NEW log \in Seq(Nat), Sound(b, log, now)
  PROVE  Sound(refilled(b), log, now)
<1>1. GoodBucket(b, now) /\ Spent(b, log) /\ Held(b, log)
  BY DEF Sound
<1> DEFINE r == b.limit.rate
           B == b.limit.burst
           gain == (now - b.lastRefill) * r
<1>2. /\ r \in Int /\ B \in Int /\ b.tokens \in Int /\ b.lastRefill \in Nat
      /\ b.lastRefill <= now /\ b.limit \in Limit
      /\ r >= 0 /\ B >= 0 => b.tokens >= 0
  BY <1>1 DEF GoodBucket, NoDebt, Limit
<1>3. gain \in Int /\ (r >= 0 => gain >= 0)
  <2>1. now - b.lastRefill \in Nat
    BY <1>2
  <2> QED
    BY <1>2, <2>1, Product
<1>4. \A a \in Int : r * (now - a) = r * (b.lastRefill - a) + gain /\ r * (b.lastRefill - a) \in Int
  BY <1>2, Spans
<1>5. /\ refilled(b) = [tokens |-> Level(b), lastRefill |-> now, limit |-> b.limit]
      /\ Level(b) \in Int /\ Level(b) <= B /\ Level(b) <= b.tokens + gain
      /\ r >= 0 => b.tokens <= Level(b)
      /\ Level(b) = B \/ Level(b) = b.tokens + gain
  BY <1>1, Refill
<1> HIDE DEF gain, r, B
<1>6. Spent(refilled(b), log)
  <2>1. ASSUME NEW i \in 1..Len(log)
        PROVE  /\ log[i] <= now
               /\ Level(b) + (Len(log) - i + 1) * Unit <= B + r * (now - log[i])
    <3>1. /\ log[i] \in Nat /\ log[i] <= b.lastRefill
          /\ b.tokens + (Len(log) - i + 1) * Unit <= B + r * (b.lastRefill - log[i])
      BY <1>1 DEF Spent, r, B
    <3>2. (Len(log) - i + 1) * Unit \in Int
      BY LimiterAssumption
    <3>3. PICK a \in Int : a = log[i]
      BY <3>1
    <3>4. r * (now - a) = r * (b.lastRefill - a) + gain /\ r * (b.lastRefill - a) \in Int
      BY <1>4
    <3>5. PICK had \in Int : had = (Len(log) - i + 1) * Unit
      BY <3>2
    <3>6. PICK before \in Int : before = r * (b.lastRefill - log[i])
      BY <3>3, <3>4
    <3>7. PICK after \in Int : after = r * (now - log[i]) /\ after = before + gain
      BY <1>3, <3>3, <3>4, <3>6
    <3>8. b.tokens + had <= B + before
      BY <3>1, <3>5, <3>6, Zenon
    <3>9. Level(b) + had <= B + after
      <4>1. after = before + gain
        BY <3>7
      <4> QED
        BY <1>2, <1>3, <1>5, <3>8, <4>1
    <3>10. log[i] <= now
      BY <1>2, <3>1
    <3> QED
      BY <3>5, <3>7, <3>9, <3>10, Zenon
  <2> QED
    BY <1>1, <1>5, <2>1 DEF Spent, r, B
<1>7. Held(refilled(b), log)
  <2>1. CASE ~(r >= 0 /\ log # << >>)
    BY <1>5, <2>1 DEF Held, r
  <2>2. CASE r >= 0 /\ log # << >>
    <3>1. Len(log) \in 1..Len(log) /\ log[Len(log)] \in Int
      BY <2>2
    <3>2. b.tokens >= B \/ b.tokens >= r * (b.lastRefill - log[Len(log)])
      BY <1>1, <2>2 DEF Held, r, B
    <3>3. /\ r * (now - log[Len(log)]) = r * (b.lastRefill - log[Len(log)]) + gain
          /\ r * (b.lastRefill - log[Len(log)]) \in Int
      BY <1>4, <3>1
    <3>4. Level(b) >= B \/ Level(b) >= r * (now - log[Len(log)])
      <4>1. b.tokens <= Level(b)
        BY <1>5, <2>2
      <4> QED
        BY <1>2, <1>3, <1>5, <3>2, <3>3, <4>1
    <3> QED
      BY <1>5, <2>2, <3>4 DEF Held, r, B
  <2> QED
    BY <2>1, <2>2
<1>8. GoodBucket(refilled(b), now)
  BY <1>2, <1>5 DEF GoodBucket, NoDebt, r, B
<1> QED
  BY <1>6, <1>7, <1>8 DEF Sound

\* Taking a token at this moment, and recording it, keeps a bucket sound.
LEMMA AdmitSound ==
  ASSUME now \in Nat, NEW b, NEW log \in Seq(Nat), Sound(b, log, now),
         b.lastRefill = now, canAdmit(b)
  PROVE  Sound([b EXCEPT !.tokens = @ - Unit], Append(log, now), now)
<1> DEFINE left == [b EXCEPT !.tokens = @ - Unit]
           more == Append(log, now)
           r == b.limit.rate
           B == b.limit.burst
           n == Len(log)
<1>1. GoodBucket(b, now) /\ Spent(b, log)
  BY DEF Sound
<1>2. /\ r \in Int /\ B \in Int /\ b.tokens \in Int /\ b.tokens <= B /\ b.limit \in Limit
      /\ n \in Nat /\ Unit \in Nat /\ b.tokens >= Unit
  BY <1>1, LimiterAssumption DEF GoodBucket, Limit, canAdmit
<1>3. left = [tokens |-> b.tokens - Unit, lastRefill |-> now, limit |-> b.limit]
  BY <1>1 DEF GoodBucket
<1>4. /\ Len(more) = n + 1 /\ more[n + 1] = now /\ more # << >>
      /\ \A i \in 1..n : more[i] = log[i]
  OBVIOUS
<1> HIDE DEF left, more, r, B, n
<1>5. GoodBucket(left, now)
  BY <1>2, <1>3 DEF GoodBucket, NoDebt, B
<1>6. r * (now - now) = 0
  BY <1>2
<1>7. Held(left, more)
  BY <1>2, <1>3, <1>4, <1>6 DEF Held, r, B
<1>8. Spent(left, more)
  <2>1. ASSUME NEW i \in 1..(n + 1)
        PROVE  /\ more[i] \in Nat /\ more[i] <= now
               /\ b.tokens - Unit + (n + 1 - i + 1) * Unit <= B + r * (now - more[i])
    <3>1. CASE i = n + 1
      <4>1. (n + 1 - i + 1) * Unit = Unit
        BY <1>2, <3>1
      <4> QED
        BY <1>2, <1>4, <1>6, <3>1, <4>1
    <3>2. CASE i # n + 1
      <4>1. i \in 1..n
        BY <1>2, <3>2
      <4>2. /\ log[i] \in Nat /\ log[i] <= now
            /\ b.tokens + (n - i + 1) * Unit <= B + r * (now - log[i])
        BY <1>1, <4>1 DEF Spent, r, B, n
      <4>3. (n + 1 - i + 1) * Unit = (n - i + 1) * Unit + Unit /\ (n - i + 1) * Unit \in Int
        BY <1>2, OneMore
      <4>4. PICK had \in Int : /\ had = (n - i + 1) * Unit
                               /\ had + Unit = (n + 1 - i + 1) * Unit
        BY <1>2, <4>3
      <4>5. r * (now - log[i]) \in Int
        BY <1>2, <4>2
      <4>6. PICK gain \in Int : gain = r * (now - log[i])
        BY <4>5
      <4>7. b.tokens + had <= B + gain
        BY <4>2, <4>4, <4>6, Zenon
      <4>8. b.tokens - Unit + (had + Unit) <= B + gain
        BY <1>2, <4>7
      <4> QED
        BY <1>4, <4>1, <4>2, <4>4, <4>6, <4>8, Zenon
    <3> QED
      BY <3>1, <3>2
  <2>2. ASSUME NEW i \in 1..Len(more)
        PROVE  /\ more[i] \in Nat /\ more[i] <= left.lastRefill
               /\ left.tokens + (Len(more) - i + 1) * Unit
                    <= left.limit.burst + left.limit.rate * (left.lastRefill - more[i])
    <3>1. i \in 1..(n + 1) /\ Len(more) - i + 1 = n + 1 - i + 1
      BY <1>2, <1>4
    <3>2. /\ left.tokens = b.tokens - Unit /\ left.lastRefill = now
          /\ left.limit.burst = B /\ left.limit.rate = r
      BY <1>3 DEF r, B
    <3> QED
      BY <2>1, <3>1, <3>2
  <2> QED
    BY <2>2 DEF Spent
<1> QED
  BY <1>5, <1>7, <1>8 DEF Sound, left, more

-----------------------------------------------------------------------------
(***************************************************************************)
(* The inductive invariant                                                  *)
(***************************************************************************)

Types ==
    /\ now \in 0..Horizon
    /\ DOMAIN buckets \subseteq Tenants
    /\ admitted \in [Tenants -> Seq(0..Horizon)]
    /\ verdict \in {NoVerdict} \cup (Tenants \X BOOLEAN)

BucketsSound ==
    /\ \A t \in DOMAIN buckets : Sound(buckets[t], admitted[t], now)
    /\ \A t \in Tenants \ DOMAIN buckets : admitted[t] = << >>

\* The answer to the last request tells how much its tenant's bucket holds; and only a
\* burst of less than a token has its tenant refused from the beginning.
RefusalMeansEmpty ==
    \A t \in DOMAIN buckets :
        /\ buckets[t].limit.burst >= Unit \/ NoToken(buckets[t].limit)
        /\ admitted[t] = << >> => buckets[t].limit.burst < Unit
        /\ verdict = <<t, FALSE>> => buckets[t].tokens < Unit

IInv == Types /\ BucketsSound /\ WindowBound /\ RefusalMeansEmpty

LEMMA Timestamps ==
  ASSUME Types, NEW t \in Tenants
  PROVE  now \in Nat /\ admitted[t] \in Seq(Nat)
<1>1. admitted[t] \in Seq(0..Horizon) /\ now \in Nat
  BY LimiterAssumption DEF Types
<1> QED
  BY <1>1, LimiterAssumption

\* The bucket a request of t finds, refilled, is sound.
LEMMA FoundSound ==
  ASSUME Types, BucketsSound, NEW t \in Tenants, NEW limit \in Limits[t]
  PROVE  /\ GoodBucket(bucketOf(t, limit), now)
         /\ Sound(refilled(bucketOf(t, limit)), admitted[t], now)
<1>1. now \in Nat /\ admitted[t] \in Seq(Nat)
  BY Timestamps
<1>2. Sound(bucketOf(t, limit), admitted[t], now)
  <2>1. CASE t \in DOMAIN buckets
    BY <2>1 DEF bucketOf, BucketsSound
  <2>2. CASE t \notin DOMAIN buckets
    BY <1>1, <2>2, LimitsType, FreshSound DEF bucketOf, BucketsSound
  <2> QED
    BY <2>1, <2>2
<1> QED
  BY <1>1, <1>2, RefillSound DEF Sound

\* What a request leaves in the bucket of its tenant, and what it records.
LEMMA AllowStep ==
  ASSUME Types, BucketsSound, NEW t \in Tenants, NEW limit \in Limits[t], allow(t, limit)
  PROVE  LET b == refilled(bucketOf(t, limit))
         IN  /\ DOMAIN buckets' = DOMAIN buckets \cup {t}
             /\ \A s \in DOMAIN buckets \ {t} : buckets'[s] = buckets[s]
             /\ \A s \in Tenants \ {t} : admitted'[s] = admitted[s]
             /\ Sound(buckets'[t], admitted'[t], now)
             /\ buckets'[t].limit = bucketOf(t, limit).limit
             /\ buckets'[t].lastRefill = now
             /\ \/ /\ canAdmit(b)
                   /\ buckets'[t].tokens = b.tokens - Unit
                   /\ admitted'[t] = Append(admitted[t], now)
                   /\ verdict' = <<t, TRUE>>
                \/ /\ ~canAdmit(b)
                   /\ buckets'[t].tokens = b.tokens
                   /\ admitted'[t] = admitted[t]
                   /\ verdict' = <<t, FALSE>>
<1> DEFINE b == refilled(bucketOf(t, limit))
           left == [b EXCEPT !.tokens = @ - Unit]
<1>1. now \in Nat /\ admitted[t] \in Seq(Nat)
  BY Timestamps
<1>2. /\ GoodBucket(bucketOf(t, limit), now)
      /\ Sound(b, admitted[t], now)
  BY FoundSound
<1>3. b = [tokens |-> b.tokens, lastRefill |-> now, limit |-> bucketOf(t, limit).limit]
  BY <1>1, <1>2, Refill
<1>4. buckets' = [s \in DOMAIN buckets \cup {t} |->
                    IF s = t THEN (IF canAdmit(b) THEN left ELSE b) ELSE buckets[s]]
  BY DEF allow
<1>5. /\ admitted' = IF canAdmit(b)
                     THEN [admitted EXCEPT ![t] = Append(@, now)] ELSE admitted
      /\ verdict' = <<t, canAdmit(b)>>
  BY DEF allow
<1>6. admitted \in [Tenants -> Seq(0..Horizon)]
  BY DEF Types
<1>7. /\ DOMAIN buckets' = DOMAIN buckets \cup {t}
      /\ \A s \in DOMAIN buckets \ {t} : buckets'[s] = buckets[s]
      /\ \A s \in Tenants \ {t} : admitted'[s] = admitted[s]
  BY <1>4, <1>5, <1>6
<1> HIDE DEF b
<1>8. CASE canAdmit(b)
  <2>1. buckets'[t] = left /\ admitted'[t] = Append(admitted[t], now)
    BY <1>4, <1>5, <1>6, <1>8
  <2>2. Sound(left, Append(admitted[t], now), now)
    <3>1. b.lastRefill = now
      BY <1>3
    <3> QED
      BY <1>1, <1>2, <1>8, <3>1, AdmitSound
  <2>3. /\ left.tokens = b.tokens - Unit /\ left.lastRefill = now
        /\ left.limit = bucketOf(t, limit).limit
    BY <1>3
  <2>4. verdict' = <<t, TRUE>>
    <3>1. canAdmit(b) = TRUE
      BY <1>8 DEF canAdmit
    <3> QED
      BY <1>5, <3>1
  <2> QED
    BY <1>7, <1>8, <2>1, <2>2, <2>3, <2>4 DEF b
<1>9. CASE ~canAdmit(b)
  <2>1. buckets'[t] = b /\ admitted'[t] = admitted[t]
    BY <1>4, <1>5, <1>9
  <2>2. verdict' = <<t, FALSE>>
    <3>1. canAdmit(b) = FALSE
      BY <1>9 DEF canAdmit
    <3> QED
      BY <1>5, <3>1
  <2>3. b.lastRefill = now /\ b.limit = bucketOf(t, limit).limit
    BY <1>3
  <2> QED
    BY <1>2, <1>7, <1>9, <2>1, <2>2, <2>3 DEF b
<1> QED
  BY <1>8, <1>9

LEMMA InitInv == Init => IInv
BY LimiterAssumption
   DEF Init, IInv, Types, BucketsSound, WindowBound, RefusalMeansEmpty, NoVerdict

LEMMA TickInv ==
  ASSUME IInv, Tick
  PROVE  IInv'
<1>1. Types'
  BY LimiterAssumption DEF IInv, Types, Tick
<1>2. BucketsSound'
  <2>1. ASSUME NEW t \in DOMAIN buckets
        PROVE  Sound(buckets[t], admitted[t], now + 1)
    <3>1. Sound(buckets[t], admitted[t], now) /\ now \in Nat
      BY LimiterAssumption DEF IInv, BucketsSound, Types
    <3>2. GoodBucket(buckets[t], now + 1)
      BY <3>1 DEF Sound, GoodBucket
    <3> QED
      BY <3>1, <3>2 DEF Sound
  <2> QED
    BY <2>1 DEF IInv, BucketsSound, Tick
<1>3. WindowBound' /\ RefusalMeansEmpty'
  BY DEF IInv, WindowBound, RefusalMeansEmpty, Tick
<1> QED
  BY <1>1, <1>2, <1>3 DEF IInv

\* A bucket that is sound bounds what its tenant was admitted up to its last refill.
LEMMA SoundBounds ==
  ASSUME NEW b, NEW log \in Seq(Nat), now \in Nat, Sound(b, log, now), log # << >>,
         log[Len(log)] = b.lastRefill, b.tokens >= 0, NEW i \in 1..Len(log)
  PROVE  (Len(log) - i + 1) * Unit
           <= b.limit.burst + b.limit.rate * (log[Len(log)] - log[i])
<1>1. /\ log[i] \in Nat /\ b.tokens \in Int
      /\ b.limit.burst \in Int /\ b.limit.rate \in Int /\ b.lastRefill \in Nat
  BY DEF Sound, GoodBucket, Limit
<1>2. PICK had \in Int : had = (Len(log) - i + 1) * Unit
  BY LimiterAssumption
<1>3. PICK gain \in Int : gain = b.limit.rate * (b.lastRefill - log[i])
  <2>1. b.lastRefill - log[i] \in Int
    BY <1>1
  <2> QED
    BY <1>1, <2>1
<1>4. b.tokens + had <= b.limit.burst + gain
  BY <1>2, <1>3, Zenon DEF Sound, Spent
<1>5. had <= b.limit.burst + gain
  BY <1>1, <1>4
<1> QED
  BY <1>2, <1>3, <1>5, Zenon

\* A limit is only set when a bucket is created, before its tenant is admitted.
LEMMA RequestKeepsWindow ==
  ASSUME IInv, NEW t \in Tenants, NEW limit \in Limits[t], allow(t, limit)
  PROVE  WindowBound'
<1> USE DEF IInv
<1> DEFINE log == admitted[t]
           n == Len(log)
<1>1. /\ log \in Seq(Nat) /\ now \in Nat /\ n \in Nat
      /\ t \notin DOMAIN buckets => log = << >>
  BY Timestamps DEF BucketsSound
<1>2. /\ DOMAIN buckets' = DOMAIN buckets \cup {t}
      /\ \A s \in DOMAIN buckets \ {t} : buckets'[s] = buckets[s]
      /\ \A s \in Tenants \ {t} : admitted'[s] = admitted[s]
      /\ Sound(buckets'[t], admitted'[t], now)
      /\ buckets'[t].limit = bucketOf(t, limit).limit
      /\ buckets'[t].lastRefill = now
      /\ \/ admitted'[t] = Append(log, now) /\ buckets'[t].tokens >= 0
         \/ admitted'[t] = log
  <2>1. GoodBucket(refilled(bucketOf(t, limit)), now)
    BY FoundSound DEF Sound
  <2>2. canAdmit(refilled(bucketOf(t, limit))) =>
            refilled(bucketOf(t, limit)).tokens - Unit >= 0
    BY <2>1, LimiterAssumption DEF canAdmit, GoodBucket
  <2> QED
    BY <2>2, AllowStep
<1> DEFINE Within(l, a, i, j) ==
             (j - i + 1) * Unit <= l.burst + l.rate * (a[j] - a[i])
<1>3. ASSUME NEW s \in DOMAIN buckets, NEW i \in 1..Len(admitted[s]),
             NEW j \in 1..Len(admitted[s]), i <= j
      PROVE  Within(buckets[s].limit, admitted[s], i, j)
  BY <1>3 DEF WindowBound
<1>4. ASSUME NEW s \in DOMAIN buckets', s # t, NEW i \in 1..Len(admitted'[s]),
             NEW j \in 1..Len(admitted'[s]), i <= j
      PROVE  Within(buckets'[s].limit, admitted'[s], i, j)
  <2>1. s \in DOMAIN buckets /\ buckets'[s] = buckets[s] /\ admitted'[s] = admitted[s]
    BY <1>2, <1>4 DEF Types
  <2> QED
    BY <1>3, <1>4, <2>1
<1>5. ASSUME NEW i \in 1..n, NEW j \in 1..n, i <= j
      PROVE  Within(buckets'[t].limit, log, i, j)
  <2>1. t \in DOMAIN buckets
    BY <1>1
  <2>2. buckets'[t].limit = buckets[t].limit
    BY <1>2, <2>1 DEF bucketOf
  <2> HIDE DEF Within
  <2> QED
    BY <1>3, <1>5, <2>1, <2>2
<1>6. ASSUME NEW i \in 1..Len(admitted'[t]), NEW j \in 1..Len(admitted'[t]), i <= j
      PROVE  Within(buckets'[t].limit, admitted'[t], i, j)
  <2>1. CASE admitted'[t] = log
    <3> HIDE DEF Within
    <3> QED
      BY <1>5, <1>6, <2>1
  <2>2. CASE admitted'[t] = Append(log, now) /\ buckets'[t].tokens >= 0
    <3> DEFINE more == admitted'[t]
    <3>1. /\ more \in Seq(Nat) /\ Len(more) = n + 1 /\ more[n + 1] = now /\ more # << >>
          /\ \A k \in 1..n : more[k] = log[k]
      <4>1. more = Append(log, now)
        BY <2>2, Zenon
      <4> QED
        BY <1>1, <4>1
    <3> HIDE DEF more, log, n
    <3>2. CASE j = n + 1
      <4>1. j = Len(more) /\ more[Len(more)] = buckets'[t].lastRefill
        BY <1>2, <3>1, <3>2
      <4>2. Sound(buckets'[t], more, now)
        BY <1>2 DEF more
      <4>3. (Len(more) - i + 1) * Unit
               <= buckets'[t].limit.burst + buckets'[t].limit.rate * (more[Len(more)] - more[i])
        BY <1>1, <1>6, <2>2, <3>1, <4>1, <4>2, SoundBounds DEF more
      <4> QED
        BY <4>1, <4>3, Zenon DEF more
    <3>3. CASE j # n + 1
      <4>1. i \in 1..n /\ j \in 1..n
        BY <1>1, <1>6, <3>1, <3>3 DEF more
      <4>2. more[i] = log[i] /\ more[j] = log[j]
        BY <3>1, <4>1
      <4>3. Within(buckets'[t].limit, log, i, j)
        BY <1>5, <1>6, <4>1
      <4> QED
        BY <4>2, <4>3, Zenon DEF more
    <3> QED
      BY <3>2, <3>3
  <2> QED
    BY <1>2, <2>1, <2>2
<1>7. ASSUME NEW s \in DOMAIN buckets', NEW i \in 1..Len(admitted'[s]),
             NEW j \in 1..Len(admitted'[s]), i <= j
      PROVE  Within(buckets'[s].limit, admitted'[s], i, j)
  <2> HIDE DEF Within
  <2> QED
    BY <1>4, <1>6, <1>7
<1> QED
  BY <1>7 DEF WindowBound

\* A tenant that has been refused from its first request has a burst of less than a token.
LEMMA NeverAdmitted ==
  ASSUME IInv, NEW t \in Tenants, NEW limit \in Limits[t], allow(t, limit),
         admitted'[t] = << >>
  PROVE  bucketOf(t, limit).limit.burst < Unit
<1> USE DEF IInv
<1> DEFINE found == bucketOf(t, limit)
<1>1. admitted[t] = << >> /\ ~canAdmit(refilled(found))
  <2>1. Append(admitted[t], now) # << >>
    BY Timestamps
  <2> QED
    BY <2>1, AllowStep
<1>2. CASE t \in DOMAIN buckets
  BY <1>1, <1>2 DEF bucketOf, RefusalMeansEmpty
<1>3. CASE t \notin DOMAIN buckets
  <2>1. found = [tokens |-> limit.burst, lastRefill |-> now, limit |-> limit]
    BY <1>3 DEF bucketOf
  <2>2. now \in Nat /\ GoodBucket(found, now)
    BY Timestamps, FoundSound
  <2>3. Level(found) = limit.burst
    BY <2>1, <2>2, LevelNow
  <2>4. refilled(found).tokens = limit.burst
    BY <2>2, <2>3, Refill
  <2>5. limit.burst \in Int
    BY LimitsType DEF Limit
  <2>6. limit.burst < Unit
    BY <1>1, <2>4, <2>5, LimiterAssumption DEF canAdmit
  <2> QED
    BY <2>1, <2>6
<1> QED
  BY <1>2, <1>3

LEMMA RequestInv ==
  ASSUME IInv, NEW t \in Tenants, NEW limit \in Limits[t], allow(t, limit)
  PROVE  IInv'
<1> USE DEF IInv
<1> DEFINE b == refilled(bucketOf(t, limit))
<1>1. /\ DOMAIN buckets' = DOMAIN buckets \cup {t}
      /\ \A s \in DOMAIN buckets \ {t} : buckets'[s] = buckets[s]
      /\ \A s \in Tenants \ {t} : admitted'[s] = admitted[s]
      /\ Sound(buckets'[t], admitted'[t], now)
      /\ buckets'[t].limit = bucketOf(t, limit).limit
      /\ \/ verdict' = <<t, TRUE>>
         \/ ~canAdmit(b) /\ buckets'[t].tokens = b.tokens /\ verdict' = <<t, FALSE>>
  BY AllowStep
<1>2. now' = now
  BY DEF allow
<1>3. Types'
  <2>1. Append(admitted[t], now) \in Seq(0..Horizon)
    BY DEF Types
  <2>2. admitted' \in [Tenants -> Seq(0..Horizon)]
    BY <2>1 DEF allow, Types
  <2>3. DOMAIN buckets' \subseteq Tenants
    BY <1>1 DEF Types
  <2>4. verdict' \in Tenants \X BOOLEAN
    <3>1. <<t, TRUE>> \in Tenants \X BOOLEAN /\ <<t, FALSE>> \in Tenants \X BOOLEAN
      OBVIOUS
    <3>2. verdict' = <<t, TRUE>> \/ verdict' = <<t, FALSE>>
      BY <1>1, Zenon
    <3> QED
      BY <3>1, <3>2
  <2> QED
    BY <1>2, <2>2, <2>3, <2>4 DEF Types
<1>4. BucketsSound'
  <2>1. ASSUME NEW s \in DOMAIN buckets'
        PROVE  Sound(buckets'[s], admitted'[s], now)
    <3>1. CASE s = t
      BY <1>1, <3>1
    <3>2. CASE s # t
      <4>1. s \in DOMAIN buckets /\ s \in Tenants
        BY <1>1, <3>2 DEF Types
      <4> QED
        BY <1>1, <3>2, <4>1 DEF BucketsSound
    <3> QED
      BY <3>1, <3>2
  <2>2. ASSUME NEW s \in Tenants \ DOMAIN buckets'
        PROVE  admitted'[s] = << >>
    BY <1>1 DEF BucketsSound
  <2> QED
    BY <1>2, <2>1, <2>2 DEF BucketsSound
<1>5. RefusalMeansEmpty'
  <2>1. ASSUME NEW s \in DOMAIN buckets'
        PROVE  buckets'[s].limit.burst >= Unit \/ NoToken(buckets'[s].limit)
    <3>1. bucketOf(t, limit).limit.burst >= Unit \/ NoToken(bucketOf(t, limit).limit)
      BY LimitsType DEF bucketOf, RefusalMeansEmpty
    <3> QED
      BY <1>1, <2>1, <3>1 DEF RefusalMeansEmpty
  <2>2. ASSUME NEW s \in DOMAIN buckets', verdict' = <<s, FALSE>>
        PROVE  buckets'[s].tokens < Unit
    <3>1. s = t /\ ~canAdmit(b) /\ buckets'[t].tokens = b.tokens
      BY <1>1, <2>2
    <3>2. buckets'[t].tokens \in Int
      BY <1>1 DEF Sound, GoodBucket
    <3> QED
      BY <3>1, <3>2, LimiterAssumption DEF canAdmit
  <2>3. ASSUME NEW s \in DOMAIN buckets', admitted'[s] = << >>
        PROVE  buckets'[s].limit.burst < Unit
    <3>1. CASE s # t
      <4>1. s \in DOMAIN buckets /\ s \in Tenants
        BY <1>1, <3>1 DEF Types
      <4> QED
        BY <1>1, <2>3, <3>1, <4>1 DEF RefusalMeansEmpty
    <3>2. CASE s = t
      BY <1>1, <2>3, <3>2, NeverAdmitted
    <3> QED
      BY <3>1, <3>2
  <2> QED
    BY <2>1, <2>2, <2>3 DEF RefusalMeansEmpty
<1> QED
  BY <1>3, <1>4, <1>5, RequestKeepsWindow

LEMMA StepInv == IInv /\ [Next]_vars => IInv'
<1> SUFFICES ASSUME IInv, [Next]_vars
             PROVE  IInv'
  OBVIOUS
<1>1. CASE Tick
  BY <1>1, TickInv
<1>2. ASSUME NEW key \in DOMAIN TenantsByKey, Request(key)
      PROVE  IInv'
  BY <1>2, TenantEntry, RequestInv DEF Request
<1>3. CASE UNCHANGED vars
  BY <1>3 DEF vars, IInv, Types, BucketsSound, WindowBound, RefusalMeansEmpty, Sound,
              GoodBucket, NoDebt, Spent, Held
<1> QED
  BY <1>1, <1>2, <1>3 DEF Next

\* However requests and the clock interleave, no bucket exceeds its burst, none is in debt
\* unless its limit is negative, and what it holds and has given within any time it had as
\* its burst or has gained since (allow).
THEOREM InductiveInvariant == Spec => []IInv
BY InitInv, StepInv, PTL DEF Spec

-----------------------------------------------------------------------------
(***************************************************************************)
(* The theorems                                                             *)
(***************************************************************************)

\* Every bucket holds an amount, and no debt unless its limit is negative, and was
\* refilled at a time of the clock (the fields of bucket).
THEOREM TypeCorrect == Spec => []TypeOK
<1>1. IInv => TypeOK
  <2> SUFFICES ASSUME IInv
               PROVE  TypeOK
    OBVIOUS
  <2>1. ASSUME NEW t \in DOMAIN buckets
        PROVE  buckets[t] \in Bucket /\ NoDebt(buckets[t])
    <3>1. GoodBucket(buckets[t], now) /\ now \in 0..Horizon
      BY DEF IInv, BucketsSound, Sound, Types
    <3> QED
      BY <3>1, LimiterAssumption DEF GoodBucket, Bucket
  <2> QED
    BY <2>1 DEF IInv, Types, TypeOK
<1> QED
  BY <1>1, InductiveInvariant, PTL

\* In every window of time a tenant is admitted at most its burst and what its rate
\* refills during the window, whatever its limits and however it calls allow.
THEOREM AdmissionsBounded == Spec => []WindowBound
<1>1. IInv => WindowBound
  BY DEF IInv
<1> QED
  BY <1>1, InductiveInvariant, PTL

\* A tenant is refused only after it has been admitted, and before another token has been
\* refilled: no configured limit, and no entry that leaves its limits open, locks a tenant
\* out from the start, unless the default burst is less than a token (allow, Load).
THEOREM RefusalsJustified == Spec => []RefusedWhenSpent
<1>1. IInv => RefusedWhenSpent
  <2> SUFFICES ASSUME IInv, NEW t \in DOMAIN buckets,
                      verdict = <<t, FALSE>>, ~NoToken(buckets[t].limit)
               PROVE  /\ admitted[t] # << >>
                      /\ buckets[t].limit.rate
                           * (buckets[t].lastRefill - admitted[t][Len(admitted[t])]) < Unit
    BY DEF RefusedWhenSpent
  <2> DEFINE b == buckets[t]
             last == admitted[t][Len(admitted[t])]
             refill == b.limit.rate * (b.lastRefill - last)
  <2>1. t \in Tenants /\ GoodBucket(b, now) /\ Spent(b, admitted[t]) /\ Held(b, admitted[t])
    BY DEF IInv, Types, BucketsSound, Sound
  <2>2. b.tokens < Unit /\ b.limit.burst >= Unit
    BY DEF IInv, RefusalMeansEmpty
  <2>3. b.tokens \in Int /\ b.limit.burst \in Int /\ b.limit.rate \in Int /\ b.lastRefill \in Nat
    BY <2>1 DEF GoodBucket, Limit
  <2>4. admitted[t] # << >>
    <3>1. admitted[t] = << >> => b.limit.burst < Unit
      BY DEF IInv, RefusalMeansEmpty
    <3> QED
      BY <2>2, <2>3, <3>1, LimiterAssumption
  <2>5. b.lastRefill - last \in Nat
    <3>1. admitted[t] \in Seq(Nat)
      BY <2>1, Timestamps DEF IInv
    <3>2. Len(admitted[t]) \in 1..Len(admitted[t])
      BY <2>4, <3>1
    <3>3. last \in Nat /\ last <= b.lastRefill
      BY <2>1, <3>2 DEF Spent
    <3> QED
      BY <2>3, <3>3
  <2>6. refill \in Int /\ (b.limit.rate < 0 => refill <= 0)
    BY <2>3, <2>5, Product
  <2>7. b.limit.rate >= 0 => b.tokens >= b.limit.burst \/ b.tokens >= refill
    BY <2>1, <2>4, Zenon DEF Held
  <2> HIDE DEF refill
  <2>8. refill < Unit
    BY <2>2, <2>3, <2>6, <2>7, LimiterAssumption
  <2> QED
    BY <2>4, <2>8 DEF refill
<1> QED
  BY <1>1, InductiveInvariant, PTL

-----------------------------------------------------------------------------
(***************************************************************************)
(* The refinement                                                           *)
(***************************************************************************)

\* The buckets as they would be if they were refilled with the passing of time.
Filled == [t \in DOMAIN buckets |-> [level |-> Level(buckets[t]), limit |-> buckets[t].limit]]

\* One unit of time adds the rate to a level, up to the burst.
LEMMA LevelNext ==
  ASSUME now \in Nat, NEW b, GoodBucket(b, now), now' = now + 1
  PROVE  minFloat(b.limit.burst, b.tokens + (now' - b.lastRefill) * b.limit.rate)
           = Continuous!Least(b.limit.burst, Level(b) + b.limit.rate)
<1>1. /\ b.limit.rate \in Int /\ b.limit.burst \in Int /\ b.tokens \in Int
      /\ b.tokens <= b.limit.burst /\ b.lastRefill \in Nat /\ b.lastRefill <= now
  BY DEF GoodBucket, Limit
<1>2. PICK gain \in Int : /\ gain = (now - b.lastRefill) * b.limit.rate
                          /\ b.limit.rate < 0 => gain <= 0
  <2>1. now - b.lastRefill \in Nat
    BY <1>1
  <2> QED
    BY <1>1, <2>1, Product
<1>3. (now' - b.lastRefill) * b.limit.rate = gain + b.limit.rate
  <2>1. now' - b.lastRefill = (now - b.lastRefill) + 1
    BY <1>1
  <2>2. ASSUME NEW d \in Int, NEW r \in Int
        PROVE  (d + 1) * r = d * r + r
    OBVIOUS
  <2>3. now - b.lastRefill \in Int /\ b.limit.rate \in Int
    BY <1>1
  <2>4. ((now - b.lastRefill) + 1) * b.limit.rate = (now - b.lastRefill) * b.limit.rate + b.limit.rate
    BY <2>2, <2>3, Zenon
  <2> QED
    BY <1>2, <2>1, <2>4, Zenon
<1>4. Level(b) = minFloat(b.limit.burst, b.tokens + gain)
  BY <1>2, Zenon DEF Level
<1>5. minFloat(b.limit.burst, b.tokens + (gain + b.limit.rate))
        = minFloat(b.limit.burst, minFloat(b.limit.burst, b.tokens + gain) + b.limit.rate)
  BY <1>1, <1>2 DEF minFloat
<1>6. \A x, y : Continuous!Least(x, y) = minFloat(x, y)
  BY DEF Continuous!Least, minFloat
<1> QED
  BY <1>3, <1>4, <1>5, <1>6, Zenon

\* The passing of a unit of time refills every bucket.
LEMMA TickRefills ==
  ASSUME IInv, Tick
  PROVE  Continuous!Tick
<1>1. now \in Nat /\ now' = now + 1 /\ now < Horizon
  BY LimiterAssumption DEF IInv, Types, Tick
<1>2. ASSUME NEW t \in DOMAIN buckets
      PROVE  [level |-> minFloat(buckets[t].limit.burst,
                                 buckets[t].tokens + (now' - buckets[t].lastRefill)
                                                       * buckets[t].limit.rate),
              limit |-> buckets[t].limit]
               = Continuous!Refilled(Filled[t])
  <2>1. GoodBucket(buckets[t], now)
    BY DEF IInv, BucketsSound, Sound
  <2>2. Filled[t] = [level |-> Level(buckets[t]), limit |-> buckets[t].limit]
    BY DEF Filled
  <2>3. Continuous!Refilled(Filled[t])
          = [level |-> Continuous!Least(buckets[t].limit.burst,
                                        Level(buckets[t]) + buckets[t].limit.rate),
             limit |-> buckets[t].limit]
    BY <2>2 DEF Continuous!Refilled
  <2> QED
    BY <1>1, <2>1, <2>3, LevelNext
<1>3. Filled' = [t \in DOMAIN buckets |-> Continuous!Refilled(Filled[t])]
  BY <1>2 DEF Filled, Level, Tick
<1>4. DOMAIN Filled = DOMAIN buckets
  BY DEF Filled
<1> QED
  BY <1>1, <1>3, <1>4 DEF Continuous!Tick, Filled, Tick

\* A request finds the same level, and leaves the same level, as if its bucket had
\* been refilled all along.
LEMMA RequestAgrees ==
  ASSUME IInv, NEW t \in Tenants, NEW limit \in Limits[t], allow(t, limit)
  PROVE  Continuous!Request(t, limit)
<1> USE DEF IInv
<1> DEFINE found == bucketOf(t, limit)
           b == refilled(found)
           ok == canAdmit(b)
           ideal == Continuous!BucketOf(t, limit)
           left == IF ok THEN b.tokens - Unit ELSE b.tokens
<1>1. now \in Nat /\ GoodBucket(found, now) /\ Sound(b, admitted[t], now)
  BY Timestamps, FoundSound
<1>2. b = [tokens |-> Level(found), lastRefill |-> now, limit |-> found.limit]
  BY <1>1, Refill
<1>3. DOMAIN Filled = DOMAIN buckets
  BY DEF Filled
<1>4. ideal = [level |-> Level(found), limit |-> found.limit]
  <2>1. CASE t \in DOMAIN buckets
    BY <1>3, <2>1 DEF bucketOf, Continuous!BucketOf, Filled
  <2>2. CASE t \notin DOMAIN buckets
    <3>1. found = [tokens |-> limit.burst, lastRefill |-> now, limit |-> limit]
      BY <2>2 DEF bucketOf
    <3>2. Level(found) = found.tokens
      BY <1>1, <3>1, LevelNow
    <3> QED
      BY <2>2, <3>1, <3>2 DEF Continuous!BucketOf
  <2> QED
    BY <2>1, <2>2
<1>5. /\ DOMAIN buckets' = DOMAIN buckets \cup {t}
      /\ \A s \in DOMAIN buckets \ {t} : buckets'[s] = buckets[s]
      /\ Sound(buckets'[t], admitted'[t], now)
      /\ buckets'[t].limit = found.limit
      /\ buckets'[t].lastRefill = now
      /\ buckets'[t].tokens = left
  BY AllowStep
<1>6. now' = now
  BY DEF allow
<1>7. Level(buckets'[t]) = left
  <2>1. GoodBucket(buckets'[t], now)
    BY <1>5 DEF Sound
  <2> QED
    BY <1>1, <1>5, <2>1, LevelNow
<1>8. ok <=> ideal.level >= Unit
  BY <1>2, <1>4 DEF canAdmit
<1>9. Filled' = [s \in DOMAIN buckets \cup {t} |->
                   IF s = t THEN [level |-> left, limit |-> found.limit] ELSE Filled[s]]
  <2>1. Filled' = [s \in DOMAIN buckets \cup {t} |->
                     [level |-> Level(buckets'[s]), limit |-> buckets'[s].limit]]
    BY <1>5, <1>6 DEF Filled, Level
  <2>2. \A s \in DOMAIN buckets \ {t} :
            Filled[s] = [level |-> Level(buckets'[s]), limit |-> buckets'[s].limit]
    BY <1>5 DEF Filled
  <2> HIDE DEF left, found
  <2> QED
    BY <1>5, <1>7, <2>1, <2>2
<1>10. left = IF ideal.level >= Unit THEN ideal.level - Unit ELSE ideal.level
  BY <1>2, <1>4, <1>8
<1>11. /\ admitted' = IF ok THEN [admitted EXCEPT ![t] = Append(@, now)] ELSE admitted
       /\ verdict' = <<t, ok>>
  BY DEF allow
<1>12. [ideal EXCEPT !.level = left] = [level |-> left, limit |-> found.limit]
  <2> HIDE DEF ideal, left, found
  <2> QED
    BY <1>4
<1>13. ok = (ideal.level >= Unit)
  <2>1. ok \in BOOLEAN /\ (ideal.level >= Unit) \in BOOLEAN
    <3>1. Level(found) \in Int
      BY <1>1, Refill
    <3> QED
      BY <1>2, <1>4, <3>1, LimiterAssumption DEF canAdmit
  <2> QED
    BY <1>8, <2>1
<1> QED
  BY <1>3, <1>6, <1>9, <1>10, <1>11, <1>12, <1>13, Zenon DEF Continuous!Request, Filled

\* Refilling a bucket lazily, at its next request, gives every request the answer
\* that refilling it continuously would (allow implements the token bucket).
THEOREM Implements == Spec => RefillsContinuously
<1>1. Init => Continuous!Init
  <2> SUFFICES ASSUME Init
               PROVE  Filled = << >>
    BY DEF Init, Continuous!Init, Filled, NoVerdict, Continuous!NoVerdict
  <2> QED
    BY DEF Init, Filled
<1>2. IInv /\ [Next]_vars => [Continuous!Next]_Continuous!vars
  <2> SUFFICES ASSUME IInv, [Next]_vars
               PROVE  [Continuous!Next]_Continuous!vars
    OBVIOUS
  <2>1. CASE Tick
    BY <2>1, TickRefills DEF Continuous!Next
  <2>2. ASSUME NEW key \in DOMAIN TenantsByKey, Request(key)
        PROVE  Continuous!Next
    <3>1. PICK limit \in Limits[TenantsByKey[key].id] : allow(TenantsByKey[key].id, limit)
      BY <2>2 DEF Request
    <3>2. TenantsByKey[key].id \in Tenants
      BY TenantEntry
    <3> QED
      BY <3>1, <3>2, RequestAgrees DEF Continuous!Next
  <2>3. CASE UNCHANGED vars
    BY <2>3 DEF vars, Continuous!vars, Level
  <2> QED
    BY <2>1, <2>2, <2>3 DEF Next
<1> QED
  BY <1>1, <1>2, InductiveInvariant, PTL DEF Spec, RefillsContinuously, Continuous!Spec

=============================================================================
