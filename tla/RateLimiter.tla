------------------------------ MODULE RateLimiter -----------------------------
(***************************************************************************)
(* The rate limiter of internal/proxy/ratelimit.go: the bucket of a tenant  *)
(* is refilled lazily, by the time elapsed since its last request, each time *)
(* a request of the tenant arrives.  allow runs under the limiter's mutex    *)
(* from beginning to end, so it is one action.  WithAuth (auth.go) has found *)
(* the tenant by the API key; a request with an unknown key is refused there *)
(* and changes nothing.                                                      *)
(*                                                                           *)
(* The float64 amounts of the code are exact multiples of a fraction of a    *)
(* token here; the rounding of its additions is not modelled.                *)
(***************************************************************************)
EXTENDS TenantConfig

CONSTANTS
    Unit,      \* one token; rates and bursts are amounts
    Horizon    \* the bound on time

ASSUME LimiterAssumption ==
    /\ Unit \in Nat \ {0}
    /\ Horizon \in Nat

\* A burst is an int number of tokens: a configured one is worth a token at least.
ASSUME BurstAssumption ==
    \A i \in DOMAIN FileTenants :
        FileTenants[i].burst > 0 => FileTenants[i].burst >= Unit

\* A default is applied as it is, so a rate or a burst may be negative.
Limit == [rate : Int, burst : Int]

Tenants == {TenantsByKey[key].id : key \in DOMAIN TenantsByKey}

\* The limits allow may find for a tenant: it takes those of whichever of the
\* tenant's API keys the iteration over the map meets first.
Limits ==
    [t \in Tenants |->
        {[rate |-> TenantsByKey[key].rate, burst |-> TenantsByKey[key].burst] :
            key \in {k \in DOMAIN TenantsByKey : TenantsByKey[k].id = t}}]

VARIABLES
    now,       \* the clock that time.Now reads
    buckets,   \* rl.buckets
    admitted,  \* the times at which each tenant's requests were admitted
    verdict    \* the answer to the last request

vars == <<now, buckets, admitted, verdict>>

NoVerdict == << >>

Bucket == [tokens : Int, lastRefill : 0..Horizon, limit : Limit]

\* A bucket that is filled with something and loses nothing by itself holds no debt.
NoDebt(b) == b.limit.rate >= 0 /\ b.limit.burst >= 0 => b.tokens >= 0

TypeOK ==
    /\ now \in 0..Horizon
    /\ DOMAIN buckets \subseteq Tenants
    /\ \A t \in DOMAIN buckets : buckets[t] \in Bucket /\ NoDebt(buckets[t])
    /\ admitted \in [Tenants -> Seq(0..Horizon)]
    /\ verdict \in {NoVerdict} \cup (Tenants \X BOOLEAN)

Init ==
    /\ now = 0
    /\ buckets = << >>
    /\ admitted = [t \in Tenants |-> << >>]
    /\ verdict = NoVerdict

Tick ==
    /\ now < Horizon
    /\ now' = now + 1
    /\ UNCHANGED <<buckets, admitted, verdict>>

minFloat(a, b) == IF a < b THEN a ELSE b

\* A variant of refilled without the cap.
refilledUncapped(b) ==
    [b EXCEPT !.tokens = b.tokens + (now - b.lastRefill) * b.limit.rate,
              !.lastRefill = now]

\* A variant of refilled that does not move lastRefill.
refilledAgain(b) ==
    [b EXCEPT !.tokens =
        minFloat(b.limit.burst, b.tokens + (now - b.lastRefill) * b.limit.rate)]

refilled(b) ==
    [b EXCEPT !.tokens =
                  minFloat(b.limit.burst, b.tokens + (now - b.lastRefill) * b.limit.rate),
              !.lastRefill = now]

\* A bucket keeps the limit it was created with.
bucketOf(t, limit) ==
    IF t \in DOMAIN buckets
    THEN buckets[t]
    ELSE [tokens |-> limit.burst, lastRefill |-> now, limit |-> limit]

\* A variant of canAdmit that lets the bucket run into debt.
canAdmitAny(b) == b.tokens > 0

canAdmit(b) == b.tokens >= Unit

allow(t, limit) ==
    LET b  == refilled(bucketOf(t, limit))
        ok == canAdmit(b)
        left == IF ok THEN [b EXCEPT !.tokens = @ - Unit] ELSE b
    IN  /\ buckets' = [s \in DOMAIN buckets \cup {t} |-> IF s = t THEN left ELSE buckets[s]]
        /\ admitted' = IF ok THEN [admitted EXCEPT ![t] = Append(@, now)] ELSE admitted
        /\ verdict' = <<t, ok>>
        /\ UNCHANGED now

Request(key) ==
    LET t == TenantsByKey[key].id
    IN  \E limit \in Limits[t] : allow(t, limit)

Next == Tick \/ \E key \in DOMAIN TenantsByKey : Request(key)

Spec == Init /\ [][Next]_vars

-----------------------------------------------------------------------------
(***************************************************************************)
(* Properties                                                               *)
(***************************************************************************)

\* In every window of time a tenant is admitted at most its burst plus what its
\* rate refills during the window, wherever the window starts and however idle
\* periods and rejected requests are spread over it (allow, seen over time).
WindowBound ==
    \A t \in DOMAIN buckets : \A i, j \in 1..Len(admitted[t]) :
        i <= j => (j - i + 1) * Unit
                    <= buckets[t].limit.burst
                       + buckets[t].limit.rate * (admitted[t][j] - admitted[t][i])

\* The default burst is less than a token, and the limit has left its burst open.
NoToken(limit) == DefaultBurst < Unit /\ limit.burst = DefaultBurst

\* A tenant is refused only when it has spent what it was given: it has had a request
\* admitted, since when less than a token has been refilled.  With a rate of zero or less,
\* which only the default can be, that is for good; and only a default burst of less than
\* a token refuses it from its first request (Load's defaults, allow's refill).
RefusedWhenSpent ==
    \A t \in DOMAIN buckets :
        verdict = <<t, FALSE>> =>
            \/ NoToken(buckets[t].limit)
            \/ /\ admitted[t] # << >>
               /\ LET last == admitted[t][Len(admitted[t])]
                  IN  buckets[t].limit.rate * (buckets[t].lastRefill - last) < Unit

\* What the lazily refilled bucket of t holds at this moment.
Level(b) == minFloat(b.limit.burst, b.tokens + (now - b.lastRefill) * b.limit.rate)

Continuous == INSTANCE TokenBucket WITH
    bucket <- [t \in DOMAIN buckets |->
                  [level |-> Level(buckets[t]), limit |-> buckets[t].limit]]

\* Refilling lazily gives every request the answer that refilling with the
\* passing of time would: an idle tenant neither loses tokens nor gains more
\* than its burst, and rejected requests cost it nothing.
RefillsContinuously == Continuous!Spec

=============================================================================
