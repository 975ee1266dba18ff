------------------------------ MODULE TokenBucket -----------------------------
(***************************************************************************)
(* What the rate limiter promises each tenant: a bucket that starts full,   *)
(* gains Limits' rate with every unit of time up to its burst, and admits a *)
(* request exactly when it can take one token for it.                       *)
(*                                                                          *)
(* Amounts are integers: one token is Unit, a rate is an amount per unit of   *)
(* time, a burst is an amount.  A bucket with a negative rate loses by it.    *)
(***************************************************************************)
EXTENDS Integers, Sequences

CONSTANTS
    Tenants,   \* the tenant IDs
    Limits,    \* the limits each tenant may be given: several if its API keys differ
    Unit,      \* one token
    Horizon    \* the bound on time

Least(a, b) == IF a < b THEN a ELSE b

VARIABLES
    now,       \* the time
    bucket,    \* the level and the limit of each tenant seen so far
    admitted,  \* the times at which each tenant's requests were admitted
    verdict    \* the answer to the last request

vars == <<now, bucket, admitted, verdict>>

NoVerdict == << >>

Init ==
    /\ now = 0
    /\ bucket = << >>
    /\ admitted = [t \in Tenants |-> << >>]
    /\ verdict = NoVerdict

Refilled(b) == [b EXCEPT !.level = Least(b.limit.burst, b.level + b.limit.rate)]

Tick ==
    /\ now < Horizon
    /\ now' = now + 1
    /\ bucket' = [t \in DOMAIN bucket |-> Refilled(bucket[t])]
    /\ UNCHANGED <<admitted, verdict>>

\* A tenant's bucket is full, under one of its limits, when it is first seen.
BucketOf(t, limit) ==
    IF t \in DOMAIN bucket THEN bucket[t] ELSE [level |-> limit.burst, limit |-> limit]

Request(t, limit) ==
    LET b  == BucketOf(t, limit)
        ok == b.level >= Unit
        left == IF ok THEN b.level - Unit ELSE b.level
    IN  /\ bucket' = [s \in DOMAIN bucket \cup {t} |->
                         IF s = t THEN [b EXCEPT !.level = left] ELSE bucket[s]]
        /\ admitted' = IF ok THEN [admitted EXCEPT ![t] = Append(@, now)] ELSE admitted
        /\ verdict' = <<t, ok>>
        /\ UNCHANGED now

Next == Tick \/ \E t \in Tenants : \E limit \in Limits[t] : Request(t, limit)

Spec == Init /\ [][Next]_vars

=============================================================================
