---------------------------- MODULE MCRateLimiter -----------------------------
(* Instances of RateLimiter for TLC.                                         *)
EXTENDS RateLimiter

CONSTANTS k1, k2, k3, k4, devKey, t1, t2, devTenant

AllKeys == {k1, k2, k3, k4, devKey}

\* A token is four units.  The first two entries are two keys of one tenant with
\* different limits: a quarter of a token per tick up to one, and three quarters of
\* a token per tick up to two.  The third is overwritten by the fourth, which
\* leaves its burst and its ID open.  The fifth has no key.
File ==
    << [key |-> k1, id |-> t1, rate |-> 1, burst |-> 4],
       [key |-> k2, id |-> t1, rate |-> 3, burst |-> 8],
       [key |-> k3, id |-> t1, rate |-> 9, burst |-> 12],
       [key |-> k3, id |-> NoId, rate |-> 2, burst |-> 0],
       [key |-> NoKey, id |-> t1, rate |-> 9, burst |-> 12],
       [key |-> k4, id |-> t1, rate |-> 9, burst |-> 12] >>

\* TENANT_RATE_RPS is negative, and Load applies it as it is.
NegativeRate == -1

\* The environment takes a key of the file over, and leaves its limits open.
Environment == << [key |-> k4, id |-> t2] >>

Prefixes == [k \in AllKeys |-> t2]

=============================================================================
