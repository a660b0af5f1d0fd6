---------------------------- MODULE RateLimiter ----------------------------
(***************************************************************************)
(* The fixed-window rate limiters (ratelimit.py), as one tenant meets      *)
(* them.  counts[w] is the tenant's counter of window w, 0 when there is   *)
(* no entry.  The in-memory table holds the entries of every tenant, so    *)
(* whether it has grown past its limit of entries when this tenant calls   *)
(* is a free choice.  Bound: a counter stops at Limit + 1, from where on   *)
(* every call is refused.                                                  *)
(***************************************************************************)
EXTENDS Naturals

CONSTANTS Limit, Windows

ASSUME LimitAssumption == Limit \in Nat \ {0} /\ Windows \subseteq Nat

VARIABLES
    limiter,    \* which of the two the service was started with
    counts      \* window -> calls counted

limiterVars == <<limiter, counts>>

LimiterTypeOK ==
    /\ limiter \in {"memory", "redis"}
    /\ counts \in [Windows -> 0 .. Limit + 1]

LimiterInit ==
    /\ limiter \in {"memory", "redis"}
    /\ counts = [w \in Windows |-> 0]

Counted(b) == [counts EXCEPT ![b] = IF @ > Limit THEN @ ELSE @ + 1]

\* InMemoryRateLimiter drops old buckets when the table has grown too large.
Purged_BugOwnOnly(c, b) == [w \in Windows |-> IF w = b THEN c[w] ELSE 0]
Purged(c, b) == [w \in Windows |-> IF w >= b THEN c[w] ELSE 0]

\* allow(tenant) in bucket b, under the lock or as an atomic INCR.
Allow(b) ==
    /\ \/ counts' = Counted(b)
       \/ limiter = "memory" /\ counts' = Purged(Counted(b), b)
    /\ UNCHANGED limiter
Admits(b) == Counted(b)[b] <= Limit

\* Redis drops a key window_s after its first INCR, in a later window.  When
\* the caller dies before EXPIRE the key stays: nothing forces this step.
Expire(w, now) ==
    /\ limiter = "redis"
    /\ w < now /\ counts[w] > 0
    /\ counts' = [counts EXCEPT ![w] = 0]
    /\ UNCHANGED limiter

\* A restart of the service loses the table it holds in memory.
Forget ==
    /\ counts' = IF limiter = "memory" THEN [w \in Windows |-> 0] ELSE counts
    /\ UNCHANGED limiter
=============================================================================
