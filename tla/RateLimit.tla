------------------------------ MODULE RateLimit ------------------------------
(***************************************************************************)
(* RateLimitGuard: one caller's Redis counter for one route.  The guard    *)
(* makes three calls to Redis, with an await between them, so the requests *)
(* of the caller interleave between INCR, EXPIRE and TTL; a request may    *)
(* end after any of them, with an error or with its process.               *)
(***************************************************************************)
EXTENDS Integers

CONSTANTS
    Guarded,     \* slots for requests of the caller
    Limit,       \* RateLimitOptions.limit
    Window,      \* RateLimitOptions.ttlSeconds, in ticks
    MaxBreaks    \* bound on requests that end early

ASSUME RateLimitAssumption ==
    Limit \in Nat /\ Window \in Nat \ {0} /\ MaxBreaks \in Nat

VARIABLES
    counter,   \* the key's value, 0 if there is no key
    expiry,    \* ticks until the key expires, -1 if it never does
    check,     \* the requests in the guard: next step and hits
    served,    \* whether the last decision let a request through
    breaks     \* requests that ended early

limitVars == <<counter, expiry, check, served, breaks>>

Idle == [pc |-> "idle", hits |-> 0]

\* Bound: the counter is not followed beyond Limit + Cardinality(Guarded).
LimitTypeOK ==
    /\ counter \in Nat /\ expiry \in -1..Window
    /\ check \in [Guarded -> [pc : {"idle", "expire", "ttl", "again", "decide"}, hits : Nat]]
    /\ served \in BOOLEAN /\ breaks \in 0..MaxBreaks

LimitInit ==
    /\ counter = 0 /\ expiry = -1
    /\ check = [g \in Guarded |-> Idle]
    /\ served = TRUE /\ breaks = 0

\* INCR.  Above Limit every value is treated alike: the counter stops there.
Incr(g) ==
    /\ check[g].pc = "idle"
    /\ LET hits == IF counter > Limit THEN counter ELSE counter + 1
       IN /\ counter' = hits
          /\ check' = [check EXCEPT ![g] = [pc |-> IF hits = 1 THEN "expire" ELSE "ttl",
                                            hits |-> hits]]
    /\ UNCHANGED <<expiry, served, breaks>>

\* EXPIRE, which does nothing to a key that is gone.
Expires == IF counter = 0 THEN UNCHANGED expiry ELSE expiry' = Window

ExpireFirst(g) ==
    /\ check[g].pc = "expire"
    /\ Expires
    /\ check' = [check EXCEPT ![g].pc = "ttl"]
    /\ UNCHANGED <<counter, served, breaks>>

\* Mutant of Unlimited: a key that has no expiry is not looked for.
UnlimitedIfGone == counter = 0

\* TTL is negative for a key that is gone or that never expires.
Unlimited == counter = 0 \/ expiry < 0

ReadTtl(g) ==
    /\ check[g].pc = "ttl"
    /\ check' = [check EXCEPT ![g].pc = IF Unlimited THEN "again" ELSE "decide"]
    /\ UNCHANGED <<counter, expiry, served, breaks>>

ExpireAgain(g) ==
    /\ check[g].pc = "again"
    /\ Expires
    /\ check' = [check EXCEPT ![g].pc = "decide"]
    /\ UNCHANGED <<counter, served, breaks>>

Decide(g) ==
    /\ check[g].pc = "decide"
    /\ served' = (check[g].hits <= Limit)
    /\ check' = [check EXCEPT ![g] = Idle]
    /\ UNCHANGED <<counter, expiry, breaks>>

\* A call to Redis fails, or the process stops.
BreakOff(g) ==
    /\ check[g].pc # "idle" /\ breaks < MaxBreaks
    /\ check' = [check EXCEPT ![g] = Idle]
    /\ breaks' = breaks + 1
    /\ UNCHANGED <<counter, expiry, served>>

\* Redis: time passes, and the key is gone at the end of it.
Tick ==
    /\ counter > 0 /\ expiry > 0
    /\ IF expiry = 1 THEN counter' = 0 /\ expiry' = -1
       ELSE expiry' = expiry - 1 /\ UNCHANGED counter
    /\ UNCHANGED <<check, served, breaks>>

Guard(g) == ExpireFirst(g) \/ ReadTtl(g) \/ ExpireAgain(g) \/ Decide(g)

LimitNext == Tick \/ \E g \in Guarded : Incr(g) \/ Guard(g) \/ BreakOff(g)

LimitSpec == LimitInit /\ [][LimitNext]_limitVars

\* The clock runs and a request that is in the guard goes on ...
GuardFairness == WF_limitVars(Tick) /\ \A g \in Guarded : WF_limitVars(Guard(g))

\* ... and the caller keeps asking.
LimitFairness == GuardFairness /\ \A g \in Guarded : WF_limitVars(Incr(g))

\* rate-limit.guard.ts:51, the second EXPIRE: a caller who was refused and keeps
\* asking is served again, although a request broke off between its INCR and its
\* EXPIRE and left a counter that never expires, and although requests cross.
ServedAgain == ~served ~> served
=============================================================================
