------------------------------ MODULE RateLimit ------------------------------
(***************************************************************************)
(* The sliding-window limiter of one tenant, or of one super admin:         *)
(*   internal/middleware/rate_limit.go                                      *)
(*                                                                          *)
(* The sorted set in Redis is kept by age: hits[a] is the number of stamps  *)
(* a ticks old.  A stamp as old as the window is never counted again.       *)
(***************************************************************************)
EXTENDS Integers, Functions

CONSTANTS
    Limit,              \* requests per window
    BurstMultiplier,
    Window, BurstWindow \* in ticks of the clock

ASSUME RateLimitAssumption ==
    /\ Limit \in Nat /\ BurstMultiplier \in Nat \ {0}
    /\ Window \in Nat \ {0} /\ BurstWindow \in 0..(Window - 1)

VARIABLES
    hits,       \* ZADD: every request that was counted, allowed or not
    admitted    \* history: the requests the limiter let through, by the age of their stamp

Ages == 0..(Window - 1)
Empty == [a \in Ages |-> 0]

Stamp(f, age) == IF age \in Ages THEN [f EXCEPT ![age] = @ + 1] ELSE f
Older(f) == [a \in Ages |-> IF a = 0 THEN 0 ELSE f[a - 1]]

(* ZCOUNT of the window, whose older stamps ZREMRANGEBYSCORE took out, and  *)
(* of the burst window, both ends included.                                 *)
Count == SumFunctionOnSet(hits, Ages)
MutantBurstCount == IF BurstWindow = 0 THEN 0 ELSE SumFunctionOnSet(hits, 1..BurstWindow) \* one end left out
BurstCount == SumFunctionOnSet(hits, 0..BurstWindow)

BurstLimit == Limit * BurstMultiplier
Allowed(count, burst) == burst <= BurstLimit \/ count <= Limit

LimiterInit == hits = Empty /\ admitted = Empty

(* ZADD, and the decision on what was counted before it. *)
Hit(age, allowed) ==
    /\ hits' = Stamp(hits, age)
    /\ admitted' = IF allowed THEN Stamp(admitted, age) ELSE admitted

GrowOlder == hits' = Older(hits) /\ admitted' = Older(admitted)

LimiterTypeOK == hits \in [Ages -> Nat] /\ admitted \in [Ages -> Nat]
==============================================================================
