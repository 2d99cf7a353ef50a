------------------------------- MODULE Gateway -------------------------------
(***************************************************************************)
(* What stands before every protected handler, in this order: the rate      *)
(* limiter and the idempotency keys:                                        *)
(*   internal/router/router.go                                              *)
(*   internal/middleware/rate_limit.go, internal/middleware/idempotency.go  *)
(*                                                                          *)
(* A command to Redis is a step.  The limiter's pipeline is two: commands   *)
(* of others may come between its counts and its ZADD.  Both middlewares    *)
(* let the request through when Redis does not answer.  A key is used for   *)
(* one operation and its retries.                                           *)
(***************************************************************************)
EXTENDS RateLimit, Idempotency, FiniteSets

CONSTANTS
    Workers,        \* requests in flight, of any server process
    MaxHits,        \* bound: stamps in the window
    MaxFaults       \* bound: failed Redis commands, panics and crashes

ASSUME GatewayAssumption == IsFiniteSet(Workers) /\ MaxHits \in Nat /\ MaxFaults \in Nat

VARIABLES
    faults,
    req,            \* requests in flight
    done,           \* done[k]: how often a handler that held k did work, up to 2
    leftover,       \* history: keys whose handler did work and answered an error
    abandoned       \* history: keys whose request ended without Store or Delete

limiter == <<hits, admitted>>
work == <<done, leftover>>
vars == <<faults, limiter, value, req, work, abandoned>>

NoKey == "none"
Idle == [pc |-> "idle"]
AgeOf == 0..Window
Request ==
    {Idle}
    \cup [pc: {"count", "handle"}, key: Keys \cup {NoKey}]
    \cup [pc: {"add"}, key: Keys \cup {NoKey}, age: AgeOf, allowed: BOOLEAN]
    \cup [pc: {"get", "acquire", "protected", "store", "delete"}, key: Keys]

(* Requests that acquired their key and are not done with it. *)
Holders(k) == {w \in Workers : req[w].pc \in {"protected", "store", "delete"} /\ req[w].key = k}

Become(w, r) == req' = [req EXCEPT ![w] = r]
Finish(w) == Become(w, Idle)
Fault == faults < MaxFaults /\ faults' = faults + 1

Init ==
    /\ faults = 0
    /\ LimiterInit /\ StoreInit
    /\ req = [w \in Workers |-> Idle]
    /\ done = [k \in Keys |-> 0] /\ leftover = {}
    /\ abandoned = {}

(* A request without Idempotency-Key, or a GET, has no key. *)
Arrive(w, k) ==
    /\ req[w] = Idle
    /\ Count < MaxHits
    /\ Become(w, [pc |-> "count", key |-> k])
    /\ UNCHANGED <<faults, limiter, value, work, abandoned>>

(***************************************************************************)
(* RateLimitMiddleware                                                      *)
(***************************************************************************)
CountHits(w) ==
    /\ req[w].pc = "count"
    /\ Become(w, [pc |-> "add", key |-> req[w].key, age |-> 0,
                  allowed |-> Allowed(Count, BurstCount)])
    /\ UNCHANGED <<faults, limiter, value, work, abandoned>>

Through(k) == [pc |-> IF k = NoKey THEN "handle" ELSE "get", key |-> k]

AddHit(w) ==
    /\ req[w].pc = "add"
    /\ Hit(req[w].age, req[w].allowed)
    /\ Become(w, IF req[w].allowed THEN Through(req[w].key) ELSE Idle)
    /\ UNCHANGED <<faults, value, work, abandoned>>

LimiterFails(w) ==
    /\ req[w].pc \in {"count", "add"} /\ Fault
    /\ Become(w, Through(req[w].key))
    /\ UNCHANGED <<limiter, value, work, abandoned>>

(* A tick of the clock, of which the requests in flight keep the old time.  *)
Tick ==
    /\ GrowOlder
    /\ req' = [w \in Workers |->
         IF req[w].pc = "add" /\ req[w].age < Window THEN [req[w] EXCEPT !.age = @ + 1] ELSE req[w]]
    /\ UNCHANGED <<faults, value, work, abandoned>>

(***************************************************************************)
(* IdempotencyMiddleware                                                    *)
(***************************************************************************)
(* A stored response is replayed. *)
GetKey(w) ==
    /\ req[w].pc = "get"
    /\ Become(w, IF Stored(req[w].key) THEN Idle ELSE [req[w] EXCEPT !.pc = "acquire"])
    /\ UNCHANGED <<faults, limiter, value, work, abandoned>>

(* A key somebody else has: 409. *)
AcquireKey(w) ==
    /\ req[w].pc = "acquire"
    /\ \E taken \in BOOLEAN :
         /\ TryAcquire(req[w].key, taken)
         /\ Become(w, IF taken THEN [req[w] EXCEPT !.pc = "protected"] ELSE Idle)
    /\ UNCHANGED <<faults, limiter, work, abandoned>>

(* Get or SET NX fails, the latter with or without having set the key.      *)
KeyFails(w) ==
    /\ req[w].pc \in {"get", "acquire"} /\ Fault
    /\ \/ UNCHANGED <<value, abandoned>>
       \/ /\ req[w].pc = "acquire" /\ TryAcquire(req[w].key, TRUE)
          /\ abandoned' = abandoned \cup {req[w].key}
    /\ Become(w, [req[w] EXCEPT !.pc = "handle"])
    /\ UNCHANGED <<limiter, work>>

(* A handler without protection. *)
Handle(w) ==
    /\ req[w].pc = "handle"
    /\ Finish(w)
    /\ UNCHANGED <<faults, limiter, value, work, abandoned>>

Did(k) == done' = [done EXCEPT ![k] = IF @ < 2 THEN @ + 1 ELSE @]

(* The handler did its work: its answer is stored if it is a JSON object,   *)
(* and a 204 without a body leaves the key as it is.                        *)
Succeed(w) ==
    /\ req[w].pc = "protected"
    /\ Did(req[w].key)
    /\ \/ Become(w, [req[w] EXCEPT !.pc = "store"]) /\ UNCHANGED abandoned
       \/ Finish(w) /\ abandoned' = abandoned \cup {req[w].key}
    /\ UNCHANGED <<faults, limiter, value, leftover>>

(* It answers an error, of 400 or more, and may have done work before: an   *)
(* attendance row is inserted, then a later statement fails.                *)
DidBefore(w) ==
    \/ UNCHANGED work
    \/ Did(req[w].key) /\ leftover' = leftover \cup {req[w].key}
MutantRefuse(w) == \* errors are stored, too
    /\ req[w].pc = "protected"
    /\ DidBefore(w)
    /\ Become(w, [req[w] EXCEPT !.pc = "store"])
    /\ UNCHANGED <<faults, limiter, value, abandoned>>
Refuse(w) ==
    /\ req[w].pc = "protected"
    /\ DidBefore(w)
    /\ Become(w, [req[w] EXCEPT !.pc = "delete"])
    /\ UNCHANGED <<faults, limiter, value, abandoned>>

StoreResponse(w) ==
    /\ req[w].pc = "store"
    /\ Store(req[w].key)
    /\ Finish(w)
    /\ UNCHANGED <<faults, limiter, work, abandoned>>

MutantDeleteKey(w) == \* the key is left to its TTL
    /\ req[w].pc = "delete"
    /\ Finish(w)
    /\ UNCHANGED <<faults, limiter, value, work, abandoned>>
DeleteKey(w) ==
    /\ req[w].pc = "delete"
    /\ Delete(req[w].key)
    /\ Finish(w)
    /\ UNCHANGED <<faults, limiter, work, abandoned>>

(* Store or Delete fails, as when the client has gone and the context with  *)
(* it; or the handler panics, or its process dies, after its work or before.*)
GiveUp(w) ==
    /\ req[w].pc \in {"protected", "store", "delete"} /\ Fault
    /\ \/ UNCHANGED done
       \/ req[w].pc = "protected" /\ Did(req[w].key)
    /\ abandoned' = abandoned \cup {req[w].key}
    /\ Finish(w)
    /\ UNCHANGED <<limiter, value, leftover>>

(* 24 hours after SET: no request is that slow. *)
ExpireKey(k) ==
    /\ Holders(k) = {}
    /\ Expire(k)
    /\ done' = [done EXCEPT ![k] = 0] /\ leftover' = leftover \ {k}
    /\ abandoned' = abandoned \ {k}
    /\ UNCHANGED <<faults, limiter, req>>

Serve(w) ==
    \/ CountHits(w) \/ AddHit(w) \/ GetKey(w) \/ AcquireKey(w)
    \/ Handle(w) \/ Succeed(w) \/ Refuse(w) \/ StoreResponse(w) \/ DeleteKey(w)

Next ==
    \/ \E w \in Workers, k \in Keys \cup {NoKey} : Arrive(w, k)
    \/ \E w \in Workers : Serve(w)
    \/ \E w \in Workers : LimiterFails(w) \/ KeyFails(w) \/ GiveUp(w)
    \/ \E k \in Keys : ExpireKey(k)
    \/ Tick

Safety == Init /\ [][Next]_vars
(* A request that arrived goes on. *)
Spec == Safety /\ \A w \in Workers : WF_vars(Serve(w))

(***************************************************************************)
(* Properties                                                               *)
(***************************************************************************)
TypeOK ==
    /\ faults \in 0..MaxFaults
    /\ LimiterTypeOK /\ StoreTypeOK
    /\ req \in [Workers -> Request]
    /\ done \in [Keys -> 0..2]
    /\ leftover \cup abandoned \subseteq Keys

(* In any burst window the limiter lets through at most the burst limit and *)
(* one request more for each that was in flight: those count before they    *)
(* add, the last of them too.                                               *)
BurstIsBounded ==
    SumFunctionOnSet(admitted, 0..BurstWindow) <= BurstLimit + Cardinality(Workers)

(* Of the requests that acquired a key one works at a time, and one does    *)
(* its work in the life of the key, unless it answers an error after it did *)
(* some: then the key is deleted, and a retry does that work again.  Once a *)
(* response is stored, or a handler ended with neither, nobody works.       *)
DoneOnce ==
    \A k \in Keys :
      /\ k \notin leftover => done[k] <= 1
      /\ \A w, x \in Holders(k) : w = x
      /\ Stored(k) \/ k \in abandoned => Holders(k) = {}

(* A response is replayed only for work that was done. *)
ReplayIsEarned == \A k \in Keys : Stored(k) => done[k] > 0

(* A key does not stay in progress, refusing every retry, unless its        *)
(* request ended without Store and Delete.                                  *)
KeyIsReleased ==
    \A k \in Keys : (value[k] = "processing") ~> (value[k] # "processing" \/ k \in abandoned)
==============================================================================
