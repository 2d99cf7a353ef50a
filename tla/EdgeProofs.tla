------------------------------ MODULE EdgeProofs ------------------------------
(***************************************************************************)
(* Proofs about the two places where clients meet the server, for any       *)
(* number of requests, keys, connections, users, senders and failures:      *)
(* Gateway, the limiter and the idempotency keys; and Hub, the WebSocket    *)
(* connections.                                                             *)
(*                                                                          *)
(* Gateway: what a key holds in Redis, how often its work was done and      *)
(* where the one request is that acquired it determine each other, but for  *)
(* what errors left behind: that is KeyAgrees.  Of the limiter: what was    *)
(* let through, with what is Coming, stays within the burst.  Hub: who was  *)
(* in the map is Known and never put there again, and a note is only pushed *)
(* by the sender that stored it, to whom it has not seen.                   *)
(***************************************************************************)
EXTENDS Gateway, Hub, FiniteSetTheorems, TLAPS

Holding == {"protected", "store", "delete"}
Holds(r, k) == r.pc \in Holding /\ r.key = k

KeyAgrees(k) ==
    /\ value[k] = "response" => done[k] > 0
    /\ k \notin leftover => done[k] \in {0, 1} /\ (value[k] = "none" => done[k] = 0)
    /\ k \in abandoned => value[k] = "processing"
    /\ \A w \in Workers : Holds(req[w], k) =>
         /\ value[k] = "processing" /\ k \notin abandoned
         /\ req[w].pc = "store" => done[k] > 0
         /\ k \notin leftover => done[k] = IF req[w].pc = "store" THEN 1 ELSE 0
    /\ \A w, x \in Workers : Holds(req[w], k) /\ Holds(req[x], k) => w = x

IInv == TypeOK /\ \A k \in Keys : KeyAgrees(k)

(***************************************************************************)
(* Types                                                                    *)
(***************************************************************************)
(* A request that goes on leaves the table of requests well-typed.          *)
LEMMA BecomeType ==
  ASSUME TypeOK, NEW w \in Workers, NEW r \in Request, Become(w, r)
  PROVE  /\ req' \in [Workers -> Request]
         /\ req'[w] = r
         /\ \A v \in Workers \ {w} : req'[v] = req[v]
  BY DEF TypeOK, Become

(* A request that has to do with a key is one of these. *)
LEMMA RequestShape ==
  ASSUME NEW r \in Request
  PROVE  /\ r.pc \in {"count", "handle", "add"} => r.key \in Keys \cup {NoKey}
         /\ r.pc = "add" => r.age \in AgeOf /\ r.allowed \in BOOLEAN
         /\ r.pc \in {"get", "acquire"} \cup Holding => r.key \in Keys
         /\ r.pc \in {"get", "acquire"} \cup Holding =>
              \A pc \in {"get", "acquire"} \cup Holding :
                 [r EXCEPT !.pc = pc] \in Request /\ [r EXCEPT !.pc = pc].pc = pc
                 /\ [r EXCEPT !.pc = pc].key = r.key
         /\ r.pc \in {"get", "acquire"} =>
              /\ [r EXCEPT !.pc = "handle"] \in Request
              /\ [r EXCEPT !.pc = "handle"].pc = "handle"
  BY DEF Request, Idle, Holding

(* A request with a key moves on with it. *)
LEMMA Moved ==
  ASSUME NEW r \in Request, r.pc \in {"get", "acquire"} \cup Holding,
         NEW pc \in {"get", "acquire"} \cup Holding
  PROVE  /\ [r EXCEPT !.pc = pc] \in Request
         /\ [r EXCEPT !.pc = pc].pc = pc
         /\ [r EXCEPT !.pc = pc].key = r.key
  BY RequestShape

LEMMA MovedToHandle ==
  ASSUME NEW r \in Request, r.pc \in {"get", "acquire"}
  PROVE  /\ [r EXCEPT !.pc = "handle"] \in Request
         /\ [r EXCEPT !.pc = "handle"].pc = "handle"
  BY RequestShape

LEMMA IdleType == Idle \in Request /\ Idle.pc = "idle"
  BY DEF Request, Idle

LEMMA StampType ==
  ASSUME NEW f \in [Ages -> Nat], NEW age
  PROVE  Stamp(f, age) \in [Ages -> Nat]
  BY DEF Stamp

LEMMA OlderType ==
  ASSUME NEW f \in [Ages -> Nat]
  PROVE  Older(f) \in [Ages -> Nat]
<1>1. \A a \in Ages : a # 0 => a - 1 \in Ages
  BY RateLimitAssumption DEF Ages
<1> QED
  BY <1>1 DEF Older

LEMMA FaultType ==
  ASSUME TypeOK, Fault
  PROVE  faults' \in 0..MaxFaults
  BY GatewayAssumption DEF TypeOK, Fault

(* After Through a request holds no key. *)
LEMMA ThroughType ==
  ASSUME NEW k \in Keys \cup {NoKey}
  PROVE  Through(k) \in Request /\ Through(k).pc \notin Holding
  BY DEF Through, Request, Holding

(***************************************************************************)
(* Keys                                                                     *)
(***************************************************************************)
(* A step that touches no key and gives no request one keeps every key's    *)
(* agreement; a request may drop its key.                                   *)
LEMMA UntouchedKeys ==
  ASSUME IInv, UNCHANGED <<value, done, leftover, abandoned>>,
         \A w \in Workers : \/ req'[w].pc \notin Holding
                            \/ req'[w] = req[w]
  PROVE  \A k \in Keys : KeyAgrees(k)'
<1> SUFFICES ASSUME NEW k \in Keys PROVE KeyAgrees(k)'
  OBVIOUS
<1>1. \A w \in Workers : Holds(req'[w], k) => req'[w] = req[w] /\ Holds(req[w], k)
  BY DEF Holds
<1> QED
  BY <1>1 DEF IInv, KeyAgrees

(* The limiter, and what goes on without a key. *)
LEMMA LimiterKeeps ==
  ASSUME IInv, NEW w \in Workers,
         \/ \E k \in Keys \cup {NoKey} : Arrive(w, k)
         \/ CountHits(w) \/ AddHit(w) \/ LimiterFails(w) \/ Handle(w) \/ GetKey(w)
  PROVE  IInv'
<1>1. req[w] \in Request
  BY DEF IInv, TypeOK
<1> DEFINE Goes(r) == r \in Request /\ r.pc \notin Holding /\ Become(w, r)
<1>2. ASSUME NEW r, Goes(r), UNCHANGED <<value, done, leftover, abandoned>>
      PROVE  /\ req' \in [Workers -> Request]
             /\ \A k \in Keys : KeyAgrees(k)'
  BY <1>2, BecomeType, UntouchedKeys DEF IInv
<1>3. ASSUME NEW k \in Keys \cup {NoKey}, Arrive(w, k) PROVE IInv'
  <2>1. Goes([pc |-> "count", key |-> k])
    BY <1>3 DEF Arrive, Request, Holding
  <2> QED
    BY <1>3, <1>2, <2>1 DEF Arrive, limiter, work, IInv, TypeOK, LimiterTypeOK, StoreTypeOK
<1>4. CASE CountHits(w)
  <2> DEFINE ok == Allowed(Count, BurstCount)
  <2>1. ok \in BOOLEAN
    BY DEF Allowed
  <2>2. Become(w, [pc |-> "add", key |-> req[w].key, age |-> 0, allowed |-> ok])
    BY <1>4 DEF CountHits
  <2>3. req[w].key \in Keys \cup {NoKey}
    BY <1>1, <1>4, RequestShape DEF CountHits
  <2>4. 0 \in AgeOf
    BY RateLimitAssumption DEF AgeOf
  <2> HIDE DEF ok
  <2>5. Goes([pc |-> "add", key |-> req[w].key, age |-> 0, allowed |-> ok])
    BY <2>1, <2>2, <2>3, <2>4 DEF Request, Holding
  <2> QED
    BY <1>4, <1>2, <2>5 DEF CountHits, limiter, work, IInv, TypeOK, LimiterTypeOK, StoreTypeOK
<1>5. CASE AddHit(w)
  <2>1. req[w].key \in Keys \cup {NoKey}
    BY <1>1, <1>5, RequestShape DEF AddHit
  <2>2. Goes(IF req[w].allowed THEN Through(req[w].key) ELSE Idle)
    BY <1>5, <2>1, ThroughType, IdleType DEF AddHit, Holding
  <2>3. LimiterTypeOK'
    BY <1>5, StampType DEF AddHit, Hit, IInv, TypeOK, LimiterTypeOK
  <2> QED
    BY <1>5, <1>2, <2>2, <2>3 DEF AddHit, work, IInv, TypeOK, StoreTypeOK
<1>6. CASE LimiterFails(w)
  <2>1. req[w].key \in Keys \cup {NoKey}
    BY <1>1, <1>6, RequestShape DEF LimiterFails
  <2>2. Goes(Through(req[w].key))
    BY <1>6, <2>1, ThroughType DEF LimiterFails
  <2> QED
    BY <1>6, <1>2, <2>2, FaultType DEF LimiterFails, limiter, work, IInv, TypeOK, LimiterTypeOK, StoreTypeOK
<1>7. CASE Handle(w)
  <2>1. Goes(Idle)
    BY <1>7, IdleType DEF Handle, Finish, Holding
  <2> QED
    BY <1>7, <1>2, <2>1 DEF Handle, limiter, work, IInv, TypeOK, LimiterTypeOK, StoreTypeOK
<1>8. CASE GetKey(w)
  <2> DEFINE r == IF Stored(req[w].key) THEN Idle ELSE [req[w] EXCEPT !.pc = "acquire"]
  <2>1. Goes(r)
    BY <1>1, <1>8, IdleType, RequestShape DEF GetKey, Holding
  <2> QED
    BY <1>8, <1>2, <2>1 DEF GetKey, limiter, work, IInv, TypeOK, LimiterTypeOK, StoreTypeOK
<1> QED
  BY <1>3, <1>4, <1>5, <1>6, <1>7, <1>8

(* Only one request gets a key, and only while nobody has done its work.    *)
LEMMA AcquireKeeps ==
  ASSUME IInv, NEW w \in Workers, AcquireKey(w)
  PROVE  IInv'
<1>1. PICK taken \in BOOLEAN :
        /\ TryAcquire(req[w].key, taken)
        /\ Become(w, IF taken THEN [req[w] EXCEPT !.pc = "protected"] ELSE Idle)
  BY DEF AcquireKey
<1>2. req[w] \in Request /\ req[w].pc = "acquire" /\ req[w].key \in Keys
  BY RequestShape DEF AcquireKey, IInv, TypeOK
<1>3. UNCHANGED <<faults, hits, admitted, done, leftover, abandoned>>
  BY DEF AcquireKey, limiter, work
<1>4. CASE taken
  <2> DEFINE r == [req[w] EXCEPT !.pc = "protected"]
             k == req[w].key
  <2>1. r \in Request /\ r.pc = "protected" /\ r.key = k /\ Become(w, r)
    BY <1>1, <1>2, <1>4, RequestShape DEF Holding
  <2>2. value[k] = "none" /\ value' = [value EXCEPT ![k] = "processing"]
    BY <1>1, <1>4 DEF TryAcquire, Set
  <2> HIDE DEF r
  <2>3. /\ req' \in [Workers -> Request] /\ req'[w] = r
        /\ \A v \in Workers \ {w} : req'[v] = req[v]
    BY <2>1, BecomeType DEF IInv
  <2>4. TypeOK'
    BY <1>2, <1>3, <2>2, <2>3 DEF IInv, TypeOK, LimiterTypeOK, StoreTypeOK, Values
  <2>5. ASSUME NEW n \in Keys PROVE KeyAgrees(n)'
    <3>1. CASE n = k
      <4>1. \A v \in Workers : ~Holds(req[v], k)
        BY <1>2, <2>2 DEF IInv, KeyAgrees
      <4>2. \A v \in Workers : Holds(req'[v], k) => v = w
        BY <2>3, <4>1
      <4>3. /\ value'[k] = "processing" /\ k \notin abandoned
            /\ k \notin leftover => done'[k] = 0
        BY <1>2, <1>3, <2>2 DEF IInv, TypeOK, StoreTypeOK, KeyAgrees
      <4> QED
        BY <1>3, <2>1, <2>3, <3>1, <4>2, <4>3 DEF KeyAgrees
    <3>2. CASE n # k
      <4>1. value'[n] = value[n] /\ done'[n] = done[n]
        BY <1>2, <1>3, <2>2, <3>2 DEF IInv, TypeOK, StoreTypeOK
      <4>2. \A v \in Workers : Holds(req'[v], n) => v # w /\ req'[v] = req[v]
        BY <2>1, <2>3, <3>2 DEF Holds
      <4> QED
        BY <1>3, <4>1, <4>2 DEF IInv, KeyAgrees
    <3> QED
      BY <3>1, <3>2
  <2> QED
    BY <2>4, <2>5 DEF IInv
<1>5. CASE ~taken
  <2>1. UNCHANGED value /\ Become(w, Idle)
    BY <1>1, <1>5 DEF TryAcquire
  <2>2. req' \in [Workers -> Request] /\ \A k \in Keys : KeyAgrees(k)'
    BY <1>3, <2>1, BecomeType, IdleType, UntouchedKeys DEF IInv, Holding
  <2> QED
    BY <1>3, <2>1, <2>2 DEF IInv, TypeOK, LimiterTypeOK, StoreTypeOK
<1> QED
  BY <1>1, <1>4, <1>5

(* What the request that holds a key does to it, when the two still fit.    *)
HolderMoves(w, k, r, v, d) ==
    /\ Become(w, r)
    /\ value' = [value EXCEPT ![k] = v] /\ done' = [done EXCEPT ![k] = d]
    /\ \A n \in Keys \ {k} : (n \in leftover' <=> n \in leftover)
                             /\ (n \in abandoned' <=> n \in abandoned)
    /\ v = "response" => d > 0
    /\ k \notin leftover' => d \in {0, 1} /\ (v = "none" => d = 0)
    /\ k \in abandoned' => v = "processing"
    /\ r.pc \in Holding =>
         /\ r.key = k /\ v = "processing" /\ k \notin abandoned'
         /\ r.pc = "store" => d > 0
         /\ k \notin leftover' => d = IF r.pc = "store" THEN 1 ELSE 0

LEMMA HolderKeeps ==
  ASSUME IInv, NEW w \in Workers, NEW k \in Keys, Holds(req[w], k),
         NEW r \in Request, NEW v \in Values, NEW d \in 0..2, HolderMoves(w, k, r, v, d)
  PROVE  /\ req' \in [Workers -> Request]
         /\ value' \in [Keys -> Values] /\ done' \in [Keys -> 0..2]
         /\ \A n \in Keys : KeyAgrees(n)'
<1>1. /\ req' \in [Workers -> Request] /\ req'[w] = r
      /\ \A x \in Workers \ {w} : req'[x] = req[x]
  BY BecomeType DEF IInv, HolderMoves
<1>2. value' \in [Keys -> Values] /\ done' \in [Keys -> 0..2]
  BY DEF IInv, TypeOK, StoreTypeOK, HolderMoves
<1>3. KeyAgrees(k)'
  <2>1. \A x \in Workers : Holds(req'[x], k) => x = w
    BY <1>1 DEF IInv, KeyAgrees
  <2>2. value'[k] = v /\ done'[k] = d
    BY DEF IInv, TypeOK, StoreTypeOK, HolderMoves
  <2> QED
    <3>1. /\ v = "response" => d > 0
          /\ k \notin leftover' => d \in {0, 1} /\ (v = "none" => d = 0)
          /\ k \in abandoned' => v = "processing"
      BY DEF HolderMoves
    <3>2. Holds(r, k) =>
            /\ v = "processing" /\ k \notin abandoned'
            /\ r.pc = "store" => d > 0
            /\ k \notin leftover' => d = IF r.pc = "store" THEN 1 ELSE 0
      BY DEF HolderMoves, Holds
    <3> QED
      BY <1>1, <2>1, <2>2, <3>1, <3>2 DEF KeyAgrees
<1>4. ASSUME NEW n \in Keys \ {k} PROVE KeyAgrees(n)'
  <2>1. value'[n] = value[n] /\ done'[n] = done[n]
    BY DEF IInv, TypeOK, StoreTypeOK, HolderMoves
  <2>2. \A x \in Workers : Holds(req'[x], n) => x # w /\ req'[x] = req[x]
    <3>1. r.pc \in Holding => r.key = k
      BY DEF HolderMoves
    <3>2. ~Holds(r, n)
      BY <3>1 DEF Holds
    <3> QED
      BY <1>1, <3>2
  <2>3. (n \in leftover' <=> n \in leftover) /\ (n \in abandoned' <=> n \in abandoned)
    BY DEF HolderMoves
  <2>4. KeyAgrees(n)
    BY DEF IInv
  <2>5. \A x \in Workers : Holds(req'[x], n) => Holds(req[x], n)
    BY <2>2
  <2> QED
    BY <2>1, <2>2, <2>3, <2>4, <2>5 DEF KeyAgrees
<1> QED
  BY <1>1, <1>2, <1>3, <1>4

LEMMA WorkKeeps ==
  ASSUME IInv, NEW w \in Workers,
         Succeed(w) \/ Refuse(w) \/ StoreResponse(w) \/ DeleteKey(w) \/ GiveUp(w)
  PROVE  IInv'
<1> DEFINE k == req[w].key
<1>1. req[w] \in Request /\ req[w].pc \in Holding /\ k \in Keys /\ Holds(req[w], k)
  <2>1. req[w].pc \in Holding
    BY DEF Succeed, Refuse, StoreResponse, DeleteKey, GiveUp, Holding
  <2> QED
    BY <2>1, RequestShape DEF IInv, TypeOK, Holds
<1>2. /\ value[k] = "processing" /\ k \notin abandoned /\ done[k] \in 0..2
      /\ req[w].pc = "store" => done[k] > 0
      /\ k \notin leftover => done[k] = IF req[w].pc = "store" THEN 1 ELSE 0
      /\ value = [value EXCEPT ![k] = "processing"]
      /\ done = [done EXCEPT ![k] = done[k]]
  <2>1. KeyAgrees(k)
    BY <1>1 DEF IInv
  <2>2. /\ value[k] = "processing" /\ k \notin abandoned
        /\ req[w].pc = "store" => done[k] > 0
        /\ k \notin leftover => done[k] = IF req[w].pc = "store" THEN 1 ELSE 0
    BY <1>1, <2>1 DEF KeyAgrees
  <2>3. value \in [Keys -> Values] /\ done \in [Keys -> 0..2]
    BY DEF IInv, TypeOK, StoreTypeOK
  <2> HIDE DEF k
  <2> QED
    BY <1>1, <2>2, <2>3
<1>3. /\ [req[w] EXCEPT !.pc = "store"] \in Request
      /\ [req[w] EXCEPT !.pc = "store"].pc = "store" /\ [req[w] EXCEPT !.pc = "store"].key = k
  BY <1>1, Moved DEF Holding
<1>4. /\ [req[w] EXCEPT !.pc = "delete"] \in Request
      /\ [req[w] EXCEPT !.pc = "delete"].pc = "delete" /\ [req[w] EXCEPT !.pc = "delete"].key = k
  BY <1>1, Moved DEF Holding
<1> DEFINE d == IF done[k] < 2 THEN done[k] + 1 ELSE done[k]
<1>5. /\ Did(k) => done' = [done EXCEPT ![k] = d]
      /\ d \in 0..2 /\ d > 0
      /\ req[w].pc # "store" /\ k \notin leftover => d = 1
  BY <1>1, <1>2 DEF Did
<1>6. "processing" \in Values /\ "response" \in Values /\ "none" \in Values
  BY DEF Values
<1>0. leftover \subseteq Keys /\ abandoned \subseteq Keys /\ faults \in 0..MaxFaults
      /\ LimiterTypeOK
  BY DEF IInv, TypeOK
<1> DEFINE Kept == /\ req' \in [Workers -> Request]
                   /\ value' \in [Keys -> Values] /\ done' \in [Keys -> 0..2]
                   /\ \A n \in Keys : KeyAgrees(n)'
<1> HIDE DEF d
<1>7. CASE Succeed(w)
  <2>1. /\ req[w].pc = "protected" /\ done' = [done EXCEPT ![k] = d]
        /\ value' = [value EXCEPT ![k] = "processing"] /\ leftover' = leftover
    BY <1>2, <1>5, <1>7 DEF Succeed
  <2>2. ASSUME Become(w, [req[w] EXCEPT !.pc = "store"]), abandoned' = abandoned PROVE Kept
    <3>1. HolderMoves(w, k, [req[w] EXCEPT !.pc = "store"], "processing", d)
      BY <1>2, <1>3, <1>5, <2>1, <2>2 DEF HolderMoves
    <3> QED
      BY <1>1, <1>3, <1>5, <1>6, <3>1, HolderKeeps
  <2>3. ASSUME Become(w, Idle), abandoned' = abandoned \cup {k} PROVE Kept
    <3>1. HolderMoves(w, k, Idle, "processing", d)
      BY <1>5, <2>1, <2>3, IdleType DEF HolderMoves, Holding
    <3> QED
      BY <1>1, <1>5, <1>6, <3>1, HolderKeeps, IdleType
  <2>4. Kept /\ abandoned' \subseteq Keys
    BY <1>0, <1>1, <1>7, <2>2, <2>3 DEF Succeed, Finish
  <2> HIDE DEF k
  <2> QED
    BY <1>0, <1>1, <1>7, <2>1, <2>4 DEF Succeed, limiter, IInv, TypeOK, LimiterTypeOK, StoreTypeOK
<1>8. CASE Refuse(w)
  <2>1. /\ req[w].pc = "protected" /\ value' = [value EXCEPT ![k] = "processing"]
        /\ Become(w, [req[w] EXCEPT !.pc = "delete"])
        /\ abandoned' = abandoned
    BY <1>2, <1>8 DEF Refuse
  <2>2. ASSUME UNCHANGED work PROVE Kept
    <3>1. done' = [done EXCEPT ![k] = done[k]] /\ leftover' = leftover
      BY <1>2, <2>2 DEF work
    <3>2. HolderMoves(w, k, [req[w] EXCEPT !.pc = "delete"], "processing", done[k])
      BY <1>2, <1>4, <2>1, <3>1 DEF HolderMoves
    <3> QED
      BY <1>1, <1>2, <1>4, <1>6, <3>2, HolderKeeps
  <2>3. ASSUME Did(k), leftover' = leftover \cup {k} PROVE Kept
    <3>1. done' = [done EXCEPT ![k] = d]
      BY <1>5, <2>3
    <3>2. HolderMoves(w, k, [req[w] EXCEPT !.pc = "delete"], "processing", d)
      BY <1>2, <1>4, <1>5, <2>1, <2>3, <3>1 DEF HolderMoves
    <3> QED
      BY <1>1, <1>4, <1>5, <1>6, <3>2, HolderKeeps
  <2>4. Kept /\ leftover' \subseteq Keys
    BY <1>0, <1>1, <1>8, <2>2, <2>3 DEF Refuse, DidBefore, work
  <2> HIDE DEF k
  <2> QED
    BY <1>0, <1>8, <2>1, <2>4 DEF Refuse, limiter, IInv, TypeOK, LimiterTypeOK, StoreTypeOK
<1>9. CASE StoreResponse(w)
  <2>1. /\ req[w].pc = "store" /\ done' = [done EXCEPT ![k] = done[k]]
        /\ value' = [value EXCEPT ![k] = "response"] /\ Become(w, Idle)
        /\ leftover' = leftover /\ abandoned' = abandoned
    BY <1>2, <1>9 DEF StoreResponse, Store, Set, Finish, work
  <2>2. Kept
    <3>1. HolderMoves(w, k, Idle, "response", done[k])
      BY <1>2, <2>1, IdleType DEF HolderMoves, Holding
    <3> QED
      BY <1>1, <1>2, <1>6, <3>1, HolderKeeps, IdleType
  <2> QED
    BY <1>0, <1>9, <2>1, <2>2 DEF StoreResponse, limiter, IInv, TypeOK, LimiterTypeOK, StoreTypeOK
<1>10. CASE DeleteKey(w)
  <2>1. /\ req[w].pc = "delete" /\ done' = [done EXCEPT ![k] = done[k]]
        /\ value' = [value EXCEPT ![k] = "none"] /\ Become(w, Idle)
        /\ leftover' = leftover /\ abandoned' = abandoned
    BY <1>2, <1>10 DEF DeleteKey, Delete, Set, Finish, work
  <2>2. Kept
    <3>1. HolderMoves(w, k, Idle, "none", done[k])
      BY <1>2, <2>1, IdleType DEF HolderMoves, Holding
    <3> QED
      BY <1>1, <1>2, <1>6, <3>1, HolderKeeps, IdleType
  <2> QED
    BY <1>0, <1>10, <2>1, <2>2 DEF DeleteKey, limiter, IInv, TypeOK, LimiterTypeOK, StoreTypeOK
<1>11. CASE GiveUp(w)
  <2>1. /\ value' = [value EXCEPT ![k] = "processing"] /\ Become(w, Idle)
        /\ leftover' = leftover /\ abandoned' = abandoned \cup {k}
    BY <1>2, <1>11 DEF GiveUp, Finish
  <2>2. Kept
    <3>1. CASE UNCHANGED done
      <4>1. done' = [done EXCEPT ![k] = done[k]]
        BY <1>2, <3>1
      <4> QED
        <5>1. HolderMoves(w, k, Idle, "processing", done[k])
          BY <1>2, <2>1, <4>1, IdleType DEF HolderMoves, Holding
        <5> QED
          BY <1>1, <1>2, <1>6, <5>1, HolderKeeps, IdleType
    <3>2. CASE req[w].pc = "protected" /\ Did(k)
      <4>1. done' = [done EXCEPT ![k] = d]
        BY <1>5, <3>2
      <4> QED
        <5>1. HolderMoves(w, k, Idle, "processing", d)
          BY <1>2, <1>5, <2>1, <3>2, <4>1, IdleType DEF HolderMoves, Holding
        <5> QED
          BY <1>1, <1>5, <1>6, <5>1, HolderKeeps, IdleType
    <3> QED
      BY <1>11, <3>1, <3>2 DEF GiveUp
  <2>3. abandoned' \subseteq Keys /\ faults' \in 0..MaxFaults /\ UNCHANGED <<hits, admitted>>
    BY <1>0, <1>1, <1>11, <2>1, FaultType DEF GiveUp, limiter, IInv
  <2> QED
    BY <1>0, <2>1, <2>2, <2>3 DEF IInv, TypeOK, LimiterTypeOK, StoreTypeOK
<1> QED
  BY <1>7, <1>8, <1>9, <1>10, <1>11

(* SET NX that fails for the client may still have set the key: then nobody *)
(* holds it.                                                                *)
LEMMA KeyFailsKeeps ==
  ASSUME IInv, NEW w \in Workers, KeyFails(w)
  PROVE  IInv'
<1> DEFINE r == [req[w] EXCEPT !.pc = "handle"]
<1>0. req[w] \in Request /\ req[w].pc \in {"get", "acquire"} /\ req[w].key \in Keys
  BY RequestShape DEF KeyFails, IInv, TypeOK
<1>1. PICK k \in Keys : k = req[w].key
  BY <1>0
<1>2. r \in Request /\ r.pc \notin Holding
  BY <1>0, MovedToHandle DEF Holding
<1>3. /\ req' \in [Workers -> Request] /\ req'[w] = r
      /\ \A x \in Workers \ {w} : req'[x] = req[x]
  BY <1>2, BecomeType DEF KeyFails, IInv
<1>4. faults' \in 0..MaxFaults /\ UNCHANGED <<hits, admitted, done, leftover>>
  BY FaultType DEF KeyFails, limiter, work, IInv
<1> HIDE DEF r
<1>5. CASE UNCHANGED <<value, abandoned>>
  <2>1. \A n \in Keys : KeyAgrees(n)'
    BY <1>2, <1>3, <1>4, <1>5, UntouchedKeys
  <2> QED
    BY <1>3, <1>4, <1>5, <2>1 DEF IInv, TypeOK, LimiterTypeOK, StoreTypeOK
<1>6. CASE TryAcquire(k, TRUE) /\ abandoned' = abandoned \cup {k}
  <2>1. value[k] = "none" /\ value' = [value EXCEPT ![k] = "processing"]
    BY <1>6 DEF TryAcquire, Set
  <2>2. TypeOK'
    BY <1>1, <1>3, <1>4, <1>6, <2>1 DEF IInv, TypeOK, LimiterTypeOK, StoreTypeOK, Values
  <2>3. \A n \in Keys, x \in Workers : Holds(req'[x], n) => req'[x] = req[x] /\ Holds(req[x], n)
    BY <1>2, <1>3 DEF Holds
  <2>4. \A x \in Workers : ~Holds(req'[x], k)
    BY <1>1, <2>1, <2>3 DEF IInv, KeyAgrees
  <2>5. KeyAgrees(k)'
    BY <1>1, <1>4, <1>6, <2>1, <2>4 DEF IInv, TypeOK, StoreTypeOK, KeyAgrees
  <2>6. ASSUME NEW n \in Keys \ {k} PROVE KeyAgrees(n)'
    <3>1. value'[n] = value[n] /\ done'[n] = done[n]
      BY <1>4, <2>1 DEF IInv, TypeOK, StoreTypeOK
    <3> QED
      BY <1>4, <1>6, <2>3, <3>1 DEF IInv, KeyAgrees
  <2> QED
    BY <2>2, <2>5, <2>6 DEF IInv
<1> QED
  BY <1>1, <1>5, <1>6 DEF KeyFails

LEMMA ExpireKeeps ==
  ASSUME IInv, NEW k \in Keys, ExpireKey(k)
  PROVE  IInv'
<1>1. /\ Holders(k) = {} /\ value' = [value EXCEPT ![k] = "none"]
      /\ done' = [done EXCEPT ![k] = 0] /\ leftover' = leftover \ {k}
      /\ abandoned' = abandoned \ {k}
      /\ UNCHANGED <<faults, hits, admitted, req>>
  BY DEF ExpireKey, Expire, Set, limiter
<1>2. TypeOK'
  BY <1>1 DEF IInv, TypeOK, LimiterTypeOK, StoreTypeOK, Values
<1>3. KeyAgrees(k)'
  <2>1. value'[k] = "none" /\ done'[k] = 0
    BY <1>1 DEF IInv, TypeOK, StoreTypeOK
  <2>2. \A x \in Workers : ~Holds(req'[x], k)
    BY <1>1 DEF Holders, Holds, Holding
  <2> QED
    BY <1>1, <2>1, <2>2 DEF KeyAgrees
<1>4. ASSUME NEW n \in Keys \ {k} PROVE KeyAgrees(n)'
  <2>1. value'[n] = value[n] /\ done'[n] = done[n]
    BY <1>1 DEF IInv, TypeOK, StoreTypeOK
  <2> QED
    BY <1>1, <2>1 DEF IInv, KeyAgrees
<1> QED
  BY <1>2, <1>3, <1>4 DEF IInv

LEMMA TickKeeps ==
  ASSUME IInv, Tick
  PROVE  IInv'
<1>1. ASSUME NEW w \in Workers
      PROVE  /\ req'[w] \in Request
             /\ req'[w].pc \notin Holding \/ req'[w] = req[w]
  <2>1. req'[w] = IF req[w].pc = "add" /\ req[w].age < Window
                  THEN [req[w] EXCEPT !.age = @ + 1] ELSE req[w]
    BY DEF Tick
  <2>2. req[w] \in Request
    BY DEF IInv, TypeOK
  <2>3. CASE req[w].pc = "add" /\ req[w].age < Window
    <3>1. req[w] \in [pc: {"add"}, key: Keys \cup {NoKey}, age: AgeOf, allowed: BOOLEAN]
      BY <2>2, <2>3 DEF Request, Idle
    <3>2. req[w].age + 1 \in AgeOf
      BY <2>3, <3>1, RateLimitAssumption DEF AgeOf
    <3>3. [req[w] EXCEPT !.age = @ + 1] \in
            [pc: {"add"}, key: Keys \cup {NoKey}, age: AgeOf, allowed: BOOLEAN]
      BY <3>1, <3>2
    <3> QED
      BY <2>1, <2>3, <3>3 DEF Request, Holding
  <2>4. CASE ~(req[w].pc = "add" /\ req[w].age < Window)
    BY <2>1, <2>2, <2>4
  <2> QED
    BY <2>3, <2>4
<1>2. \A k \in Keys : KeyAgrees(k)'
  BY <1>1, UntouchedKeys DEF Tick, work
<1>3. LimiterTypeOK'
  BY OlderType DEF Tick, GrowOlder, IInv, TypeOK, LimiterTypeOK
<1>4. req' \in [Workers -> Request]
  BY <1>1 DEF Tick
<1> QED
  BY <1>2, <1>3, <1>4 DEF Tick, work, IInv, TypeOK, StoreTypeOK

(***************************************************************************)
(* The theorems                                                             *)
(***************************************************************************)
LEMMA InitInv == ASSUME Init PROVE IInv
<1>1. TypeOK
  BY GatewayAssumption, IdleType DEF Init, TypeOK, LimiterInit, LimiterTypeOK, Empty, StoreInit,
     StoreTypeOK, Values
<1>2. \A k \in Keys : KeyAgrees(k)
  BY DEF Init, StoreInit, KeyAgrees, Holds, Holding, Idle
<1> QED
  BY <1>1, <1>2 DEF IInv

LEMMA NextInv == ASSUME IInv, [Next]_vars PROVE IInv'
<1>1. CASE UNCHANGED vars
  BY <1>1 DEF vars, limiter, work, IInv, TypeOK, LimiterTypeOK, StoreTypeOK, KeyAgrees
<1> QED
  BY <1>1, LimiterKeeps, AcquireKeeps, WorkKeeps, KeyFailsKeeps, ExpireKeeps, TickKeeps
  DEF Next, Serve

(* The invariant holds in every reachable state. *)
THEOREM Inductive == Safety => []IInv
<1>1. Init => IInv
  BY InitInv
<1>2. IInv /\ [Next]_vars => IInv'
  BY NextInv
<1> QED
  BY <1>1, <1>2, PTL DEF Safety

(* Redis and the requests in flight keep their types, whatever fails. *)
THEOREM TypeCorrect == Spec => []TypeOK
<1>1. IInv => TypeOK
  BY DEF IInv
<1> QED
  BY <1>1, Inductive, PTL DEF Spec

(* One request at a time works under a key, and its work is done at most    *)
(* once in the life of the key but for what an error answer left behind;    *)
(* after a response is stored nobody works (store.go TryAcquire;            *)
(* IdempotencyMiddleware).                                                  *)
THEOREM WorkIsDoneOnce == Spec => []DoneOnce
<1>1. IInv => DoneOnce
  <2> SUFFICES ASSUME IInv, NEW k \in Keys
               PROVE  /\ k \notin leftover => done[k] <= 1
                      /\ \A w, x \in Holders(k) : w = x
                      /\ Stored(k) \/ k \in abandoned => Holders(k) = {}
    BY DEF DoneOnce
  <2>1. KeyAgrees(k)
    BY DEF IInv
  <2>2. \A w \in Holders(k) : w \in Workers /\ Holds(req[w], k)
    BY DEF Holders, Holds, Holding
  <2>3. k \notin leftover => done[k] <= 1
    BY <2>1 DEF KeyAgrees
  <2>4. \A w, x \in Holders(k) : w = x
    BY <2>1, <2>2 DEF KeyAgrees
  <2>5. Stored(k) \/ k \in abandoned => Holders(k) = {}
    BY <2>1, <2>2 DEF KeyAgrees, Stored
  <2> QED
    BY <2>3, <2>4, <2>5
<1> QED
  BY <1>1, Inductive, PTL DEF Spec

(* A stored response stands for work that was done: a refusal is not stored.*)
THEOREM ReplayIsForWork == Spec => []ReplayIsEarned
<1>1. IInv => ReplayIsEarned
  BY DEF IInv, KeyAgrees, ReplayIsEarned, Stored
<1> QED
  BY <1>1, Inductive, PTL DEF Spec


(***************************************************************************)
(* A sum of naturals counts.  SumFunctionOnSet recurs on an arbitrary       *)
(* choice of the next element; what it comes to is the number of Slots, a   *)
(* slot for each stamp.  Counts of sets are easier to compare than sums.    *)
(***************************************************************************)
Slots(f, T) == {p \in T \X Nat : p[2] \in 1..f[p[1]]}

(* The element the recursion takes next. *)
Pick(T) == CHOOSE x \in T : TRUE

(* g adds f up over the subsets of S: the equation SumFunctionOnSet recurs by. *)
IsSum(g, f, S) ==
    g = [T \in SUBSET S |-> IF T = {} THEN 0 ELSE f[Pick(T)] + g[T \ {Pick(T)}]]

LEMMA SumChosen ==
  \A f, S : SumFunctionOnSet(f, S) = (CHOOSE g : IsSum(g, f, S))[S]
  BY DEF SumFunctionOnSet, FoldFunctionOnSet, MapThenFoldSet, IsSum, Pick

(* A non-empty collection of subsets of a finite set has a minimal member. *)
LEMMA SmallestSubset ==
  ASSUME NEW S, IsFiniteSet(S), NEW C, C \subseteq SUBSET S, C # {}
  PROVE  \E T \in C : \A U \in C : U \subseteq T => U = T
<1>1. IsWellFoundedOn(StrictSubsetOrdering(S), SUBSET S)
  BY FS_StrictSubsetOrderingWellFounded, FS_FiniteSubsetsOfFinite
<1>2. PICK T \in C : \A U \in C : ~(<<U, T>> \in StrictSubsetOrdering(S))
  BY <1>1, WFMin
<1>3. ASSUME NEW U \in C, U \subseteq T, U # T
      PROVE  FALSE
  <2>1. <<U, T>> \in (SUBSET S) \X (SUBSET S)
    OBVIOUS
  <2>2. <<U, T>> \in StrictSubsetOrdering(S)
    BY <1>3, <2>1 DEF StrictSubsetOrdering
  <2> QED
    BY <1>2, <2>2
<1> QED
  BY <1>3

(* The slots of one element more. *)
LEMMA SlotsOfOneMore ==
  ASSUME NEW f, NEW T, NEW x \in T, f[x] \in Nat, IsFiniteSet(Slots(f, T \ {x}))
  PROVE  /\ IsFiniteSet(Slots(f, T))
         /\ Cardinality(Slots(f, T)) = f[x] + Cardinality(Slots(f, T \ {x}))
<1> DEFINE A == Slots(f, T \ {x})
           B == {x} \X (1..f[x])
           h == [i \in 1..f[x] |-> <<x, i>>]
<1>1. Slots(f, T) = A \cup B /\ A \cap B = {}
  BY DEF Slots
<1>2. h \in Bijection(1..f[x], B)
  <2>1. h \in [1..f[x] -> B] /\ \A i \in 1..f[x] : h[i] = <<x, i>>
    OBVIOUS
  <2>2. \A p \in B : \E i \in 1..f[x] : p = <<x, i>>
    OBVIOUS
  <2> HIDE DEF h
  <2>3. \A i, j \in 1..f[x] : h[i] = h[j] => i = j
    BY <2>1
  <2>4. \A p \in B : \E i \in 1..f[x] : h[i] = p
    BY <2>1, <2>2
  <2>5. h \in Injection(1..f[x], B)
    BY <2>1, <2>3 DEF Injection, IsInjective
  <2>6. h \in Surjection(1..f[x], B)
    BY <2>1, <2>4 DEF Surjection
  <2> QED
    BY <2>5, <2>6 DEF Bijection
<1>3. IsFiniteSet(1..f[x]) /\ Cardinality(1..f[x]) = f[x]
  BY FS_Interval
<1>4. IsFiniteSet(B) /\ Cardinality(B) = f[x]
  BY <1>2, <1>3, FS_Bijection DEF ExistsBijection
<1>5. IsFiniteSet(A)
  OBVIOUS
<1> HIDE DEF A, B, h
<1>6. Cardinality(A) \in Nat
  BY <1>5, FS_CardinalityType
<1>7. /\ IsFiniteSet(A \cup B)
      /\ Cardinality(A \cup B) = Cardinality(A) + Cardinality(B) - Cardinality(A \cap B)
  BY <1>4, <1>5, FS_Union
<1>8. Cardinality(A \cap B) = 0
  BY <1>1, FS_EmptySet
<1>9. Cardinality(Slots(f, T)) = f[x] + Cardinality(A)
  BY <1>1, <1>4, <1>6, <1>7, <1>8
<1> QED
  BY <1>1, <1>7, <1>9 DEF A

LEMMA SlotsFinite ==
  ASSUME NEW f, NEW S, IsFiniteSet(S), \A x \in S : f[x] \in Nat
  PROVE  \A T \in SUBSET S : IsFiniteSet(Slots(f, T))
<1> DEFINE C == {T \in SUBSET S : ~IsFiniteSet(Slots(f, T))}
<1>1. ASSUME C # {}
      PROVE  FALSE
  <2>1. C \subseteq SUBSET S
    OBVIOUS
  <2>2. PICK T \in C : \A U \in C : U \subseteq T => U = T
    <3> HIDE DEF C
    <3> QED
      BY <1>1, <2>1, SmallestSubset
  <2>3. T # {}
    <3>1. Slots(f, {}) = {}
      BY DEF Slots
    <3> QED
      BY <3>1, FS_EmptySet
  <2>4. PICK x : x \in T
    BY <2>3
  <2>5. IsFiniteSet(Slots(f, T \ {x}))
    BY <2>2, <2>4
  <2>6. IsFiniteSet(Slots(f, T))
    BY <2>4, <2>5, SlotsOfOneMore
  <2> QED
    BY <2>6
<1> QED
  BY <1>1

LEMMA SumCountsSlots ==
  ASSUME NEW f, NEW S, IsFiniteSet(S), \A x \in S : f[x] \in Nat
  PROVE  /\ IsFiniteSet(Slots(f, S))
         /\ SumFunctionOnSet(f, S) = Cardinality(Slots(f, S))
<1> DEFINE k == [T \in SUBSET S |-> Cardinality(Slots(f, T))]
           g == CHOOSE h : IsSum(h, f, S)
<1>1. \A T \in SUBSET S : IsFiniteSet(Slots(f, T))
  BY SlotsFinite
<1>2. \A T \in SUBSET S : T # {} =>
        /\ Pick(T) \in T
        /\ k[T] = f[Pick(T)] + k[T \ {Pick(T)}]
  <2> SUFFICES ASSUME NEW T \in SUBSET S, T # {}
               PROVE  Pick(T) \in T /\ k[T] = f[Pick(T)] + k[T \ {Pick(T)}]
    OBVIOUS
  <2>1. Pick(T) \in T
    BY DEF Pick
  <2>2. T \ {Pick(T)} \in SUBSET S
    OBVIOUS
  <2>3. Cardinality(Slots(f, T)) = f[Pick(T)] + Cardinality(Slots(f, T \ {Pick(T)}))
    BY <1>1, <2>1, <2>2, SlotsOfOneMore
  <2> QED
    BY <2>1, <2>2, <2>3
<1>3. k[{}] = 0
  <2>1. Slots(f, {}) = {}
    BY DEF Slots
  <2> QED
    BY <2>1, FS_EmptySet
<1>4. IsSum(k, f, S)
  <2>1. \A T \in SUBSET S : k[T] = IF T = {} THEN 0 ELSE f[Pick(T)] + k[T \ {Pick(T)}]
    BY <1>2, <1>3
  <2>2. k = [T \in SUBSET S |-> k[T]]
    OBVIOUS
  <2> HIDE DEF k
  <2> QED
    BY <2>1, <2>2 DEF IsSum
<1>5. IsSum(g, f, S)
  BY <1>4
<1> HIDE DEF g, k
<1>6. /\ g[{}] = 0
      /\ \A T \in SUBSET S : T # {} => g[T] = f[Pick(T)] + g[T \ {Pick(T)}]
  <2> DEFINE G == [T \in SUBSET S |-> IF T = {} THEN 0 ELSE f[Pick(T)] + g[T \ {Pick(T)}]]
  <2>1. g = G
    BY <1>5 DEF IsSum
  <2>2. /\ G[{}] = 0
        /\ \A T \in SUBSET S : T # {} => G[T] = f[Pick(T)] + g[T \ {Pick(T)}]
    OBVIOUS
  <2> HIDE DEF G
  <2> QED
    BY <2>1, <2>2
<1>7. g[S] = k[S]
  <2> DEFINE C == {T \in SUBSET S : g[T] # k[T]}
  <2>1. ASSUME C # {}
        PROVE  FALSE
    <3>1. C \subseteq SUBSET S
      OBVIOUS
    <3>2. PICK T \in C : \A U \in C : U \subseteq T => U = T
      <4> HIDE DEF C
      <4> QED
        BY <2>1, <3>1, SmallestSubset
    <3>3. T # {}
      BY <1>3, <1>6
    <3>4. Pick(T) \in T /\ T \ {Pick(T)} \in SUBSET S
      BY <1>2, <3>3
    <3>5. g[T \ {Pick(T)}] = k[T \ {Pick(T)}]
      BY <3>2, <3>4
    <3> QED
      BY <1>2, <1>6, <3>3, <3>5
  <2> QED
    BY <2>1
<1>8. SumFunctionOnSet(f, S) = g[S]
  BY SumChosen DEF g
<1> QED
  BY <1>1, <1>7, <1>8 DEF k

(***************************************************************************)
(* The burst: what was let through and what will be                         *)
(***************************************************************************)
Burst == 0..BurstWindow

(* Requests that were let through on a count, and are not counted yet. *)
Coming == {w \in Workers : req[w].pc = "add" /\ req[w].allowed /\ req[w].age \in Burst}

BurstFits ==
    /\ \A a \in Ages : admitted[a] <= hits[a]
    /\ Cardinality(Slots(admitted, Burst)) + Cardinality(Coming)
         <= BurstLimit + Cardinality(Workers)

LEMMA BurstAges == Burst \subseteq Ages /\ IsFiniteSet(Burst) /\ IsFiniteSet(Ages)
<1>1. BurstWindow \in 0..(Window - 1) /\ Window \in Nat
  BY RateLimitAssumption
<1>2. IsFiniteSet(0..BurstWindow) /\ IsFiniteSet(0..(Window - 1))
  BY <1>1, FS_Interval
<1> QED
  BY <1>1, <1>2 DEF Burst, Ages

(* What the limiter counts, in slots. *)
LEMMA SlotsOf ==
  ASSUME NEW f \in [Ages -> Nat]
  PROVE  /\ IsFiniteSet(Slots(f, Burst)) /\ IsFiniteSet(Slots(f, Ages))
         /\ SumFunctionOnSet(f, Burst) = Cardinality(Slots(f, Burst))
         /\ SumFunctionOnSet(f, Ages) = Cardinality(Slots(f, Ages))
         /\ Cardinality(Slots(f, Burst)) \in Nat
         /\ Cardinality(Slots(f, Burst)) <= Cardinality(Slots(f, Ages))
<1>1. \A a \in Ages : f[a] \in Nat
  OBVIOUS
<1>2. \A a \in Burst : f[a] \in Nat
  BY <1>1, BurstAges
<1>3. /\ IsFiniteSet(Slots(f, Burst)) /\ SumFunctionOnSet(f, Burst) = Cardinality(Slots(f, Burst))
  BY <1>2, BurstAges, SumCountsSlots
<1>4. /\ IsFiniteSet(Slots(f, Ages)) /\ SumFunctionOnSet(f, Ages) = Cardinality(Slots(f, Ages))
  BY <1>1, BurstAges, SumCountsSlots
<1>5. Slots(f, Burst) \subseteq Slots(f, Ages)
  BY BurstAges DEF Slots
<1> QED
  BY <1>3, <1>4, <1>5, FS_Subset, FS_CardinalityType

(* Fewer stamps of each age are fewer altogether. *)
LEMMA FewerSlots ==
  ASSUME NEW f \in [Ages -> Nat], NEW g \in [Ages -> Nat], \A a \in Ages : f[a] <= g[a]
  PROVE  Cardinality(Slots(f, Burst)) <= Cardinality(Slots(g, Burst))
<1>1. \A a \in Burst : f[a] \in Nat /\ g[a] \in Nat /\ f[a] <= g[a]
  BY BurstAges
<1>2. Slots(f, Burst) \subseteq Slots(g, Burst)
  BY <1>1 DEF Slots
<1> QED
  BY <1>2, SlotsOf, FS_Subset

(* One more stamp is at most one slot more, and none outside the burst. *)
LEMMA StampSlots ==
  ASSUME NEW f \in [Ages -> Nat], NEW age \in AgeOf
  PROVE  /\ Stamp(f, age) \in [Ages -> Nat]
         /\ Cardinality(Slots(Stamp(f, age), Burst))
              = Cardinality(Slots(f, Burst)) + (IF age \in Burst THEN 1 ELSE 0)
<1> DEFINE g == Stamp(f, age)
<1>1. g \in [Ages -> Nat] /\ \A a \in Ages : g[a] = f[a] + (IF a = age THEN 1 ELSE 0)
  BY DEF Stamp
<1>2. \A a \in Burst : a \in Ages /\ f[a] \in Nat /\ g[a] \in Nat
  BY <1>1, BurstAges
<1>3. IsFiniteSet(Slots(f, Burst)) /\ Cardinality(Slots(f, Burst)) \in Nat
  BY SlotsOf
<1> HIDE DEF g
<1>4. CASE age \in Burst
  <2> DEFINE p == <<age, f[age] + 1>>
  <2>1. Slots(g, Burst) = Slots(f, Burst) \cup {p} /\ p \notin Slots(f, Burst)
    BY <1>1, <1>2, <1>4 DEF Slots
  <2> HIDE DEF p
  <2> QED
    BY <1>1, <1>3, <1>4, <2>1, FS_AddElement DEF g
<1>5. CASE age \notin Burst
  <2>1. Slots(g, Burst) = Slots(f, Burst)
    BY <1>1, <1>2, <1>5 DEF Slots
  <2> QED
    BY <1>1, <1>3, <1>5, <2>1 DEF g
<1> QED
  BY <1>4, <1>5

(* What grows older does not become more. *)
LEMMA OlderSlots ==
  ASSUME NEW f \in [Ages -> Nat]
  PROVE  /\ Older(f) \in [Ages -> Nat]
         /\ Cardinality(Slots(Older(f), Burst)) <= Cardinality(Slots(f, Burst))
<1> DEFINE g == Older(f)
           h == [p \in Slots(g, Burst) |-> <<p[1] - 1, p[2]>>]
<1>0. Window \in Nat /\ BurstWindow \in Nat
  BY RateLimitAssumption
<1>1. g \in [Ages -> Nat] /\ \A a \in Ages : g[a] = IF a = 0 THEN 0 ELSE f[a - 1]
  BY <1>0 DEF Older, Ages
<1>2. \A a \in Burst : a \in Ages /\ a \in Nat /\ (a # 0 => a - 1 \in Burst /\ a - 1 \in Nat)
  BY <1>0, BurstAges DEF Burst
<1> HIDE DEF g
<1>3. \A p \in Slots(g, Burst) : /\ p = <<p[1], p[2]>> /\ p[1] \in Burst /\ p[1] # 0
                                 /\ <<p[1] - 1, p[2]>> \in Slots(f, Burst)
  BY <1>1, <1>2 DEF Slots
<1>4. h \in [Slots(g, Burst) -> Slots(f, Burst)]
  BY <1>3
<1>5. \A p, q \in Slots(g, Burst) : h[p] = h[q] => p = q
  <2> TAKE p, q \in Slots(g, Burst)
  <2>1. h[p] = h[q] => p[1] - 1 = q[1] - 1 /\ p[2] = q[2]
    OBVIOUS
  <2>2. p[1] \in Nat /\ q[1] \in Nat
    BY <1>2, <1>3
  <2>3. p[1] - 1 = q[1] - 1 => p[1] = q[1]
    BY <2>2
  <2> HIDE DEF h
  <2> QED
    BY <1>3, <2>1, <2>3
<1> HIDE DEF h
<1>6. h \in Injection(Slots(g, Burst), Slots(f, Burst))
  BY <1>4, <1>5 DEF Injection, IsInjective
<1> QED
  BY <1>1, <1>6, SlotsOf, FS_Injection DEF g

(* What was counted leaves room for one more. *)
LEMMA AllowedBurst ==
  ASSUME TypeOK, BurstFits, Allowed(Count, BurstCount)
  PROVE  Cardinality(Slots(admitted, Burst)) <= BurstLimit
<1>1. hits \in [Ages -> Nat] /\ admitted \in [Ages -> Nat]
  BY DEF TypeOK, LimiterTypeOK
<1>2. /\ BurstCount = Cardinality(Slots(hits, Burst)) /\ Count = Cardinality(Slots(hits, Ages))
      /\ Cardinality(Slots(hits, Burst)) <= Cardinality(Slots(hits, Ages))
  BY <1>1, SlotsOf DEF BurstCount, Count, Burst
<1>3. Cardinality(Slots(admitted, Burst)) <= Cardinality(Slots(hits, Burst))
  BY <1>1, FewerSlots DEF BurstFits
<1>4. Limit <= BurstLimit /\ Limit \in Nat /\ BurstLimit \in Nat
  BY RateLimitAssumption DEF BurstLimit
<1>5. /\ Cardinality(Slots(admitted, Burst)) \in Nat /\ Cardinality(Slots(hits, Burst)) \in Nat
      /\ Cardinality(Slots(hits, Ages)) \in Nat
  BY <1>1, SlotsOf, FS_CardinalityType
<1>6. Cardinality(Slots(hits, Burst)) <= BurstLimit
  BY <1>2, <1>4, <1>5 DEF Allowed
<1> QED
  BY <1>3, <1>4, <1>5, <1>6

LEMMA ComingType ==
  Coming \subseteq Workers /\ IsFiniteSet(Coming) /\ Cardinality(Coming) \in Nat
  /\ Cardinality(Coming) <= Cardinality(Workers) /\ Cardinality(Workers) \in Nat
<1>1. Coming \subseteq Workers /\ IsFiniteSet(Workers)
  BY GatewayAssumption DEF Coming
<1> QED
  BY <1>1, FS_Subset, FS_CardinalityType

LEMMA SlotsType ==
  ASSUME TypeOK
  PROVE  /\ hits \in [Ages -> Nat] /\ admitted \in [Ages -> Nat]
         /\ Cardinality(Slots(admitted, Burst)) \in Nat
         /\ BurstLimit \in Nat
<1>1. hits \in [Ages -> Nat] /\ admitted \in [Ages -> Nat]
  BY DEF TypeOK, LimiterTypeOK
<1> QED
  BY <1>1, SlotsOf, RateLimitAssumption DEF BurstLimit

(* A step that counts nobody and lets nobody through. *)
LEMMA ComingShrinks ==
  ASSUME TypeOK, BurstFits, UNCHANGED limiter, Coming' \subseteq Coming
  PROVE  BurstFits'
<1>1. Cardinality(Coming') <= Cardinality(Coming) /\ Cardinality(Coming') \in Nat
  BY ComingType, FS_Subset, FS_CardinalityType
<1>2. admitted' = admitted /\ hits' = hits
  BY DEF limiter
<1> QED
  BY <1>1, <1>2, SlotsType, ComingType DEF BurstFits

LEMMA NobodyComes ==
  ASSUME TypeOK, BurstFits, UNCHANGED limiter,
         NEW w \in Workers, NEW r, r.pc # "add", Become(w, r)
  PROVE  BurstFits'
<1>1. \A v \in Workers : req'[v] = IF v = w THEN r ELSE req[v]
  BY DEF Become, TypeOK
<1>2. Coming' \subseteq Coming
  BY <1>1 DEF Coming
<1> QED
  BY <1>2, ComingShrinks

LEMMA CountBurst ==
  ASSUME TypeOK, BurstFits, NEW w \in Workers, CountHits(w)
  PROVE  BurstFits'
<1> PICK allowed : allowed = Allowed(Count, BurstCount)
  OBVIOUS
<1>1. /\ req[w].pc = "count" /\ UNCHANGED limiter
      /\ Become(w, [pc |-> "add", key |-> req[w].key, age |-> 0, allowed |-> allowed])
  BY DEF CountHits
<1>2. \A v \in Workers \ {w} : req'[v] = req[v]
  BY <1>1 DEF Become, TypeOK
<1>3. req'[w].allowed = allowed
  BY <1>1 DEF Become, TypeOK
<1>4. CASE ~allowed
  <2>1. Coming' \subseteq Coming
    BY <1>2, <1>3, <1>4 DEF Coming
  <2> QED
    BY <1>1, <2>1, ComingShrinks
<1>5. CASE allowed
  <2>1. Cardinality(Slots(admitted, Burst)) <= BurstLimit
    BY <1>5, AllowedBurst
  <2>2. Coming' \subseteq Workers /\ IsFiniteSet(Workers)
    BY GatewayAssumption DEF Coming
  <2>3. Cardinality(Coming') <= Cardinality(Workers) /\ Cardinality(Coming') \in Nat
    BY <2>2, FS_Subset, FS_CardinalityType
  <2>4. admitted' = admitted /\ hits' = hits
    BY <1>1 DEF limiter
  <2> QED
    BY <2>1, <2>3, <2>4, SlotsType, ComingType DEF BurstFits
<1> QED
  BY <1>4, <1>5

LEMMA AddBurst ==
  ASSUME TypeOK, BurstFits, NEW w \in Workers, AddHit(w)
  PROVE  BurstFits'
<1> PICK age : age = req[w].age
  OBVIOUS
<1> PICK allowed : allowed = req[w].allowed
  OBVIOUS
<1>1. /\ req[w].pc = "add" /\ hits' = Stamp(hits, age)
      /\ admitted' = IF allowed THEN Stamp(admitted, age) ELSE admitted
      /\ \E r \in {Through(req[w].key), Idle} : Become(w, r)
  BY DEF AddHit, Hit
<1>2. age \in AgeOf /\ allowed \in BOOLEAN
  BY <1>1, RequestShape DEF TypeOK
<1>3. \A v \in Workers \ {w} : req'[v] = req[v]
  BY <1>1 DEF Become, TypeOK
<1>4. req'[w].pc # "add"
  BY <1>1 DEF Become, TypeOK, Through, Idle
<1>5. Coming' = Coming \ {w}
  BY <1>3, <1>4 DEF Coming
<1>6. hits' \in [Ages -> Nat] /\ \A a \in Ages : hits'[a] = hits[a] + (IF a = age THEN 1 ELSE 0)
  BY <1>1, SlotsType DEF Stamp
<1>7. Cardinality(Coming') = Cardinality(Coming) - (IF w \in Coming THEN 1 ELSE 0)
  <2>1. \A S : IsFiniteSet(S) =>
          Cardinality(S \ {w}) = IF w \in S THEN Cardinality(S) - 1 ELSE Cardinality(S)
    BY FS_RemoveElement
  <2>2. Cardinality(Coming \ {w}) = IF w \in Coming THEN Cardinality(Coming) - 1 ELSE Cardinality(Coming)
    BY <2>1, ComingType
  <2> QED
    BY <1>5, <2>2, ComingType
<1>8. CASE ~allowed
  <2>1. admitted' = admitted /\ w \notin Coming
    BY <1>1, <1>8 DEF Coming
  <2>2. \A a \in Ages : admitted'[a] <= hits'[a]
    BY <1>6, <2>1, SlotsType DEF BurstFits
  <2> QED
    BY <1>7, <2>1, <2>2, SlotsType, ComingType DEF BurstFits
<1>9. CASE allowed
  <2>1. admitted' = Stamp(admitted, age) /\ (w \in Coming <=> age \in Burst)
    BY <1>1, <1>9 DEF Coming
  <2>2. \A a \in Ages : admitted'[a] = admitted[a] + (IF a = age THEN 1 ELSE 0)
    BY <2>1, SlotsType DEF Stamp
  <2>3. \A a \in Ages : admitted'[a] <= hits'[a]
    BY <1>6, <2>2, SlotsType DEF BurstFits
  <2>4. Cardinality(Slots(admitted', Burst))
          = Cardinality(Slots(admitted, Burst)) + (IF age \in Burst THEN 1 ELSE 0)
    BY <1>2, <2>1, SlotsType, StampSlots
  <2> QED
    BY <1>7, <2>1, <2>3, <2>4, SlotsType, ComingType DEF BurstFits
<1> QED
  BY <1>2, <1>8, <1>9

LEMMA TickBurst ==
  ASSUME TypeOK, BurstFits, Tick
  PROVE  BurstFits'
<1>1. /\ hits' = Older(hits) /\ admitted' = Older(admitted)
      /\ \A v \in Workers : req'[v] = IF req[v].pc = "add" /\ req[v].age < Window
                                      THEN [req[v] EXCEPT !.age = @ + 1] ELSE req[v]
  BY DEF Tick, GrowOlder
<1>0. Window \in Nat /\ BurstWindow \in Nat
  BY RateLimitAssumption
<1>2. ASSUME NEW v \in Workers, v \in Coming'
      PROVE  v \in Coming
  <2>1. CASE req[v].pc = "add" /\ req[v].age < Window
    <3> PICK r : r = req[v]
      OBVIOUS
    <3>1. r \in [pc: {"add"}, key: Keys \cup {NoKey}, age: AgeOf, allowed: BOOLEAN]
      BY <2>1 DEF TypeOK, Request, Idle
    <3>2. req'[v] = [r EXCEPT !.age = @ + 1]
      BY <1>1, <2>1
    <3>3. req'[v].allowed = r.allowed /\ req'[v].age = r.age + 1 /\ r.age \in Nat
      BY <3>1, <3>2, <1>0 DEF AgeOf
    <3>4. r.age + 1 \in Burst => r.age \in Burst
      BY <1>0, <3>3 DEF Burst
    <3> QED
      BY <1>2, <2>1, <3>3, <3>4 DEF Coming
  <2>2. CASE ~(req[v].pc = "add" /\ req[v].age < Window)
    BY <1>1, <1>2, <2>2 DEF Coming
  <2> QED
    BY <2>1, <2>2
<1>3. Coming' \subseteq Coming
  BY <1>2 DEF Coming
<1>4. Cardinality(Coming') <= Cardinality(Coming) /\ Cardinality(Coming') \in Nat
  BY <1>3, ComingType, FS_Subset, FS_CardinalityType
<1>5. /\ admitted' \in [Ages -> Nat]
      /\ Cardinality(Slots(admitted', Burst)) <= Cardinality(Slots(admitted, Burst))
      /\ Cardinality(Slots(admitted', Burst)) \in Nat
  BY <1>1, SlotsType, OlderSlots, SlotsOf
<1>6. \A a \in Ages : admitted'[a] <= hits'[a]
  BY <1>0, <1>1, SlotsType DEF Older, Ages, BurstFits
<1> QED
  BY <1>4, <1>5, <1>6, SlotsType, ComingType DEF BurstFits

LEMMA BurstStep ==
  ASSUME IInv, BurstFits, [Next]_vars
  PROVE  BurstFits'
<1>0. TypeOK
  BY DEF IInv
<1>1. ASSUME NEW w \in Workers, NEW k \in Keys \cup {NoKey}, Arrive(w, k)
      PROVE  BurstFits'
  BY <1>0, <1>1, NobodyComes DEF Arrive
<1>2. ASSUME NEW w \in Workers, LimiterFails(w)
      PROVE  BurstFits'
  BY <1>0, <1>2, NobodyComes DEF LimiterFails, Through
<1>3. ASSUME NEW w \in Workers, req[w].pc \in {"get", "acquire"} \cup Holding, UNCHANGED limiter,
             \/ Become(w, Idle)
             \/ \E pc \in {"get", "acquire", "handle"} \cup Holding :
                  Become(w, [req[w] EXCEPT !.pc = pc])
      PROVE  BurstFits'
  <2>1. CASE Become(w, Idle)
    BY <1>0, <1>3, <2>1, NobodyComes DEF Idle
  <2>2. ASSUME NEW pc \in {"get", "acquire", "handle"} \cup Holding,
               Become(w, [req[w] EXCEPT !.pc = pc])
        PROVE  BurstFits'
    <3>1. req[w] \in Request
      BY <1>0 DEF TypeOK
    <3>2. [req[w] EXCEPT !.pc = pc].pc = pc
      BY <1>3, <3>1 DEF Request, Idle, Holding
    <3>3. pc # "add"
      BY DEF Holding
    <3> QED
      BY <1>0, <1>3, <2>2, <3>2, <3>3, NobodyComes
  <2> QED
    BY <1>3, <2>1, <2>2
<1>4. ASSUME NEW w \in Workers, Serve(w)
      PROVE  BurstFits'
  <2>1. CASE CountHits(w)
    BY <1>0, <2>1, CountBurst
  <2>2. CASE AddHit(w)
    BY <1>0, <2>2, AddBurst
  <2>3. CASE Handle(w)
    BY <1>0, <2>3, NobodyComes DEF Handle, Finish, Idle
  <2>4. CASE GetKey(w)
    BY <1>3, <2>4 DEF GetKey
  <2>5. CASE AcquireKey(w)
    BY <1>3, <2>5 DEF AcquireKey, Holding
  <2>6. CASE Succeed(w)
    BY <1>3, <2>6 DEF Succeed, Finish, Holding
  <2>7. CASE Refuse(w)
    BY <1>3, <2>7 DEF Refuse, Holding
  <2>8. CASE StoreResponse(w) \/ DeleteKey(w)
    BY <1>3, <2>8 DEF StoreResponse, DeleteKey, Finish, Holding
  <2> QED
    BY <1>4, <2>1, <2>2, <2>3, <2>4, <2>5, <2>6, <2>7, <2>8 DEF Serve
<1>5. ASSUME NEW w \in Workers, KeyFails(w) \/ GiveUp(w)
      PROVE  BurstFits'
  BY <1>3, <1>5 DEF KeyFails, GiveUp, Finish, Holding
<1>6. CASE \E k \in Keys : ExpireKey(k)
  <2>1. UNCHANGED <<limiter, req>>
    BY <1>6 DEF ExpireKey
  <2> QED
    BY <1>0, <2>1, ComingShrinks DEF Coming
<1>7. CASE UNCHANGED vars
  BY <1>0, <1>7, ComingShrinks DEF Coming, vars
<1>8. CASE Tick
  BY <1>0, <1>8, TickBurst
<1> QED
  BY <1>1, <1>2, <1>4, <1>5, <1>6, <1>7, <1>8 DEF Next

(* However many requests count before they add (rate_limit.go: the ZADD is  *)
(* not part of the pipeline that counts), what gets through in a burst      *)
(* window exceeds the limit by no more than the requests in flight.         *)
THEOREM BurstStaysBounded == Spec => []BurstIsBounded
<1>1. Init => BurstFits
  <2> SUFFICES ASSUME Init
               PROVE  BurstFits
    OBVIOUS
  <2>1. admitted = Empty /\ hits = Empty /\ Coming = {}
    BY DEF Init, LimiterInit, Coming, Idle
  <2>2. \A a \in Ages : admitted[a] = 0 /\ hits[a] = 0
    BY <2>1 DEF Empty
  <2>3. Slots(admitted, Burst) = {}
    BY <2>2, BurstAges DEF Slots
  <2>4. Cardinality(Slots(admitted, Burst)) = 0 /\ Cardinality(Coming) = 0
    BY <2>1, <2>3, FS_EmptySet
  <2>5. BurstLimit \in Nat
    BY RateLimitAssumption DEF BurstLimit
  <2> QED
    BY <2>2, <2>4, <2>5, ComingType DEF BurstFits
<1>2. IInv /\ BurstFits /\ [Next]_vars => BurstFits'
  BY BurstStep
<1>3. IInv /\ BurstFits => BurstIsBounded
  <2> SUFFICES ASSUME IInv, BurstFits
               PROVE  BurstIsBounded
    OBVIOUS
  <2>1. TypeOK
    BY DEF IInv
  <2>2. SumFunctionOnSet(admitted, 0..BurstWindow) = Cardinality(Slots(admitted, Burst))
    BY <2>1, SlotsType, SlotsOf DEF Burst
  <2> QED
    BY <2>1, <2>2, SlotsType, ComingType DEF BurstFits, BurstIsBounded
<1> QED
  BY <1>1, <1>2, <1>3, Inductive, PTL DEF Spec, Safety

(***************************************************************************)
(* Hub: what the map holds and what was pushed                              *)
(***************************************************************************)
Steps == {"lookup", "len", "rlock", "range", "lock"}

(* The hub has had the connection: it will not be put into the map again.   *)
Known(c) ==
    /\ reader[c] \notin {"none", "register"}
    /\ hub.pc = "register" => hub.client # c

MapFits ==
    /\ hub.pc = "register" => reader[hub.client] \notin {"none", "register"}
    /\ \A c \in Clients : closed[c] => Known(c)
    /\ \A u \in Users : \A c \in In(u) : UserOf[c] = u /\ Known(c) /\ ~closed[c]

(* A note was pushed to a connection only by the sender that has it, who    *)
(* has done with its user or has seen it.                                   *)
SenderFits(r) ==
    /\ r # NotSending => r.note \in stored
    /\ r # NotSending => \A c \in Clients : r.note \in pushed[c] => UserOf[c] \notin r.to
    /\ r.pc \in Steps => /\ r.user \notin r.to
                         /\ \A c \in Clients :
                              r.note \in pushed[c] /\ UserOf[c] = r.user => c \in r.seen
    /\ r.pc = "lock" => r.full \in Clients /\ UserOf[r.full] = r.user /\ Known(r.full)

NotesDiffer ==
    \A s, t \in Senders :
      sender[s] # NotSending /\ sender[t] # NotSending /\ sender[s].note = sender[t].note => s = t

HubInv ==
    /\ HubTypeOK /\ MapFits
    /\ \A s \in Senders : SenderFits(sender[s])
    /\ NotesDiffer
    /\ PushedOnce

SenderRow == {NotSending} \cup Choosing \cup Sending

(* A sender's place tells what it keeps. *)
LEMMA SenderShape ==
  ASSUME NEW r \in SenderRow
  PROVE  /\ r.pc \in {"idle", "next"} \cup Steps
         /\ (r = NotSending) = (r.pc = "idle")
         /\ r # NotSending => r.note \in Notes /\ r.to \subseteq Users /\ r.alone \in BOOLEAN
         /\ r.pc = "next" => r \in Choosing
         /\ r.pc \in Steps => r \in Sending /\ r.user \in Users /\ r.seen \subseteq Clients
                              /\ r.must \subseteq Clients /\ r.full \in Clients \cup {NoClient}
                              /\ r.dropped \in BOOLEAN
  BY DEF SenderRow, NotSending, Choosing, Sending, Steps

(* What SendToUser returns to. *)
LEMMA ReturnShape ==
  ASSUME NEW r \in SenderRow, r # NotSending
  PROVE  LET q == [pc |-> "next", note |-> r.note, to |-> r.to, alone |-> r.alone]
         IN  q \in SenderRow /\ q # NotSending /\ (SenderFits(r) => SenderFits(q))
<1> DEFINE q == [pc |-> "next", note |-> r.note, to |-> r.to, alone |-> r.alone]
<1>1. q \in Choosing /\ q.pc = "next" /\ q.note = r.note /\ q.to = r.to
  BY SenderShape DEF Choosing
<1>2. q \in SenderRow /\ q # NotSending
  BY <1>1, SenderShape DEF SenderRow
<1>3. SenderFits(r) => SenderFits(q)
  <2> HIDE DEF q
  <2> QED
    BY <1>1, <1>2 DEF SenderFits, Steps
<1> QED
  BY <1>2, <1>3

(* The map of a user after one of two writes. *)
LEMMA MapWrites ==
  ASSUME HubTypeOK, NEW u \in Users, NEW cs \in SUBSET Clients
  PROVE  /\ clients' = SetIn(u, cs) =>
              /\ DOMAIN clients' \subseteq Users /\ clients' \in [DOMAIN clients' -> SUBSET Clients]
              /\ \A v \in Users : In(v)' = IF v = u THEN cs ELSE In(v)
         /\ clients' = Without(u) =>
              /\ DOMAIN clients' \subseteq Users /\ clients' \in [DOMAIN clients' -> SUBSET Clients]
              /\ \A v \in Users : In(v)' = IF v = u THEN {} ELSE In(v)
         /\ UNCHANGED clients => \A v \in Users : In(v)' = In(v)
         /\ \A v \in Users : In(v) \subseteq Clients
<1>1. DOMAIN clients \subseteq Users /\ clients \in [DOMAIN clients -> SUBSET Clients]
  BY DEF HubTypeOK
<1>2. \A v \in DOMAIN clients : clients[v] \subseteq Clients
  BY <1>1
<1>3. \A v \in Users : In(v) \subseteq Clients
  BY <1>2 DEF In
<1>4. ASSUME clients' = SetIn(u, cs)
      PROVE  /\ DOMAIN clients' \subseteq Users /\ clients' \in [DOMAIN clients' -> SUBSET Clients]
             /\ \A v \in Users : In(v)' = IF v = u THEN cs ELSE In(v)
  BY <1>1, <1>2, <1>4 DEF In, SetIn
<1>5. ASSUME clients' = Without(u)
      PROVE  /\ DOMAIN clients' \subseteq Users /\ clients' \in [DOMAIN clients' -> SUBSET Clients]
             /\ \A v \in Users : In(v)' = IF v = u THEN {} ELSE In(v)
  BY <1>1, <1>2, <1>5 DEF In, Without
<1>6. UNCHANGED clients => \A v \in Users : In(v)' = In(v)
  BY DEF In
<1> QED
  BY <1>3, <1>4, <1>5, <1>6

(* A step of one sender that neither stores nor pushes a note.              *)
LEMMA SenderStep ==
  ASSUME HubInv, NEW s \in Senders, NEW r \in SenderRow, SenderBecomes(s, r),
         sender[s] # NotSending,
         UNCHANGED <<stored, clients, hub, send, closed, links, histories, broken>>,
         SenderFits(r), r # NotSending => r.note = sender[s].note
  PROVE  HubInv'
<1>1. /\ sender' \in [Senders -> SenderRow] /\ sender'[s] = r
      /\ \A t \in Senders \ {s} : sender'[t] = sender[t]
  BY DEF HubInv, HubTypeOK, SenderBecomes, SenderRow
<1>2. HubTypeOK'
  BY <1>1 DEF HubInv, HubTypeOK, links, histories, SenderRow
<1>3. MapFits'
  BY DEF HubInv, MapFits, Known, In, links
<1>4. \A t \in Senders : SenderFits(sender[t])'
  <2> TAKE t \in Senders
  <2>1. SenderFits(sender'[t])
    BY <1>1 DEF HubInv
  <2> QED
    BY <2>1 DEF SenderFits, Known, links, histories
<1>5. NotesDiffer'
  BY <1>1 DEF HubInv, NotesDiffer
<1>6. PushedOnce'
  BY DEF HubInv, PushedOnce, histories
<1> QED
  BY <1>2, <1>3, <1>4, <1>5, <1>6 DEF HubInv

LEMMA HubInitOk == HubInit => HubInv
<1> SUFFICES ASSUME HubInit
             PROVE  HubInv
  OBVIOUS
<1>1. HubTypeOK
  BY HubAssumption DEF HubInit, HubTypeOK, Select
<1>2. \A u \in Users : In(u) = {}
  BY DEF HubInit, In
<1> QED
  BY <1>1, <1>2 DEF HubInit, HubInv, MapFits, SenderFits, NotesDiffer, PushedOnce, NotSending, Steps, Select

LEMMA SendingSteps ==
  ASSUME HubInv, NEW s \in Senders, SendToUser(s),
         ~(\E c \in Clients : Offer(s, c)), ~CloseFull(s)
  PROVE  HubInv'
<1> DEFINE r == sender[s]
<1>0. r \in SenderRow /\ SenderFits(r)
  BY DEF HubInv, HubTypeOK, SenderRow
<1>s. r.pc # "idle" => r # NotSending
  BY DEF NotSending
<1>1. CASE \E u \in Users : NextUser(s, u)
  <2> PICK u \in Users : NextUser(s, u)
    BY <1>1
  <2> DEFINE q == [pc |-> "lookup", note |-> r.note, to |-> r.to \ {u}, user |-> u,
                   must |-> {}, seen |-> {}, full |-> NoClient, dropped |-> FALSE,
                   alone |-> r.alone]
  <2>1. r.pc = "next" /\ u \in r.to /\ SenderBecomes(s, q)
        /\ UNCHANGED <<stored, clients, hub, send, closed, links, histories, broken>>
    BY DEF NextUser
  <2>2. r # NotSending /\ r.note \in Notes /\ r.to \subseteq Users /\ r.alone \in BOOLEAN
    BY <1>0, <1>s, <2>1, SenderShape
  <2>3. q \in Sending
    BY <2>2 DEF Sending, NoClient
  <2>4. q.pc = "lookup" /\ q.note = r.note /\ q.to = r.to \ {u} /\ q.user = u /\ q # NotSending
    BY DEF NotSending
  <2> HIDE DEF q
  <2>5. SenderFits(q)
    BY <1>0, <2>1, <2>2, <2>4 DEF SenderFits, Steps
  <2> QED
    BY <2>1, <2>2, <2>3, <2>4, <2>5, SenderStep DEF SenderRow
<1>2. CASE AllSent(s)
  <2>1. r.pc = "next" /\ SenderBecomes(s, NotSending)
        /\ UNCHANGED <<stored, clients, hub, send, closed, links, histories, broken>>
    BY <1>2 DEF AllSent
  <2>2. SenderFits(NotSending) /\ NotSending \in SenderRow
    BY DEF SenderFits, NotSending, SenderRow, Steps
  <2> QED
    BY <1>s, <2>1, <2>2, SenderStep
<1>3. ASSUME r # NotSending, Return(s),
             UNCHANGED <<stored, clients, hub, send, closed, links, histories, broken>>
      PROVE  HubInv'
  <2> DEFINE q == [pc |-> "next", note |-> r.note, to |-> r.to, alone |-> r.alone]
  <2>1. q \in SenderRow /\ SenderFits(q) /\ q.note = r.note
    BY <1>0, <1>3, ReturnShape
  <2>2. SenderBecomes(s, q)
    BY <1>3 DEF Return
  <2> HIDE DEF q
  <2> QED
    BY <1>3, <2>1, <2>2, SenderStep
<1>4. ASSUME NEW pc \in Steps \ {"lock"}, NEW must \in SUBSET Clients, r.pc \in Steps,
             SenderBecomes(s, [r EXCEPT !.pc = pc, !.must = must]),
             UNCHANGED <<stored, clients, hub, send, closed, links, histories, broken>>
      PROVE  HubInv'
  <2> DEFINE q == [r EXCEPT !.pc = pc, !.must = must]
  <2>1. r \in Sending /\ r # NotSending
    BY <1>0, <1>4, SenderShape DEF Steps, NotSending
  <2>2. q \in Sending
    BY <2>1, <1>4 DEF Sending, Steps
  <2>3. /\ q.pc = pc /\ q.note = r.note /\ q.to = r.to /\ q.user = r.user /\ q.seen = r.seen
        /\ q # NotSending
    BY <2>1, <1>4 DEF Sending, NotSending, Steps
  <2>5. SenderBecomes(s, q)
    BY <1>4
  <2> HIDE DEF q
  <2>4. SenderFits(q)
    BY <1>0, <1>4, <2>1, <2>3 DEF SenderFits
  <2> QED
    BY <1>4, <2>1, <2>2, <2>3, <2>4, <2>5, SenderStep DEF SenderRow
<1>5. ASSUME NEW pc, r.pc \in Steps, SenderBecomes(s, [r EXCEPT !.pc = pc])
      PROVE  SenderBecomes(s, [r EXCEPT !.pc = pc, !.must = r.must]) /\ r.must \in SUBSET Clients
  <2>1. r \in Sending /\ r.must \subseteq Clients
    BY <1>0, <1>5, SenderShape
  <2>2. [r EXCEPT !.pc = pc] = [r EXCEPT !.pc = pc, !.must = r.must]
    BY <2>1 DEF Sending
  <2> QED
    BY <1>5, <2>1, <2>2
<1>6. CASE Lookup(s)
  <2>1. r.pc = "lookup" /\ r.pc \in Steps /\ r # NotSending
        /\ UNCHANGED <<stored, clients, hub, send, closed, links, histories, broken>>
    BY <1>6, <1>s DEF Lookup, Steps
  <2>2. CASE Return(s)
    BY <1>3, <2>1, <2>2
  <2>3. CASE SenderBecomes(s, [r EXCEPT !.pc = "len"])
    <3>1. SenderBecomes(s, [r EXCEPT !.pc = "len", !.must = r.must]) /\ r.must \in SUBSET Clients
      BY <1>5, <2>1, <2>3
    <3> QED
      BY <1>4, <2>1, <3>1 DEF Steps
  <2> QED
    BY <1>6, <2>2, <2>3 DEF Lookup
<1>7. CASE CheckLen(s)
  <2>1. r.pc = "len" /\ r.pc \in Steps /\ r # NotSending
        /\ UNCHANGED <<stored, clients, hub, send, closed, links, histories, broken>>
    BY <1>7, <1>s DEF CheckLen, Steps
  <2>2. CASE Return(s)
    BY <1>3, <2>1, <2>2
  <2>3. CASE SenderBecomes(s, [r EXCEPT !.pc = "rlock"])
    <3>1. SenderBecomes(s, [r EXCEPT !.pc = "rlock", !.must = r.must]) /\ r.must \in SUBSET Clients
      BY <1>5, <2>1, <2>3
    <3> QED
      BY <1>4, <2>1, <3>1 DEF Steps
  <2> QED
    BY <1>7, <2>2, <2>3 DEF CheckLen
<1>8. CASE RLock(s)
  <2> DEFINE must == IF r.seen = {} THEN Content(s) ELSE r.must
  <2>1. r.pc = "rlock" /\ r.pc \in Steps
        /\ UNCHANGED <<stored, clients, hub, send, closed, links, histories, broken>>
    BY <1>8 DEF RLock, Steps
  <2>2. must \in SUBSET Clients
    <3>1. r.user \in Users /\ r.must \subseteq Clients
      BY <1>0, <2>1, SenderShape
    <3>2. Content(s) \subseteq Clients
      BY <3>1, MapWrites DEF HubInv, Content
    <3> QED
      BY <3>1, <3>2
  <2>3. SenderBecomes(s, [r EXCEPT !.pc = "range", !.must = must])
    BY <1>8 DEF RLock
  <2> HIDE DEF must
  <2> QED
    BY <1>4, <2>1, <2>2, <2>3 DEF Steps
<1>9. CASE EndRange(s)
  <2>1. r.pc = "range" /\ r # NotSending /\ Return(s)
        /\ UNCHANGED <<stored, clients, hub, send, closed, links, histories, broken>>
    BY <1>9, <1>s DEF EndRange
  <2> QED
    BY <1>3, <2>1
<1> QED
  BY <1>1, <1>2, <1>6, <1>7, <1>8, <1>9 DEF SendToUser

(* A sender at its range offers to a connection of its user in the map. *)
LEMMA OfferedTo ==
  ASSUME HubInv, NEW s \in Senders, NEW c \in Clients, Offer(s, c)
  PROVE  /\ sender[s] \in Sending /\ sender[s] # NotSending /\ SenderFits(sender[s])
         /\ sender[s].user \in Users /\ sender[s].seen \subseteq Clients
         /\ c \in In(sender[s].user) /\ UserOf[c] = sender[s].user /\ Known(c)
         /\ sender[s].pc \in Steps /\ c \notin sender[s].seen
         /\ sender[s].note \notin pushed[c]
<1> DEFINE r == sender[s]
<1>1. r \in SenderRow /\ SenderFits(r) /\ r.pc = "range" /\ r.pc \in Steps
      /\ c \in Content(s) /\ c \notin r.seen
  BY DEF HubInv, HubTypeOK, SenderRow, Offer, Steps
<1>2. r \in Sending /\ r # NotSending /\ r.user \in Users /\ r.seen \subseteq Clients
  BY <1>1, SenderShape DEF NotSending
<1>3. c \in In(r.user)
  BY <1>1 DEF Content
<1>4. UserOf[c] = r.user /\ Known(c)
  BY <1>2, <1>3 DEF HubInv, MapFits
<1> HIDE DEF r
<1>5. r.note \notin pushed[c]
  BY <1>1, <1>4 DEF SenderFits
<1> QED
  BY <1>1, <1>2, <1>3, <1>4, <1>5 DEF r

LEMMA OfferSteps ==
  ASSUME HubInv, NEW s \in Senders, NEW c \in Clients, Offer(s, c)
  PROVE  HubInv'
<1> PICK r : r = sender[s]
  OBVIOUS
<1>1. /\ r \in Sending /\ r # NotSending /\ SenderFits(r)
      /\ r.user \in Users /\ r.seen \subseteq Clients
      /\ c \in In(r.user) /\ UserOf[c] = r.user /\ Known(c)
      /\ r.pc \in Steps /\ c \notin r.seen /\ r.note \notin pushed[c]
  BY OfferedTo
<1>2. CASE ~Room(c)
  <2> DEFINE q == [r EXCEPT !.pc = "lock", !.seen = @ \cup {c}, !.full = c]
  <2>1. /\ SenderBecomes(s, q)
        /\ UNCHANGED <<stored, clients, hub, send, closed, links, histories, broken>>
    BY <1>2 DEF Offer
  <2>2. q \in Sending
    BY <1>1 DEF Sending
  <2>3. /\ q.pc = "lock" /\ q.note = r.note /\ q.to = r.to /\ q.user = r.user
        /\ q.seen = r.seen \cup {c} /\ q.full = c /\ q # NotSending
    BY <1>1 DEF Sending, NotSending
  <2> HIDE DEF q
  <2>4. SenderFits(q)
    BY <1>1, <2>3 DEF SenderFits
  <2> QED
    BY <1>1, <2>1, <2>2, <2>3, <2>4, SenderStep DEF SenderRow
<1>3. CASE Room(c)
  <2> PICK q : q = [r EXCEPT !.seen = @ \cup {c}]
    OBVIOUS
  <2>1. /\ SenderBecomes(s, q) /\ Put(c)
        /\ pushed' = [pushed EXCEPT ![c] = @ \cup {r.note}]
        /\ repeated' = repeated
        /\ UNCHANGED <<stored, clients, hub, closed, links, broken>>
    BY <1>1, <1>3 DEF Offer
  <2>2. q \in Sending /\ r.note \in Notes
    BY <1>1 DEF Sending
  <2>3. /\ q.pc = r.pc /\ q.note = r.note /\ q.to = r.to /\ q.user = r.user
        /\ q.seen = r.seen \cup {c} /\ q.full = r.full /\ q # NotSending
    BY <1>1 DEF Sending, NotSending, Steps
  <2>4. /\ sender' \in [Senders -> SenderRow] /\ sender'[s] = q
        /\ \A t \in Senders \ {s} : sender'[t] = sender[t]
    BY <2>1, <2>2 DEF HubInv, HubTypeOK, SenderBecomes, SenderRow
  <2>5. send' \in [Clients -> 0..Cap]
    <3>1. send \in [Clients -> 0..Cap] /\ send[c] < Cap /\ Cap \in Nat
      BY <1>3, HubAssumption DEF HubInv, HubTypeOK, Room
    <3>2. send[c] + 1 \in 0..Cap
      BY <3>1
    <3> QED
      BY <2>1, <3>1, <3>2 DEF Put
  <2>6. /\ pushed' \in [Clients -> SUBSET Notes]
        /\ pushed'[c] = pushed[c] \cup {r.note}
        /\ \A d \in Clients \ {c} : pushed'[d] = pushed[d]
    BY <2>1, <2>2 DEF HubInv, HubTypeOK
  <2>7. HubTypeOK'
    BY <2>1, <2>4, <2>5, <2>6 DEF HubInv, HubTypeOK, links, SenderRow
  <2>8. MapFits'
    BY <2>1 DEF HubInv, MapFits, Known, In, links
  <2>9. NotesDiffer'
    <3>1. \A t \in Senders \ {s} : sender[t] # NotSending => sender[t].note # r.note
      BY <1>1 DEF HubInv, NotesDiffer
    <3>2. \A t \in Senders \ {s} : sender'[t] # NotSending => sender'[t].note # sender'[s].note
      BY <2>3, <2>4, <3>1
    <3>3. \A t, u \in Senders \ {s} :
            sender'[t] # NotSending /\ sender'[u] # NotSending /\ sender'[t].note = sender'[u].note
            => t = u
      BY <2>4 DEF HubInv, NotesDiffer
    <3> QED
      BY <3>2, <3>3 DEF NotesDiffer
  <2>10. PushedOnce'
    BY <1>1, <2>1, <2>6 DEF HubInv, PushedOnce, SenderFits
  <2>11. ASSUME NEW t \in Senders
         PROVE  SenderFits(sender[t])'
    <3>1. CASE t = s
      <4>1. SenderFits(q)'
        <5>1. /\ q.note \in stored' /\ r.user \notin r.to
          BY <1>1, <2>1, <2>3 DEF SenderFits
        <5>2. \A d \in Clients : q.note \in pushed'[d] => UserOf[d] \notin q.to
          BY <1>1, <2>3, <2>6, <5>1 DEF SenderFits
        <5>3. \A d \in Clients : q.note \in pushed'[d] /\ UserOf[d] = q.user => d \in q.seen
          BY <1>1, <2>3, <2>6, <5>1 DEF SenderFits
        <5>4. q.pc = "lock" => q.full \in Clients /\ UserOf[q.full] = q.user /\ Known(q.full)'
          BY <1>1, <2>1, <2>3 DEF SenderFits, Known, links
        <5> QED
          BY <2>3, <5>1, <5>2, <5>3, <5>4 DEF SenderFits
      <4> QED
        BY <2>4, <3>1, <4>1
    <3>2. CASE t # s
      <4> PICK p : p = sender[t]
        OBVIOUS
      <4>1. sender'[t] = p /\ SenderFits(p)
        BY <2>4, <3>2 DEF HubInv
      <4>2. p # NotSending => p.note # r.note
        BY <1>1, <3>2 DEF HubInv, NotesDiffer
      <4>3. p.pc \in Steps => p # NotSending
        BY DEF Steps, NotSending
      <4>4. p # NotSending => \A d \in Clients : p.note \in pushed'[d] => p.note \in pushed[d]
        BY <2>6, <4>2
      <4>5. /\ p # NotSending => p.note \in stored'
            /\ p # NotSending => \A d \in Clients : p.note \in pushed'[d] => UserOf[d] \notin p.to
        BY <2>1, <4>1, <4>4 DEF SenderFits
      <4>6. p.pc \in Steps => /\ p.user \notin p.to
                              /\ \A d \in Clients :
                                   p.note \in pushed'[d] /\ UserOf[d] = p.user => d \in p.seen
        BY <4>1, <4>3, <4>4 DEF SenderFits
      <4>7. p.pc = "lock" => p.full \in Clients /\ UserOf[p.full] = p.user /\ Known(p.full)'
        BY <2>1, <4>1 DEF SenderFits, Known, links
      <4> QED
        BY <4>1, <4>5, <4>6, <4>7 DEF SenderFits
    <3> QED
      BY <3>1, <3>2
  <2> QED
    BY <2>7, <2>8, <2>9, <2>10, <2>11 DEF HubInv
<1> QED
  BY <1>2, <1>3

(* A new note differs from all that were stored, and nobody was pushed it.  *)
LEMMA StoreStep ==
  ASSUME HubInv, NEW s \in Senders, NEW n \in Notes, NEW us \in SUBSET Users,
         NEW alone \in BOOLEAN, SendNotificationToUsers(s, n, us, alone)
  PROVE  HubInv'
<1> DEFINE q == [pc |-> "next", note |-> n, to |-> us, alone |-> alone]
<1>1. /\ n \notin stored /\ stored' = stored \cup {n} /\ SenderBecomes(s, q)
      /\ sender[s] = NotSending
      /\ UNCHANGED <<clients, hub, send, closed, links, histories, broken>>
  BY DEF SendNotificationToUsers
<1>2. q \in Choosing /\ q.pc = "next" /\ q.note = n /\ q.to = us /\ q # NotSending
  BY DEF Choosing, NotSending
<1> HIDE DEF q
<1>3. /\ sender' \in [Senders -> SenderRow] /\ sender'[s] = q
      /\ \A t \in Senders \ {s} : sender'[t] = sender[t]
  BY <1>1, <1>2 DEF HubInv, HubTypeOK, SenderBecomes, SenderRow
<1>4. HubTypeOK'
  BY <1>1, <1>3 DEF HubInv, HubTypeOK, links, histories, SenderRow
<1>5. MapFits'
  BY <1>1 DEF HubInv, MapFits, Known, In, links
<1>6. PushedOnce'
  BY <1>1 DEF HubInv, PushedOnce, histories
<1>7. \A c \in Clients : n \notin pushed[c]
  BY <1>1 DEF HubInv, PushedOnce
<1>8. \A t \in Senders \ {s} : sender[t] # NotSending => sender[t].note # n
  BY <1>1 DEF HubInv, SenderFits
<1>9. NotesDiffer'
  BY <1>2, <1>3, <1>8 DEF HubInv, NotesDiffer
<1>10. SenderFits(q)'
  BY <1>1, <1>2, <1>7 DEF SenderFits, Steps, histories
<1>11. ASSUME NEW t \in Senders \ {s}
       PROVE  SenderFits(sender[t])'
  <2>1. SenderFits(sender'[t])
    BY <1>3 DEF HubInv
  <2> QED
    BY <1>1, <2>1 DEF SenderFits, Known, links, histories
<1> QED
  BY <1>3, <1>4, <1>5, <1>6, <1>9, <1>10, <1>11 DEF HubInv

(* A step that stores and pushes nothing, and moves no sender.              *)
LEMMA OtherStep ==
  ASSUME HubInv, UNCHANGED <<stored, histories, sender>>, HubTypeOK', MapFits',
         \A c \in Clients : Known(c) => Known(c)'
  PROVE  HubInv'
<1>1. NotesDiffer' /\ PushedOnce'
  BY DEF HubInv, NotesDiffer, PushedOnce, histories
<1>2. ASSUME NEW s \in Senders
      PROVE  SenderFits(sender[s])'
  <2>1. SenderFits(sender'[s])
    BY DEF HubInv
  <2>2. sender'[s].pc = "lock" /\ sender'[s].full \in Clients /\ Known(sender'[s].full)
        => Known(sender[s].full)'
    BY DEF Known
  <2> QED
    BY <2>1, <2>2 DEF SenderFits, histories
<1> QED
  BY <1>1, <1>2 DEF HubInv

(* A step that moves neither the map nor who is known, and closes nothing. *)
LEMMA MapStays ==
  ASSUME HubInv, UNCHANGED <<clients, hub, closed>>,
         \A c \in Clients : Known(c) => Known(c)',
         hub.pc = "register" =>
           (reader[hub.client] \notin {"none", "register"} => reader'[hub.client] \notin {"none", "register"})
  PROVE  MapFits'
<1>1. \A u \in Users : In(u)' = In(u)
  BY DEF In
<1>2. \A u \in Users : In(u) \subseteq Clients
  <2> TAKE u \in Users
  <2> QED
    BY DEF HubInv, HubTypeOK, In
<1> QED
  BY <1>1, <1>2 DEF HubInv, MapFits

LEMMA RunHubSteps ==
  ASSUME HubInv, RunHub
  PROVE  HubInv'
<1>0. /\ HubTypeOK /\ MapFits
      /\ \A u \in Users : In(u) \subseteq Clients
      /\ hub = Select \/ (hub.pc \in {"register", "unregister"} /\ hub.client \in Clients)
  BY DEF HubInv, HubTypeOK, In, Select
<1>1. ASSUME NEW c \in Clients, TakeRegister(c)
      PROVE  HubInv'
  <2>1. /\ hub = Select /\ reader[c] = "register"
        /\ hub' = [pc |-> "register", client |-> c]
        /\ reader' = [reader EXCEPT ![c] = "reads"]
        /\ writer' = [writer EXCEPT ![c] = "writes"]
        /\ UNCHANGED <<stored, clients, send, closed, conn, histories, sender, broken>>
    BY <1>1 DEF TakeRegister
  <2>2. HubTypeOK'
    BY <1>0, <2>1 DEF HubTypeOK, histories
  <2>3. \A d \in Clients : Known(d) => Known(d)' /\ d # c
    BY <1>0, <2>1 DEF Known, HubTypeOK
  <2>4. \A u \in Users : In(u)' = In(u)
    BY <2>1 DEF In
  <2>5. hub'.client = c /\ reader'[c] = "reads"
    BY <1>0, <2>1 DEF HubTypeOK
  <2>6. MapFits'
    BY <1>0, <2>1, <2>3, <2>4, <2>5 DEF MapFits
  <2> QED
    BY <2>1, <2>2, <2>3, <2>6, OtherStep
<1>2. ASSUME NEW c \in Clients, TakeUnregister(c)
      PROVE  HubInv'
  <2>1. /\ hub = Select /\ reader[c] = "unregister"
        /\ hub' = [pc |-> "unregister", client |-> c]
        /\ reader' = [reader EXCEPT ![c] = "off"]
        /\ conn' = [conn EXCEPT ![c] = FALSE]
        /\ UNCHANGED <<stored, clients, send, closed, writer, histories, sender, broken>>
    BY <1>2 DEF TakeUnregister
  <2>2. HubTypeOK'
    BY <1>0, <2>1 DEF HubTypeOK, histories
  <2>3. \A d \in Clients : Known(d) => Known(d)'
    BY <1>0, <2>1 DEF Known, HubTypeOK
  <2>4. \A u \in Users : In(u)' = In(u)
    BY <2>1 DEF In
  <2>5. hub'.pc = "unregister"
    BY <2>1
  <2>6. MapFits'
    BY <1>0, <2>1, <2>3, <2>4, <2>5 DEF MapFits
  <2> QED
    BY <2>1, <2>2, <2>3, <2>6, OtherStep
<1>3. CASE RegisterClient
  <2> PICK c : c = hub.client
    OBVIOUS
  <2> PICK u : u = UserOf[c]
    OBVIOUS
  <2>1. /\ hub.pc = "register" /\ clients' = SetIn(u, In(u) \cup {c})
        /\ hub' = Select
        /\ UNCHANGED <<stored, send, closed, links, histories, sender, broken>>
    BY <1>3 DEF RegisterClient
  <2>2. c \in Clients /\ u \in Users /\ reader[c] \notin {"none", "register"}
    BY <1>0, <2>1, HubAssumption DEF MapFits, Select
  <2>3. /\ DOMAIN clients' \subseteq Users /\ clients' \in [DOMAIN clients' -> SUBSET Clients]
        /\ \A v \in Users : In(v)' = IF v = u THEN In(u) \cup {c} ELSE In(v)
    <3>1. In(u) \cup {c} \in SUBSET Clients
      BY <1>0, <2>2
    <3> QED
      BY <1>0, <2>1, <2>2, <3>1, MapWrites
  <2>4. HubTypeOK'
    BY <1>0, <2>1, <2>3 DEF HubTypeOK, links, histories
  <2>5. /\ ~closed[c] /\ Known(c)'
        /\ \A d \in Clients : Known(d) => Known(d)'
    BY <1>0, <2>1, <2>2 DEF MapFits, Known, Select, links
  <2>6. hub'.pc = "select"
    BY <2>1 DEF Select
  <2>7. MapFits'
    BY <1>0, <2>1, <2>3, <2>5, <2>6 DEF MapFits
  <2> QED
    BY <2>1, <2>4, <2>5, <2>7, OtherStep
<1>4. CASE UnregisterClient
  <2> PICK c : c = hub.client
    OBVIOUS
  <2> PICK u : u = UserOf[c]
    OBVIOUS
  <2>1. /\ hub.pc = "unregister" /\ hub' = Select
        /\ UNCHANGED <<stored, send, links, histories, broken>>
    BY <1>4 DEF UnregisterClient
  <2>2. c \in Clients /\ u \in Users
    BY <1>0, <2>1, HubAssumption DEF Select
  <2>3. hub'.pc = "select"
    BY <2>1 DEF Select
  <2>4. \A d \in Clients : reader[d] \notin {"none", "register"} => Known(d)'
    BY <2>1, <2>3 DEF Known, links
  <2>5. \A d \in Clients : Known(d) => Known(d)'
    BY <2>4 DEF Known
  <2>6. CASE c \notin In(u)
    <3>1. UNCHANGED <<clients, closed, sender>>
      BY <1>4, <2>6 DEF UnregisterClient
    <3>2. HubTypeOK'
      BY <1>0, <2>1, <3>1 DEF HubTypeOK, links, histories
    <3>3. \A v \in Users : In(v)' = In(v)
      BY <3>1 DEF In
    <3>4. MapFits'
      BY <1>0, <2>3, <2>5, <3>1, <3>3 DEF MapFits
    <3> QED
      BY <2>1, <2>5, <3>1, <3>2, <3>4, OtherStep
  <2>7. CASE c \in In(u)
    <3>1. /\ clients' = IF In(u) = {c} THEN Without(u) ELSE SetIn(u, In(u) \ {c})
          /\ closed' = [closed EXCEPT ![c] = TRUE]
          /\ sender' = [s \in Senders |->
               IF sender[s].pc \in {"len", "rlock", "lock"} /\ sender[s].user = u /\ In(u) = {c}
               THEN [sender[s] EXCEPT !.dropped = TRUE] ELSE sender[s]]
      BY <1>4, <2>7 DEF UnregisterClient
    <3>2. /\ DOMAIN clients' \subseteq Users /\ clients' \in [DOMAIN clients' -> SUBSET Clients]
          /\ \A v \in Users : In(v)' = IF v = u THEN In(u) \ {c} ELSE In(v)
      <4>1. In(u) \ {c} \in SUBSET Clients
        BY <1>0, <2>2
      <4>2. CASE In(u) = {c}
        BY <1>0, <2>2, <3>1, <4>1, <4>2, MapWrites
      <4>3. CASE In(u) # {c}
        BY <1>0, <2>2, <3>1, <4>1, <4>3, MapWrites
      <4> QED
        BY <4>2, <4>3
    <3>3. \A s \in Senders :
            /\ sender'[s] \in SenderRow /\ sender'[s].pc = sender[s].pc
            /\ (sender'[s] = NotSending) = (sender[s] = NotSending)
            /\ sender[s] # NotSending => sender'[s].note = sender[s].note /\ sender'[s].to = sender[s].to
            /\ sender[s].pc \in Steps => /\ sender'[s].user = sender[s].user
                                        /\ sender'[s].seen = sender[s].seen
                                        /\ sender'[s].full = sender[s].full
      <4> TAKE s \in Senders
      <4> PICK r : r = sender[s]
        OBVIOUS
      <4>1. r \in SenderRow
        BY <1>0 DEF HubTypeOK, SenderRow
      <4>2. CASE r.pc \in {"len", "rlock", "lock"}
        <5>1. r \in Sending /\ [r EXCEPT !.dropped = TRUE] \in Sending
          BY <4>1, <4>2, SenderShape DEF Sending, Steps
        <5>2. sender'[s] = r \/ sender'[s] = [r EXCEPT !.dropped = TRUE]
          BY <3>1
        <5> QED
          BY <5>1, <5>2 DEF Sending, SenderRow, NotSending
      <4>3. CASE r.pc \notin {"len", "rlock", "lock"}
        <5>1. sender'[s] = r
          BY <3>1, <4>3
        <5> QED
          BY <4>1, <5>1
      <4> QED
        BY <4>2, <4>3
    <3>4. sender' \in [Senders -> SenderRow]
      BY <3>1, <3>3
    <3>5. HubTypeOK'
      BY <1>0, <2>1, <3>1, <3>2, <3>4 DEF HubTypeOK, SenderRow, links, histories
    <3>6. closed'[c] /\ \A d \in Clients \ {c} : closed'[d] = closed[d]
      BY <1>0, <2>2, <3>1 DEF HubTypeOK
    <3>7. Known(c) /\ \A v \in Users \ {u} : c \notin In(v)
      BY <1>0, <2>2, <2>7 DEF MapFits
    <3>8. MapFits'
      BY <1>0, <2>3, <2>5, <3>2, <3>6, <3>7 DEF MapFits
    <3>9. NotesDiffer'
      BY <3>3 DEF HubInv, NotesDiffer
    <3>10. PushedOnce'
      BY <2>1 DEF HubInv, PushedOnce, histories
    <3>11. ASSUME NEW s \in Senders
           PROVE  SenderFits(sender[s])'
      <4> PICK r : r = sender[s]
        OBVIOUS
      <4> PICK q : q = sender'[s]
        OBVIOUS
      <4>1. SenderFits(r)
        BY DEF HubInv
      <4>2. /\ q.pc = r.pc /\ (q = NotSending) = (r = NotSending)
            /\ r # NotSending => q.note = r.note /\ q.to = r.to
            /\ r.pc \in Steps => r # NotSending /\ q.user = r.user /\ q.seen = r.seen /\ q.full = r.full
        BY <3>3 DEF Steps, NotSending
      <4>3. SenderFits(q)
        BY <4>1, <4>2 DEF SenderFits, Steps
      <4>4. SenderFits(q)'
        BY <2>1, <2>5, <4>3 DEF SenderFits, histories
      <4> QED
        BY <4>4
    <3> QED
      BY <3>5, <3>8, <3>9, <3>10, <3>11 DEF HubInv
  <2> QED
    BY <2>6, <2>7
<1> QED
  BY <1>1, <1>2, <1>3, <1>4 DEF RunHub

LEMMA CloseStep ==
  ASSUME HubInv, NEW s \in Senders, CloseFull(s)
  PROVE  HubInv'
<1> PICK r : r = sender[s]
  OBVIOUS
<1> PICK c : c = r.full
  OBVIOUS
<1> PICK u : u = r.user
  OBVIOUS
<1>0. /\ HubTypeOK /\ MapFits /\ r.pc = "lock" /\ r \in SenderRow /\ SenderFits(r)
      /\ \A v \in Users : In(v) \subseteq Clients
  BY DEF HubInv, HubTypeOK, SenderRow, In, CloseFull
<1>1. /\ r \in Sending /\ r # NotSending /\ u \in Users
      /\ c \in Clients /\ UserOf[c] = u /\ Known(c)
  BY <1>0, SenderShape DEF Steps, SenderFits, NotSending
<1>2. UNCHANGED <<stored, hub, send, links, histories>>
  BY DEF CloseFull
<1>3. \A d \in Clients : Known(d) => Known(d)'
  BY <1>2 DEF Known, links
<1>4. CASE closed[c]
  <2>1. /\ broken' \in {"crashed", "stuck"} /\ sender' = [sender EXCEPT ![s] = NotSending]
        /\ UNCHANGED <<clients, closed>>
    BY <1>4 DEF CloseFull, SenderBecomes
  <2>2. /\ sender' \in [Senders -> SenderRow] /\ sender'[s] = NotSending
        /\ \A t \in Senders \ {s} : sender'[t] = sender[t]
    BY <1>0, <2>1 DEF HubTypeOK, SenderRow
  <2>3. HubTypeOK'
    BY <1>0, <1>2, <2>1, <2>2 DEF HubTypeOK, SenderRow, links, histories
  <2>4. MapFits'
    BY <1>2, <1>3, <2>1, MapStays DEF links
  <2>5. NotesDiffer' /\ PushedOnce'
    BY <1>2, <2>2 DEF HubInv, NotesDiffer, PushedOnce, histories
  <2>6. ASSUME NEW t \in Senders
        PROVE  SenderFits(sender[t])'
    <3>1. SenderFits(sender'[t])
      BY <2>2 DEF HubInv, SenderFits, NotSending, Steps
    <3> QED
      BY <1>2, <3>1 DEF SenderFits, Known, links, histories
  <2> QED
    BY <2>3, <2>4, <2>5, <2>6 DEF HubInv
<1>5. CASE ~closed[c]
  <2> PICK q : q = [r EXCEPT !.pc = "rlock", !.full = NoClient]
    OBVIOUS
  <2>1. /\ closed' = [closed EXCEPT ![c] = TRUE]
        /\ clients' = IF u \in DOMAIN clients THEN SetIn(u, In(u) \ {c}) ELSE clients
        /\ sender' = [sender EXCEPT ![s] = q] /\ UNCHANGED broken
    BY <1>5 DEF CloseFull, SenderBecomes
  <2>2. /\ q \in Sending /\ q # NotSending /\ q.pc = "rlock" /\ q.note = r.note /\ q.to = r.to
        /\ q.user = r.user /\ q.seen = r.seen
    BY <1>1 DEF Sending, NotSending
  <2>3. /\ sender' \in [Senders -> SenderRow] /\ sender'[s] = q
        /\ \A t \in Senders \ {s} : sender'[t] = sender[t]
    BY <1>0, <2>1, <2>2 DEF HubTypeOK, SenderRow
  <2>4. /\ DOMAIN clients' \subseteq Users /\ clients' \in [DOMAIN clients' -> SUBSET Clients]
        /\ \A v \in Users : In(v)' = IF v = u THEN In(u) \ {c} ELSE In(v)
    <3>1. In(u) \ {c} \in SUBSET Clients
      BY <1>0, <1>1
    <3>2. CASE u \in DOMAIN clients
      BY <1>0, <1>1, <2>1, <3>1, <3>2, MapWrites
    <3>3. CASE u \notin DOMAIN clients
      <4>1. clients' = clients /\ In(u) = {}
        BY <2>1, <3>3 DEF In
      <4> QED
        BY <1>0, <4>1 DEF HubTypeOK, In
    <3> QED
      BY <3>2, <3>3
  <2>5. HubTypeOK'
    BY <1>0, <1>1, <1>2, <2>1, <2>3, <2>4 DEF HubTypeOK, SenderRow, links, histories
  <2>6. closed'[c] /\ \A d \in Clients \ {c} : closed'[d] = closed[d]
    BY <1>0, <1>1, <2>1 DEF HubTypeOK
  <2>7. \A v \in Users \ {u} : c \notin In(v)
    BY <1>0, <1>1 DEF MapFits
  <2>8. hub.pc = "register" => reader'[hub'.client] \notin {"none", "register"}
    BY <1>0, <1>2 DEF MapFits, links
  <2>9. MapFits'
    BY <1>0, <1>1, <1>2, <1>3, <2>4, <2>6, <2>7, <2>8 DEF MapFits
  <2>10. NotesDiffer'
    <3>1. /\ \A t \in Senders \ {s} : sender'[t] # NotSending => sender'[t].note # sender'[s].note
          /\ \A t, v \in Senders \ {s} :
               sender'[t] # NotSending /\ sender'[v] # NotSending /\ sender'[t].note = sender'[v].note
               => t = v
      BY <1>1, <2>2, <2>3 DEF HubInv, NotesDiffer
    <3> QED
      BY <3>1 DEF NotesDiffer
  <2>11. PushedOnce'
    BY <1>2 DEF HubInv, PushedOnce, histories
  <2>12. ASSUME NEW t \in Senders
         PROVE  SenderFits(sender[t])'
    <3>1. SenderFits(q)
      BY <1>0, <1>1, <2>2 DEF SenderFits, Steps
    <3>2. SenderFits(sender'[t])
      BY <2>3, <3>1 DEF HubInv
    <3> QED
      BY <1>2, <3>2 DEF SenderFits, Known, links, histories
  <2> QED
    BY <2>5, <2>9, <2>10, <2>11, <2>12 DEF HubInv
<1> QED
  BY <1>4, <1>5

LEMMA ConnectionSteps ==
  ASSUME HubInv, NEW c \in Clients, HandleConnection(c) \/ Disconnect(c) \/ HandlePing(c) \/ Pumps(c)
  PROVE  HubInv'
<1>0. /\ HubTypeOK /\ MapFits /\ Cap \in Nat
      /\ hub = Select \/ (hub.pc \in {"register", "unregister"} /\ hub.client \in Clients)
  BY HubAssumption DEF HubInv, HubTypeOK, Select
<1>1. UNCHANGED <<stored, clients, hub, closed, histories, sender>>
  BY DEF HandleConnection, Disconnect, HandlePing, Pumps, ReadError, WriteMessages, EndWriter, links
<1>2. /\ conn' \in [Clients -> BOOLEAN]
      /\ reader' \in [Clients -> {"none", "register", "reads", "unregister", "off"}]
      /\ writer' \in [Clients -> {"none", "writes", "off"}]
      /\ \A d \in Clients : reader[d] \notin {"none", "register"} => reader'[d] \notin {"none", "register"}
  <2>1. /\ UNCHANGED conn \/ \E b \in BOOLEAN : conn' = [conn EXCEPT ![c] = b]
        /\ UNCHANGED writer \/ writer' = [writer EXCEPT ![c] = "off"]
        /\ \/ UNCHANGED reader
           \/ reader[c] = "none" /\ reader' = [reader EXCEPT ![c] = "register"]
           \/ reader[c] = "reads" /\ reader' = [reader EXCEPT ![c] = "unregister"]
    BY DEF HandleConnection, Disconnect, HandlePing, Pumps, ReadError, WriteMessages, EndWriter, links
  <2> QED
    BY <1>0, <2>1 DEF HubTypeOK
<1>3. send' \in [Clients -> 0..Cap] /\ broken' \in {"no", "stuck", "crashed"}
  <2>1. CASE HandlePing(c)
    <3>1. send[c] \in 0..Cap /\ (Room(c) => send[c] < Cap)
      BY <1>0 DEF HubTypeOK, Room
    <3>2. Room(c) => send[c] + 1 \in 0..Cap
      BY <1>0, <3>1
    <3>3. broken' \in {"no", "stuck", "crashed"}
      BY <1>0, <2>1 DEF HandlePing, HubTypeOK
    <3> QED
      BY <1>0, <2>1, <3>2, <3>3 DEF HandlePing, HubTypeOK, Put
  <2>2. CASE ~HandlePing(c)
    <3>1. UNCHANGED broken /\ (UNCHANGED send \/ send' = [send EXCEPT ![c] = 0])
      BY <2>2 DEF HandleConnection, Disconnect, Pumps, ReadError, WriteMessages, EndWriter
    <3> QED
      BY <1>0, <3>1 DEF HubTypeOK
  <2> QED
    BY <2>1, <2>2
<1>4. HubTypeOK'
  BY <1>0, <1>1, <1>2, <1>3 DEF HubTypeOK, histories
<1>5. \A d \in Clients : Known(d) => Known(d)'
  BY <1>1, <1>2 DEF Known
<1>6. MapFits'
  BY <1>0, <1>1, <1>2, <1>5, MapStays DEF Select
<1> QED
  BY <1>1, <1>4, <1>5, <1>6, OtherStep

LEMMA HubStays == HubInv /\ UNCHANGED hubVars => HubInv'
<1> SUFFICES ASSUME HubInv, UNCHANGED hubVars
             PROVE  HubInv'
  OBVIOUS
<1>1. HubTypeOK' /\ UNCHANGED <<stored, histories, sender, clients, hub, closed, reader>>
  BY DEF hubVars, HubInv, HubTypeOK, links, histories
<1>2. \A d \in Clients : Known(d) => Known(d)'
  BY <1>1 DEF Known
<1>3. MapFits'
  BY <1>1, <1>2, MapStays
<1> QED
  BY <1>1, <1>2, <1>3, OtherStep

LEMMA HubStep == HubInv /\ [HubNext]_hubVars => HubInv'
<1> SUFFICES ASSUME HubInv, [HubNext]_hubVars
             PROVE  HubInv'
  OBVIOUS
<1>1. CASE \E s \in Senders, n \in Notes, us \in (SUBSET Users) \ {{}}, alone \in BOOLEAN :
             SendNotificationToUsers(s, n, us, alone)
  BY <1>1, StoreStep
<1>2. CASE RunHub
  BY <1>2, RunHubSteps
<1>3. ASSUME NEW s \in Senders, SendToUser(s)
      PROVE  HubInv'
  <2>1. CASE \E c \in Clients : Offer(s, c)
    BY <2>1, OfferSteps
  <2>2. CASE CloseFull(s)
    BY <2>2, CloseStep
  <2> QED
    BY <1>3, <2>1, <2>2, SendingSteps
<1>4. CASE \E c \in Clients : HandleConnection(c) \/ Disconnect(c) \/ HandlePing(c) \/ Pumps(c)
  BY <1>4, ConnectionSteps
<1>5. CASE UNCHANGED hubVars
  BY <1>5, HubStays
<1> QED
  BY <1>1, <1>2, <1>3, <1>4, <1>5 DEF HubNext

THEOREM HubInductive == HubSafety => []HubInv
<1> QED
  BY HubInitOk, HubStep, PTL DEF HubSafety

(* However the hub, the senders and the pumps of all connections interleave *)
(* and whatever panics: a channel is closed only as it leaves the map.      *)
THEOREM MapAlwaysHoldsOpen == HubSafety => []MapHoldsOpen
<1>1. HubInv => MapHoldsOpen
  BY DEF HubInv, MapFits, MapHoldsOpen
<1> QED
  BY HubInductive, <1>1, PTL

(* A connection gets a note once, after it was stored, although SendToUser  *)
(* lets go of the lock inside its range.                                    *)
THEOREM NotesPushedOnce == HubSafety => []PushedOnce
<1>1. HubInv => PushedOnce
  BY DEF HubInv
<1> QED
  BY HubInductive, <1>1, PTL
================================================================================
