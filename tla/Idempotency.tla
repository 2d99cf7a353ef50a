----------------------------- MODULE Idempotency -----------------------------
(***************************************************************************)
(* The store of idempotency keys of one tenant:                             *)
(*   internal/pkg/idempotency/store.go                                      *)
(***************************************************************************)
CONSTANT Keys

VARIABLE value      \* value[k]: what Redis holds under k

Values == {"none", "processing", "response"}

StoreInit == value = [k \in Keys |-> "none"]

Set(k, v) == value' = [value EXCEPT ![k] = v]

(* Get returns nil for a key that is not there and for one in progress.     *)
Stored(k) == value[k] = "response"

(* SET NX: taken is whether the key was free. *)
MutantTryAcquire(k, taken) == taken /\ Set(k, "processing") \* without NX
TryAcquire(k, taken) ==
    /\ taken = (value[k] = "none")
    /\ IF taken THEN Set(k, "processing") ELSE UNCHANGED value

Store(k) == Set(k, "response")
Delete(k) == Set(k, "none")

(* KeyTTL. *)
Expire(k) == value[k] # "none" /\ Set(k, "none")

StoreTypeOK == value \in [Keys -> Values]
==============================================================================
