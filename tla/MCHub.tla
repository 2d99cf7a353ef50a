-------------------------------- MODULE MCHub --------------------------------
(***************************************************************************)
(* Instances of Hub for TLC. *)
(***************************************************************************)
EXTENDS Hub, TLC

CONSTANTS u1, c1, c2, s1, s2, n1, n2

OneUser == {u1}
OneClient == {c1}
TwoClients == {c1, c2}
(* All the connections are of one user. *)
OfOne == [c \in OneClient |-> u1]
OfTwo == [c \in TwoClients |-> u1]
TwoSenders == {s1, s2}
TwoNotes == {n1, n2}

(* Interchangeable in every invariant; not used with liveness.              *)
Symmetry ==
    Permutations(TwoClients) \cup Permutations(TwoSenders) \cup Permutations(TwoNotes)
==============================================================================
