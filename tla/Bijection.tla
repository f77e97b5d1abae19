----------------------------- MODULE Bijection -----------------------------
(***************************************************************************)
(* What a bidirectional map promises: a set of pairs in which no left and  *)
(* no right key occurs twice, that grows by a pair of two unused keys and  *)
(* shrinks by a pair it holds; or that only grows.                         *)
(***************************************************************************)
CONSTANTS A, B
VARIABLE pairs

Unused(a, b) == \A p \in pairs : p[1] # a /\ p[2] # b

Init == pairs = {}

Add(a, b) == Unused(a, b) /\ pairs' = pairs \cup {<<a, b>>}

Remove(a, b) == <<a, b>> \in pairs /\ pairs' = pairs \ {<<a, b>>}

Next == \E a \in A, b \in B : Add(a, b) \/ Remove(a, b)

Spec == Init /\ [][Next]_pairs

Grow == \E a \in A, b \in B : Add(a, b)

\* No pair is ever lost.
GrowingSpec == Init /\ [][Grow]_pairs
=============================================================================
