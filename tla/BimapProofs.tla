---------------------------- MODULE BimapProofs ----------------------------
(***************************************************************************)
(* The bimap keeps its types and its bijection, and implements Bijection,  *)
(* for every pair of key sets.                                             *)
(***************************************************************************)
EXTENDS BimapClient, BimapLemmas

\* Every call, an unpaired erase included, leaves two maps over the keys.
THEOREM TypeCorrect == Spec => []TypeOK
<1>1. Init => TypeOK
  BY DEF Init, TypeOK, Bimaps, EmptyBimap
<1>2. TypeOK /\ [Next]_vars => TypeOK'
  <2> SUFFICES ASSUME TypeOK, [Next]_vars PROVE TypeOK'
    OBVIOUS
  <2>1. ASSUME NEW a \in A, NEW b \in B, Insert(a, b) PROVE TypeOK'
    BY <2>1, InsertedType DEF TypeOK, Insert, InsertOutcome, Outcomes
  <2>2. ASSUME NEW a \in A, NEW b \in B, Erase(a, b) PROVE TypeOK'
    BY <2>2, ErasedType DEF TypeOK, Erase, Outcomes
  <2>3. CASE UNCHANGED vars
    BY <2>3 DEF vars, TypeOK
  <2>4. QED BY <2>1, <2>2, <2>3 DEF Next
<1>3. QED BY <1>1, <1>2, PTL DEF Spec

\* The bijection with the types it needs: the inductive invariant.
IInv == TypeOK /\ BothWays

LEMMA IInvInit == Init => IInv
BY KeysAssumption
DEF Init, IInv, TypeOK, BothWays, Bimaps, EmptyBimap, Mirror

LEMMA IInvStep == IInv /\ [PairedNext]_vars => IInv'
<1> SUFFICES ASSUME IInv, [PairedNext]_vars PROVE IInv'
  OBVIOUS
<1> USE KeysAssumption DEF IInv, TypeOK, BothWays
<1>1. ASSUME NEW a \in A, NEW b \in B, Insert(a, b) PROVE IInv'
  <2>1. map' = Inserted(map, a, b)
    BY <1>1 DEF Insert
  <2>2. map' \in Bimaps(A, B) /\ Mirror(map')
    BY <2>1, InsertedType, InsertedMirror
  <2>3. QED BY <1>1, <2>2 DEF Insert, InsertOutcome, Outcomes
<1>2. ASSUME NEW a \in A, NEW b \in B, ErasePaired(a, b) PROVE IInv'
  <2>1. map' = Erased(map, a, b)
    BY <1>2 DEF ErasePaired, Erase
  <2>2. map' \in Bimaps(A, B) /\ Mirror(map')
    BY <1>2, <2>1, ErasedType, ErasedMirror DEF ErasePaired
  <2>3. QED BY <1>2, <2>2 DEF ErasePaired, Erase, Outcomes
<1>3. CASE UNCHANGED vars
  BY <1>3 DEF vars
<1>4. QED BY <1>1, <1>2, <1>3 DEF PairedNext

\* As long as only held pairs are erased, what one direction of the map
\* finds the other finds back.
THEOREM StaysBijection == PairedSpec => []BothWays
<1>1. IInv => BothWays
  BY DEF IInv
<1>2. QED BY <1>1, IInvInit, IInvStep, PTL DEF PairedSpec

\* As long as only held pairs are erased, what insert and erase report is
\* true of the maps they leave.
THEOREM ReportsAreTrue == PairedSpec => []OutcomeTold
<1>1. Init => OutcomeTold
  BY DEF Init, OutcomeTold
<1>2. IInv /\ OutcomeTold /\ [PairedNext]_vars => OutcomeTold'
  <2> SUFFICES ASSUME IInv, OutcomeTold, [PairedNext]_vars PROVE OutcomeTold'
    OBVIOUS
  <2> USE KeysAssumption
  <2>1. /\ map.left \in [A -> B \cup {Absent}] /\ map.right \in [B -> A \cup {Absent}]
        /\ Mirror(map)
    BY DEF IInv, TypeOK, BothWays, Bimaps
  <2>2. ASSUME NEW a \in A, NEW b \in B, Insert(a, b) PROVE OutcomeTold'
    <3>1. map' = Inserted(map, a, b) /\ call' = [a |-> a, b |-> b, outcome |-> InsertOutcome(map, a, b)]
      BY <2>2 DEF Insert
    <3> QED BY <2>1, <3>1
            DEF OutcomeTold, InsertOutcome, InsertThrows, Inserted, Emplaced, Dropped
  <2>3. ASSUME NEW a \in A, NEW b \in B, ErasePaired(a, b) PROVE OutcomeTold'
    <3>1. map' = Erased(map, a, b) /\ call' = [a |-> a, b |-> b, outcome |-> "erased"]
      BY <2>3 DEF ErasePaired, Erase
    <3>2. map'.left[a] # b /\ map'.right[b] # a
      BY <2>1, <2>3, <3>1 DEF ErasePaired, Erased, Dropped, Mirror
    <3> QED BY <3>1, <3>2 DEF OutcomeTold
  <2>4. CASE UNCHANGED vars
    BY <2>4 DEF vars, OutcomeTold
  <2> QED BY <2>2, <2>3, <2>4 DEF PairedNext
<1> QED BY <1>1, <1>2, IInvInit, IInvStep, PTL DEF PairedSpec

(***************************************************************************)
(* Refinement.  The pairs of the abstract bijection are read off the left  *)
(* map; that the right map agrees is what makes "unused" mean the same in  *)
(* both.                                                                   *)
(***************************************************************************)
Pairs == {<<a, map.left[a]>> : a \in {x \in A : map.left[x] # Absent}}

\* Of a call that stores a pair of two unused keys, the abstraction adds it.
LEMMA InsertIsAdd ==
  ASSUME IInv, NEW a \in A, NEW b \in B, Insert(a, b)
  PROVE  Abstract!Add(a, b) \/ Pairs' = Pairs
<1> USE KeysAssumption DEF IInv, TypeOK, BothWays
<1>1. map.left \in [A -> B \cup {Absent}] /\ map.right \in [B -> A \cup {Absent}]
  BY DEF Bimaps
<1>2. map' = Inserted(map, a, b)
  BY DEF Insert
<1>3. CASE map.left[a] = Absent /\ map.right[b] = Absent
  <2>1. map'.left = [map.left EXCEPT ![a] = b]
    BY <1>2, <1>3, InsertedAllOrNothing
  <2>2. \A x \in A : map.left[x] # b
    BY <1>1, <1>3 DEF Mirror
  <2>3. Abstract!Unused(a, b)
    BY <1>3, <2>2 DEF Abstract!Unused
  <2>4. Pairs' = Pairs \cup {<<a, b>>}
    BY <1>1, <1>3, <2>1 DEF Pairs
  <2>5. QED BY <2>3, <2>4 DEF Abstract!Add, Pairs
<1>4. CASE ~(map.left[a] = Absent /\ map.right[b] = Absent)
  BY <1>2, <1>4, InsertedAllOrNothing DEF Pairs
<1>5. QED BY <1>3, <1>4

\* A paired erase removes its pair or changes nothing.
LEMMA EraseIsRemove ==
  ASSUME IInv, NEW a \in A, NEW b \in B, ErasePaired(a, b)
  PROVE  Abstract!Remove(a, b) \/ Pairs' = Pairs
<1> USE KeysAssumption DEF IInv, TypeOK, BothWays
<1>1. map.left \in [A -> B \cup {Absent}] /\ map.right \in [B -> A \cup {Absent}]
  BY DEF Bimaps
<1>2. map' = Erased(map, a, b)
  BY DEF ErasePaired, Erase
<1>3. CASE map.left[a] = b
  <2>1. map'.left = [map.left EXCEPT ![a] = Absent]
    BY <1>1, <1>2, <1>3 DEF Erased, Dropped, Mirror
  <2>2. <<a, b>> \in Pairs /\ Pairs' = Pairs \ {<<a, b>>}
    BY <1>1, <1>3, <2>1 DEF Pairs
  <2>3. QED BY <2>2 DEF Abstract!Remove, Pairs
<1>4. CASE map.left[a] = Absent \/ map.right[b] = Absent
  BY <1>2, <1>4 DEF Erased, Pairs
<1>5. QED BY <1>3, <1>4 DEF ErasePaired

\* The bimap, erasing only held pairs, implements the abstract bijection.
THEOREM Refinement == PairedSpec => ImplementsBijection
<1>1. Init => Abstract!Init
  BY DEF Init, Abstract!Init, EmptyBimap
<1>2. IInv /\ [PairedNext]_vars => [Abstract!Next]_(Pairs)
  <2> SUFFICES ASSUME IInv, [PairedNext]_vars PROVE [Abstract!Next]_(Pairs)
    OBVIOUS
  <2>1. ASSUME NEW a \in A, NEW b \in B, Insert(a, b)
        PROVE  [Abstract!Next]_(Pairs)
    BY <2>1, InsertIsAdd DEF Abstract!Next
  <2>2. ASSUME NEW a \in A, NEW b \in B, ErasePaired(a, b)
        PROVE  [Abstract!Next]_(Pairs)
    BY <2>2, EraseIsRemove DEF Abstract!Next
  <2>3. CASE UNCHANGED vars
    BY <2>3 DEF vars, Pairs
  <2>4. QED BY <2>1, <2>2, <2>3 DEF PairedNext
<1>3. QED
  BY <1>1, <1>2, IInvInit, IInvStep, PTL
  DEF PairedSpec, ImplementsBijection, Abstract!Spec, Pairs
=============================================================================
