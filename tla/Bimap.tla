------------------------------- MODULE Bimap -------------------------------
(***************************************************************************)
(* The operations of sc::adt::bimap (include/sc/bimap.hpp), as operators   *)
(* on a record of its two std::maps.  A map is a total function on the     *)
(* keys; the keys it does not hold are mapped to Absent.                   *)
(***************************************************************************)
EXTENDS FiniteSets

CONSTANT Absent   \* what find() finds when it returns end()

\* The bimaps over the key sets A and B, consistent or not.
Bimaps(A, B) == [left : [A -> B \cup {Absent}], right : [B -> A \cup {Absent}]]

EmptyBimap(A, B) == [left |-> [a \in A |-> Absent], right |-> [b \in B |-> Absent]]

\* std::map::insert: a key that is held keeps its value.
Emplaced(m, k, v) == IF m[k] = Absent THEN [m EXCEPT ![k] = v] ELSE m

Dropped(m, k) == [m EXCEPT ![k] = Absent]

\* Mutant of Inserted: no rollback of the losing side.
InsertedNoRollback(m, a, b) ==
  [left |-> Emplaced(m.left, a, b), right |-> Emplaced(m.right, b, a)]

\* Mutant of Inserted: the newer pair replaces the one that was held.
InsertedReplacing(m, a, b) ==
  [left  |-> [x \in DOMAIN m.left  |-> IF x = a THEN b
              ELSE IF m.left[x] = b THEN Absent ELSE m.left[x]],
   right |-> [y \in DOMAIN m.right |-> IF y = b THEN a
              ELSE IF m.right[y] = a THEN Absent ELSE m.right[y]]]

\* Mutant of Inserted: the rollback erases both keys, whichever was new.
InsertedErasingBoth(m, a, b) ==
  IF (m.left[a] = Absent) # (m.right[b] = Absent)
  THEN [left |-> Dropped(m.left, a), right |-> Dropped(m.right, b)]
  ELSE InsertedNoRollback(m, a, b)

(***************************************************************************)
(* insert: both sides are inserted into; when only one of them took the    *)
(* pair, that side is rolled back and the call throws.                     *)
(***************************************************************************)
Inserted(m, a, b) ==
  LET newLeft  == m.left[a] = Absent
      newRight == m.right[b] = Absent
      left     == Emplaced(m.left, a, b)
      right    == Emplaced(m.right, b, a)
  IN  [left  |-> IF newLeft /\ ~newRight THEN Dropped(left, a) ELSE left,
       right |-> IF newRight /\ ~newLeft THEN Dropped(right, b) ELSE right]

InsertThrows(m, a, b) == (m.left[a] = Absent) # (m.right[b] = Absent)

\* What insert answers: it returns l.second unless it throws.
InsertOutcome(m, a, b) ==
  IF InsertThrows(m, a, b) THEN "threw"
  ELSE IF m.left[a] = Absent THEN "inserted" ELSE "present"

(***************************************************************************)
(* erase: looks both keys up, and drops both when both are held; whether   *)
(* they are held as one pair is not looked at.                             *)
(***************************************************************************)
Erased(m, a, b) ==
  IF m.left[a] # Absent /\ m.right[b] # Absent
  THEN [left |-> Dropped(m.left, a), right |-> Dropped(m.right, b)]
  ELSE m

\* Each map is the inverse of the other: together they are a bijection.
Mirror(m) ==
  \A a \in DOMAIN m.left, b \in DOMAIN m.right :
    m.left[a] = b <=> m.right[b] = a
=============================================================================
