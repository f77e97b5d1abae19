---------------------------- MODULE BimapLemmas ----------------------------
(***************************************************************************)
(* What the operations of Bimap preserve, for every pair of key sets.      *)
(***************************************************************************)
EXTENDS Bimap, TLAPS

\* An insert keeps the two maps total functions over the same keys.
LEMMA InsertedType ==
  ASSUME NEW A, NEW B, NEW m \in Bimaps(A, B), NEW a \in A, NEW b \in B
  PROVE  Inserted(m, a, b) \in Bimaps(A, B)
BY DEF Bimaps, Inserted, Emplaced, Dropped

\* An erase keeps the two maps total functions over the same keys.
LEMMA ErasedType ==
  ASSUME NEW A, NEW B, NEW m \in Bimaps(A, B), NEW a \in A, NEW b \in B
  PROVE  Erased(m, a, b) \in Bimaps(A, B)
BY DEF Bimaps, Erased, Dropped

\* The rollback (bimap.hpp:96-102) makes insert all or nothing: it adds the
\* pair on both sides when both keys are unused, and changes nothing else.
LEMMA InsertedAllOrNothing ==
  ASSUME NEW A, NEW B, NEW m \in Bimaps(A, B), NEW a \in A, NEW b \in B
  PROVE  Inserted(m, a, b) =
           IF m.left[a] = Absent /\ m.right[b] = Absent
           THEN [left  |-> [m.left EXCEPT ![a] = b],
                 right |-> [m.right EXCEPT ![b] = a]]
           ELSE m
<1>1. m = [left |-> m.left, right |-> m.right]
  BY DEF Bimaps
<1>2. m.left \in [A -> B \cup {Absent}] /\ m.right \in [B -> A \cup {Absent}]
  BY DEF Bimaps
<1>3. CASE m.left[a] = Absent /\ m.right[b] = Absent
  BY <1>2, <1>3 DEF Inserted, Emplaced
<1>4. CASE m.left[a] # Absent /\ m.right[b] # Absent
  BY <1>1, <1>4 DEF Inserted, Emplaced
<1>5. CASE m.left[a] = Absent /\ m.right[b] # Absent
  <2>1. [[m.left EXCEPT ![a] = b] EXCEPT ![a] = Absent] = m.left
    BY <1>2, <1>5
  <2>2. QED BY <1>1, <1>5, <2>1 DEF Inserted, Emplaced, Dropped
<1>6. CASE m.left[a] # Absent /\ m.right[b] = Absent
  <2>1. [[m.right EXCEPT ![b] = a] EXCEPT ![b] = Absent] = m.right
    BY <1>2, <1>6
  <2>2. QED BY <1>1, <1>6, <2>1 DEF Inserted, Emplaced, Dropped
<1>7. QED BY <1>3, <1>4, <1>5, <1>6

\* Insert keeps the two maps each other's inverse, whatever it is given.
LEMMA InsertedMirror ==
  ASSUME NEW A, NEW B, Absent \notin A \cup B,
         NEW m \in Bimaps(A, B), Mirror(m), NEW a \in A, NEW b \in B
  PROVE  Mirror(Inserted(m, a, b))
<1>1. m.left \in [A -> B \cup {Absent}] /\ m.right \in [B -> A \cup {Absent}]
  BY DEF Bimaps
<1>2. \A x \in A, y \in B : m.left[x] = y <=> m.right[y] = x
  BY <1>1 DEF Mirror
<1>3. CASE m.left[a] = Absent /\ m.right[b] = Absent
  <2> DEFINE l == [m.left EXCEPT ![a] = b]
             r == [m.right EXCEPT ![b] = a]
  <2>1. Inserted(m, a, b) = [left |-> l, right |-> r]
    BY <1>3, InsertedAllOrNothing
  <2>2. \A x \in A, y \in B : l[x] = y <=> r[y] = x
    BY <1>1, <1>2, <1>3
  <2>3. DOMAIN l = A /\ DOMAIN r = B
    BY <1>1
  <2>4. QED BY <2>1, <2>2, <2>3 DEF Mirror
<1>4. CASE ~(m.left[a] = Absent /\ m.right[b] = Absent)
  BY <1>4, InsertedAllOrNothing
<1>5. QED BY <1>3, <1>4

\* An erase keeps them inverse when its keys are not held by two pairs.
LEMMA ErasedMirror ==
  ASSUME NEW A, NEW B, Absent \notin A \cup B,
         NEW m \in Bimaps(A, B), Mirror(m), NEW a \in A, NEW b \in B,
         m.left[a] = b \/ m.left[a] = Absent \/ m.right[b] = Absent
  PROVE  Mirror(Erased(m, a, b))
<1>1. m.left \in [A -> B \cup {Absent}] /\ m.right \in [B -> A \cup {Absent}]
  BY DEF Bimaps
<1>2. \A x \in A, y \in B : m.left[x] = y <=> m.right[y] = x
  BY <1>1 DEF Mirror
<1>3. CASE m.left[a] = b
  <2> DEFINE l == [m.left EXCEPT ![a] = Absent]
             r == [m.right EXCEPT ![b] = Absent]
  <2>1. Erased(m, a, b) = [left |-> l, right |-> r]
    BY <1>2, <1>3 DEF Erased, Dropped
  <2>2. \A x \in A, y \in B : l[x] = y <=> r[y] = x
    BY <1>1, <1>2, <1>3
  <2>3. DOMAIN l = A /\ DOMAIN r = B
    BY <1>1
  <2>4. QED BY <2>1, <2>2, <2>3 DEF Mirror
<1>4. CASE m.left[a] = Absent \/ m.right[b] = Absent
  BY <1>4 DEF Erased
<1>5. QED BY <1>3, <1>4
=============================================================================
