---------------------------- MODULE BimapClient ----------------------------
(***************************************************************************)
(* A bimap under arbitrary calls of its public interface.  Both of its     *)
(* non-default constructors are sequences of inserts from the empty map,   *)
(* so Init is the default constructor.                                     *)
(***************************************************************************)
EXTENDS Bimap

CONSTANTS A, B   \* the two key types

ASSUME KeysAssumption == Absent \notin A \cup B

VARIABLES map,   \* the two std::maps
          call   \* the last call: its arguments and its outcome

vars == <<map, call>>

Outcomes == {"inserted", "present", "threw", "erased"}

TypeOK ==
  /\ map \in Bimaps(A, B)
  /\ call \in [a : A, b : B, outcome : Outcomes] \cup {Absent}

Init ==
  /\ map = EmptyBimap(A, B)
  /\ call = Absent

Insert(a, b) ==
  /\ map' = Inserted(map, a, b)
  /\ call' = [a |-> a, b |-> b, outcome |-> InsertOutcome(map, a, b)]

Erase(a, b) ==
  /\ map' = Erased(map, a, b)
  /\ call' = [a |-> a, b |-> b, outcome |-> "erased"]

Next == \E a \in A, b \in B : Insert(a, b) \/ Erase(a, b)

Spec == Init /\ [][Next]_vars

\* A client that erases no pair of two keys held with other partners.
ErasePaired(a, b) ==
  /\ map.left[a] = b \/ map.left[a] = Absent \/ map.right[b] = Absent
  /\ Erase(a, b)

PairedNext == \E a \in A, b \in B : Insert(a, b) \/ ErasePaired(a, b)

PairedSpec == Init /\ [][PairedNext]_vars
-----------------------------------------------------------------------------
\* The two maps are each other's inverse: what one direction finds, the
\* other direction finds back (operator[] both ways, bimap.hpp:31-32).
BothWays == Mirror(map)

\* What a call reports is true of the maps it leaves: a pair reported inserted
\* is found both ways; after "false" both keys are held, though not always by
\* each other; after a throw exactly one of them is; an erased pair is gone
\* (bimap.hpp:92-114).
OutcomeTold ==
  call # Absent => LET heldA == map.left[call.a] # Absent
                       heldB == map.right[call.b] # Absent IN
    /\ call.outcome = "inserted" => map.left[call.a] = call.b /\ map.right[call.b] = call.a
    /\ call.outcome = "present" => heldA /\ heldB
    /\ call.outcome = "threw" => heldA # heldB
    /\ call.outcome = "erased" => map.left[call.a] # call.b /\ map.right[call.b] # call.a

\* The bimap implements the abstract bijection: no call but an insert of two
\* unused keys or an erase of a held pair changes the set of its pairs, and
\* a refused insert is rolled back completely (bimap.hpp:92-114).
Abstract == INSTANCE Bijection
              WITH pairs <- {<<a, map.left[a]>> : a \in {x \in A : map.left[x] # Absent}}

ImplementsBijection == Abstract!Spec
=============================================================================
