--------------------------- MODULE MCStackBuilder ---------------------------
(***************************************************************************)
(* Instances of StackBuilder.  The constants that are functions are        *)
(* defined here, the sets and the bounds in each cfg.                      *)
(***************************************************************************)
EXTENDS StackBuilder, TLC

CONSTANTS f1, f2, i8, ptr, void

\* f1 returns nothing and takes nothing; f2 takes a pointer and an integer.
MCSignature ==
  [f \in Functions |->
     IF f = f1 THEN [ret |-> void, params |-> <<>>]
     ELSE [ret |-> i8, params |-> <<ptr, i8>>]]

BlockSymmetry == Permutations(Blocks \ Foreign)
=============================================================================
