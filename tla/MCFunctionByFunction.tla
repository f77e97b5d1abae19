------------------------ MODULE MCFunctionByFunction ------------------------
\* Instances of FunctionByFunction; the constants as in MCStackBuilder.
EXTENDS FunctionByFunction, TLC

CONSTANTS f1, f2, i8, void

\* f1 returns nothing and takes nothing; f2 takes a value and returns one.
MCSignature ==
  [f \in Functions |->
     IF f = f1 THEN [ret |-> void, params |-> <<>>]
     ELSE [ret |-> i8, params |-> <<i8>>]]

BlockSymmetry == Permutations(Blocks \ Foreign)
=============================================================================
