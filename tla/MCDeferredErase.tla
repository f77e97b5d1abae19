-------------------------- MODULE MCDeferredErase --------------------------
\* Instances of DeferredErase.
EXTENDS DeferredErase, TLC

InstructionSymmetry == Permutations(Instructions) \cup Permutations(Vectors)
=============================================================================
