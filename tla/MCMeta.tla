------------------------------- MODULE MCMeta -------------------------------
\* Instances of Meta: a function of two arguments and one of one, an
\* instruction, and a constant.
EXTENDS Meta

CONSTANTS f, g

MCArity == [fn \in Functions |-> IF fn = f THEN 2 ELSE 1]
=============================================================================
