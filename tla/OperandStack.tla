---------------------------- MODULE OperandStack ----------------------------
(***************************************************************************)
(* What the operand stack of a stack machine promises: a step takes some   *)
(* operands off the top and puts at most one result there.  Whatever lies  *)
(* below the operands of a step is neither moved nor changed by it.        *)
(***************************************************************************)
EXTENDS Naturals, Sequences

VARIABLE stack

Init == stack = <<>>

\* What is left when n operands are taken.
Below(n) == SubSeq(stack, 1, Len(stack) - n)

Consume(n) == stack' = Below(n)

Replace(n) == stack' # <<>> /\ SubSeq(stack', 1, Len(stack') - 1) = Below(n)

Next == \E n \in 0..Len(stack) : Consume(n) \/ Replace(n)

Spec == Init /\ [][Next]_stack
=============================================================================
