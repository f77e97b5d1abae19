------------------------- MODULE FunctionByFunction -------------------------
(***************************************************************************)
(* A client that builds one function after the other.  The stack_builder   *)
(* keeps one operand stack and one table of variables for all functions,   *)
(* clears neither, and goes on inserting into the old function until the   *)
(* new one has a block; this client is the contract under which the IR it  *)
(* builds is well formed all the same:                                     *)
(*   - it opens a function with no operand left, and makes a block in it   *)
(*     before anything else;                                               *)
(*   - it makes blocks in functions it opened only, and goes back to       *)
(*     blocks of the last one only;                                        *)
(*   - it loads variables it allocated in the function it is in.           *)
(***************************************************************************)
EXTENDS StackBuilder

VARIABLES
  opening,   \* the last function opened has no block yet
  own        \* the names allocated since it was opened

client == <<opening, own>>

ClientInit == Init /\ opening = FALSE /\ own = {}

Unknown == {n \in Names : vars[n] = Absent}

Work ==
  /\ ~opening
  /\ \/ ValueNext(own \cup Unknown)
     \/ StackNext
     \/ \E m \in Modules : Module(m)
  /\ own' = own \cup {n \in Names : Alloc(n)}
  /\ UNCHANGED opening

Open ==
  /\ ~opening
  /\ stack = <<>>
  /\ FunctionNext
  /\ opening' = TRUE
  /\ own' = {}

NewBlock(name) ==
  /\ functions # <<>>
  /\ CreateBlock(name)
  /\ opening' = (opening /\ status' = "threw")
  /\ UNCHANGED own

GoTo(name) ==
  /\ ~opening
  /\ blocks.left[name] # Absent => owner[blocks.left[name]] = Newest
  /\ functions # <<>>
  /\ SetBlock(name)
  /\ UNCHANGED client

ClientNext ==
  /\ status # "aborted"
  /\ \/ Work
     \/ Open
     \/ RegisterNext /\ UNCHANGED client
     \/ \E name \in Names : NewBlock(name) \/ GoTo(name)

ClientSpec == ClientInit /\ [][ClientNext]_<<all, client>>
-----------------------------------------------------------------------------
ClientTypeOK == TypeOK /\ opening \in BOOLEAN /\ own \subseteq Names

\* An instruction uses constants and values of its own function only, though
\* neither the stack nor the variables are ever cleared
\* (builder.hpp:453-469, 588-629).
OperandsLocal ==
  \A k \in DOMAIN emitted : \A i \in DOMAIN emitted[k].args :
    LET v == emitted[k].args[i] IN IsLiteral(v) \/ v.fn = Here

\* A ret returns a value exactly if the function it is inserted into does,
\* though apply( ret ) asks the last function opened (builder.hpp:575-586).
RetFits ==
  \A k \in DOMAIN emitted :
    emitted[k].op = "ret" /\ Here # None =>
      (emitted[k].args = <<>> <=> Signature[Here].ret = Void)
-----------------------------------------------------------------------------
(* The inductive invariant: what the two properties above rest on. *)

\* Once the last function opened has a block, the builder inserts into it.
InLast == functions # <<>> /\ ~opening => Here = Newest

\* Until then there is neither an operand nor a variable to load.
Emptied == opening => stack = <<>> /\ own = {}

Local(v) == IsLiteral(v) \/ v.fn = Here

\* Nothing on the stack, and nothing that the client may load, was made in
\* another function.
NothingForeign ==
  /\ \A i \in DOMAIN stack : Local(stack[i])
  /\ \A n \in own : vars[n] # Absent => Local(vars[n])

ClientIInv ==
  /\ IInv
  /\ ClientTypeOK
  /\ status # "aborted" => InLast /\ Emptied /\ NothingForeign
  /\ OperandsLocal
  /\ RetFits
=============================================================================
