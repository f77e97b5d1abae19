------------------------- MODULE StackBuilderProofs -------------------------
(***************************************************************************)
(* The stack_builder keeps its invariant IInv, for every set of names,     *)
(* blocks, functions and types, and every bound; and the contract of the   *)
(* client that builds function by function is enough: no instruction it    *)
(* has the builder make uses a value of another function, and every ret    *)
(* fits the function it returns from.                                      *)
(***************************************************************************)
EXTENDS FunctionByFunction, BimapLemmas, FiniteSetTheorems, SequenceTheorems

Options == Values \cup {None}

\* Counting the operands popped: a number no larger for a smaller index.
LEMMA TakenType ==
  ASSUME NEW opts \in Seq(Options), NEW i \in 1..Len(opts)
  PROVE  /\ Taken(opts, i) \in 0..Taken(opts, Len(opts))
         /\ opts[i] = None => Taken(opts, i) # 0
<1> DEFINE S(k) == {j \in Missing(opts) : j <= k}
<1>1. IsFiniteSet(S(Len(opts)))
  <2>1. S(Len(opts)) \subseteq 1..Len(opts)
    BY DEF Missing
  <2>2. IsFiniteSet(1..Len(opts))
    BY FS_Interval
  <2>3. QED BY <2>1, <2>2, FS_Subset
<1>2. S(i) \subseteq S(Len(opts))
  BY DEF Missing
<1>3. IsFiniteSet(S(i)) /\ Cardinality(S(i)) <= Cardinality(S(Len(opts)))
  BY <1>1, <1>2, FS_Subset
<1>4. Cardinality(S(i)) \in Nat /\ Cardinality(S(Len(opts))) \in Nat
  BY <1>1, <1>3, FS_CardinalityType
<1>5. opts[i] = None => Cardinality(S(i)) # 0
  <2>1. SUFFICES ASSUME opts[i] = None PROVE Cardinality(S(i)) # 0
    OBVIOUS
  <2>2. i \in S(i)
    BY <2>1 DEF Missing
  <2>3. QED BY <1>3, <2>2, FS_EmptySet
<1>6. QED BY <1>3, <1>4, <1>5 DEF Taken

\* The number of operands popped in all is a number, of none too.
LEMMA TakenNat ==
  ASSUME NEW opts \in Seq(Options)
  PROVE  Taken(opts, Len(opts)) \in Nat
<1> DEFINE S == {j \in Missing(opts) : j <= Len(opts)}
<1>1. S \subseteq 1..Len(opts)
  BY DEF Missing
<1>2. IsFiniteSet(1..Len(opts))
  BY FS_Interval
<1>3. IsFiniteSet(S)
  BY <1>1, <1>2, FS_Subset
<1>4. QED BY <1>3, FS_CardinalityType DEF Taken

\* popvalue finds a value for every operand when there are enough.
LEMMA OperandsType ==
  ASSUME stack \in Seq(Values), keep_stack \in BOOLEAN,
         NEW opts \in Seq(Options), Enough(opts)
  PROVE  /\ Operands(opts) \in Seq(Values)
         /\ Len(Operands(opts)) = Len(opts)
         /\ DOMAIN Operands(opts) = 1..Len(opts)
<1>1. DOMAIN opts = 1..Len(opts) /\ Len(opts) \in Nat
  OBVIOUS
<1>2. ASSUME NEW i \in 1..Len(opts) PROVE Operand(opts, i) \in Values
  <2>1. opts[i] \in Options
    BY <1>1
  <2>2. CASE opts[i] # None
    BY <2>1, <2>2 DEF Operand, Options
  <2>3. CASE opts[i] = None /\ keep_stack
    <3>1. i \in Missing(opts)
      BY <2>3 DEF Missing
    <3>2. stack # <<>>
      BY <2>3, <3>1 DEF Enough
    <3>3. Top \in Values
      BY <3>2 DEF Top
    <3>4. QED BY <2>3, <3>3 DEF Operand
  <2>4. CASE opts[i] = None /\ ~keep_stack
    <3>1. Taken(opts, Len(opts)) <= Len(stack)
      BY <2>4 DEF Enough
    <3>2. Taken(opts, i) \in 1..Len(stack)
      BY <2>4, <3>1, TakenType, TakenNat
    <3>3. Len(stack) + 1 - Taken(opts, i) \in 1..Len(stack)
      BY <3>2
    <3>4. QED BY <2>4, <3>3 DEF Operand
  <2>5. QED BY <2>2, <2>3, <2>4
<1>3. Operands(opts) = [i \in 1..Len(opts) |-> Operand(opts, i)]
  BY <1>1 DEF Operands
<1>4. QED BY <1>1, <1>2, <1>3

\* What popvalue leaves is a stack of values.
LEMMA RestType ==
  ASSUME stack \in Seq(Values), keep_stack \in BOOLEAN,
         NEW opts \in Seq(Options), Enough(opts)
  PROVE  Rest(opts) \in Seq(Values)
<1>1. CASE keep_stack
  BY <1>1 DEF Rest
<1>2. CASE ~keep_stack
  <2> DEFINE n == Len(stack) - Taken(opts, Len(opts))
  <2>1. n \in 0..Len(stack)
    BY <1>2, TakenNat DEF Enough
  <2>2. SubSeq(stack, 1, n) \in Seq(Values)
    BY <2>1
  <2>3. QED BY <1>2, <2>2 DEF Rest
<1>3. QED BY <1>1, <1>2
-----------------------------------------------------------------------------
(* Values. *)

\* The values a client passes are values, and so are the ones a step makes.
LEMMA GivenType ==
  ASSUME stack \in Seq(Values) PROVE Given \subseteq Values
<1>1. Literals \subseteq Values
  BY DEF Literals, Literal, ValueTypes, Values
<1>2. \A i \in DOMAIN stack : stack[i] \in Values
  OBVIOUS
<1>3. QED BY <1>1, <1>2 DEF Given

LEMMA LiteralType ==
  ASSUME NEW ty \in Types PROVE Literal(ty) \in Values
BY DEF Literal, Values

LEMMA HereType ==
  ASSUME TypeOK, BlocksExist PROVE Here \in Functions \cup {None}
BY DEF TypeOK, BlocksExist, Here

LEMMA MadeType ==
  ASSUME TypeOK, BlocksExist, NEW k \in Nat, NEW ty \in Types
  PROVE  Made(k, ty) \in Values
<1>1. count + k \in Nat
  BY DEF TypeOK
<1>2. QED BY <1>1, HereType DEF Made, Values

\* One instruction of typed operands is what a step may emit.
LEMMA InstrType ==
  ASSUME NEW op \in Ops \cup Functions, NEW args \in Seq(Values)
  PROVE  <<Instr(op, args)>> \in Seq(Instructions)
<1>1. Instr(op, args) \in Instructions
  BY DEF Instr, Instructions
<1>2. QED BY <1>1

-----------------------------------------------------------------------------
(* Ends of a step. *)

LEMMA IInvInit == Init => IInv
<1> SUFFICES ASSUME Init PROVE IInv
  OBVIOUS
<1> USE NamesAssumption, SentinelAssumption, DistinctSentinels
<1>1. blocks \in Bimaps(Names, Blocks) /\ Mirror(blocks)
  BY DEF Init, EmptyBimap, Bimaps, Mirror
<1>2. TypeOK
  <2>1. stack \in Seq(Values) /\ functions \in Seq(Functions) /\ emitted \in Seq(Instructions)
    BY DEF Init
  <2>2. vars \in [Names -> Values \cup {Absent}]
    BY DEF Init
  <2>3. owner \in [Blocks -> Functions \cup {None, Absent}]
    BY DEF Init
  <2>4. QED BY <1>1, <2>1, <2>2, <2>3 DEF Init, TypeOK
<1>3. BlocksExist
  BY DEF Init, BlocksExist, EmptyBimap
<1>4. InsertNamed /\ OrphansStayEmpty
  BY DEF Init, InsertNamed, OrphansStayEmpty
<1>5. CurrentBlockNamed
  BY DEF Init, CurrentBlockNamed
<1>6. QED BY <1>1, <1>2, <1>3, <1>4, <1>5 DEF IInv

LEMMA AbortKeeps == ASSUME IInv, Abort PROVE IInv'
BY DEF Abort, IInv, TypeOK, BlocksExist, InsertNamed, CurrentBlockNamed,
       OrphansStayEmpty, fields, ir

\* An instruction goes to the insertion point, which has a name if the
\* builder made it: so no orphan is ever filled.
LEMMA EmitKeeps ==
  ASSUME IInv, NEW n \in Nat, NEW instrs \in Seq(Instructions),
         NEW stk \in Seq(Values), Emit(n, instrs, stk),
         vars' \in [Names -> Values \cup {Absent}]
  PROVE  IInv'
<1>1. TypeOK'
  <2>1. count' \in Nat
    BY DEF IInv, TypeOK, Emit
  <2>2. filled' \subseteq Blocks
    BY DEF IInv, TypeOK, Emit
  <2>3. QED BY <2>1, <2>2 DEF IInv, TypeOK, Emit
<1>2. UNCHANGED <<blocks, current_block, insert, owner, created>>
  BY DEF Emit
<1>3. Mirror(blocks)' /\ InsertNamed' /\ CurrentBlockNamed'
  BY <1>2 DEF IInv, InsertNamed, CurrentBlockNamed
<1>4. BlocksExist'
  <2>1. filled' = filled \/ (insert # None /\ filled' = filled \cup {insert})
    BY DEF Emit
  <2>2. insert \in Blocks \cup {None}
    BY DEF IInv, TypeOK
  <2>3. QED BY <1>2, <2>1, <2>2 DEF IInv, BlocksExist
<1>5. OrphansStayEmpty'
  <2>1. filled' \subseteq filled \cup {insert}
    BY DEF Emit
  <2>2. QED BY <1>2, <2>1 DEF IInv, OrphansStayEmpty, InsertNamed
<1>6. QED BY <1>1, <1>3, <1>4, <1>5 DEF IInv

\* So does an action that emits and leaves the variables alone.
LEMMA EmitOnlyKeeps ==
  ASSUME IInv, NEW n \in Nat, NEW instrs \in Seq(Instructions),
         NEW stk \in Seq(Values), Emit(n, instrs, stk), UNCHANGED vars
  PROVE  IInv'
<1>1. vars' \in [Names -> Values \cup {Absent}]
  BY DEF IInv, TypeOK
<1>2. QED BY <1>1, EmitKeeps

\* An action on the operands alone.
LEMMA StackKeeps ==
  ASSUME IInv, stack' \in Seq(Values), keep_stack' \in BOOLEAN, Done,
         UNCHANGED <<vars, functions, module, blocks, current_block, insert, ir>>
  PROVE  IInv'
BY DEF Done, IInv, TypeOK, BlocksExist, InsertNamed, CurrentBlockNamed,
       OrphansStayEmpty, ir
-----------------------------------------------------------------------------
(* Actions on values. *)

LEMMA AllocKeeps ==
  ASSUME IInv, NEW name \in Names \cup {None}, Alloc(name) PROVE IInv'
<1>1. CASE Abort
  BY <1>1, AbortKeeps
<1>2. CASE Emit(1, <<Instr("alloc", <<>>)>>, Append(stack, Made(1, Ptr)))
           /\ vars' = IF name = None THEN vars ELSE [vars EXCEPT ![name] = Made(1, Ptr)]
  <2>1. Made(1, Ptr) \in Values
    BY MadeType, TypesAssumption DEF IInv
  <2>2. <<Instr("alloc", <<>>)>> \in Seq(Instructions)
    <3>1. "alloc" \in Ops \cup Functions /\ <<>> \in Seq(Values)
      BY DEF Ops
    <3>2. QED BY <3>1, InstrType
  <2>3. Append(stack, Made(1, Ptr)) \in Seq(Values)
    BY <2>1 DEF IInv, TypeOK
  <2>4. vars' \in [Names -> Values \cup {Absent}]
    BY <1>2, <2>1 DEF IInv, TypeOK
  <2>5. QED BY <1>2, <2>2, <2>3, <2>4, EmitKeeps
<1>3. QED BY <1>1, <1>2 DEF Alloc

LEMMA LoadKeeps ==
  ASSUME IInv, NEW name \in Names, NEW ty \in ValueTypes \cup {None}, Load(name, ty)
  PROVE  IInv'
<1>1. CASE Abort
  BY <1>1, AbortKeeps
<1>2. CASE status' = "threw" /\ emitted' = <<>> /\ UNCHANGED <<fields, ir>>
  BY <1>2 DEF IInv, TypeOK, BlocksExist, InsertNamed, CurrentBlockNamed,
              OrphansStayEmpty, fields, ir
<1>3. CASE /\ vars[name] # Absent /\ ty # None
           /\ Emit(1, <<Instr("load", <<vars[name]>>)>>, Append(stack, Made(1, ty)))
           /\ UNCHANGED vars
  <2>1. vars[name] \in Values
    BY <1>3 DEF IInv, TypeOK
  <2>2. Made(1, ty) \in Values
    BY <1>3, MadeType DEF IInv, ValueTypes
  <2>3. "load" \in Ops \cup Functions /\ <<vars[name]>> \in Seq(Values)
    BY <2>1 DEF Ops
  <2>4. Append(stack, Made(1, ty)) \in Seq(Values)
    BY <2>2 DEF IInv, TypeOK
  <2>5. <<Instr("load", <<vars[name]>>)>> \in Seq(Instructions)
    BY <2>3, InstrType
  <2>6. QED BY <1>3, <2>4, <2>5, EmitOnlyKeeps
<1>4. QED BY <1>1, <1>2, <1>3 DEF Load

\* What the actions with popped operands have in common.
LEMMA PoppedType ==
  ASSUME IInv, NEW opts \in Seq(Options), Enough(opts)
  PROVE  /\ Operands(opts) \in Seq(Values)
         /\ DOMAIN Operands(opts) = 1..Len(opts)
         /\ Rest(opts) \in Seq(Values)
         /\ \A v \in Values : Append(Rest(opts), v) \in Seq(Values)
<1>1. stack \in Seq(Values) /\ keep_stack \in BOOLEAN
  BY DEF IInv, TypeOK
<1>2. Operands(opts) \in Seq(Values) /\ DOMAIN Operands(opts) = 1..Len(opts)
  BY <1>1, OperandsType
<1>3. Rest(opts) \in Seq(Values)
  BY <1>1, RestType
<1>4. QED BY <1>2, <1>3

LEMMA OptionType == ASSUME IInv PROVE Option \subseteq Options
BY GivenType DEF IInv, TypeOK, Option, Options

LEMMA LoadPtrKeeps ==
  ASSUME IInv, NEW from \in Option, NEW ty \in ValueTypes, LoadPtr(from, ty)
  PROVE  IInv'
<1> DEFINE opts == <<from>>
<1>1. CASE Abort
  BY <1>1, AbortKeeps
<1>2. CASE /\ Enough(opts)
           /\ Emit(1, <<Instr("load", Operands(opts))>>, Append(Rest(opts), Made(1, ty)))
           /\ UNCHANGED vars
  <2>1. opts \in Seq(Options)
    BY OptionType
  <2>2. Made(1, ty) \in Values
    BY MadeType DEF IInv, ValueTypes
  <2>3. Operands(opts) \in Seq(Values) /\ Append(Rest(opts), Made(1, ty)) \in Seq(Values)
    BY <1>2, <2>1, <2>2, PoppedType
  <2>4. "load" \in Ops \cup Functions
    BY DEF Ops
  <2>5. <<Instr("load", Operands(opts))>> \in Seq(Instructions)
    BY <2>3, <2>4, InstrType
  <2>6. QED BY <1>2, <2>3, <2>5, EmitOnlyKeeps
<1>3. QED BY <1>1, <1>2 DEF LoadPtr

LEMMA StoreKeeps ==
  ASSUME IInv, NEW val \in Option, NEW dst \in Option, Store(val, dst) PROVE IInv'
<1> DEFINE opts == <<val, dst>>
<1>1. CASE Abort
  BY <1>1, AbortKeeps
<1>2. CASE /\ Enough(opts)
           /\ Emit(1, <<Instr("store", Operands(opts))>>, Rest(opts))
           /\ UNCHANGED vars
  <2>1. opts \in Seq(Options)
    BY OptionType
  <2>2. Operands(opts) \in Seq(Values) /\ Rest(opts) \in Seq(Values)
    BY <1>2, <2>1, PoppedType
  <2>3. "store" \in Ops \cup Functions
    BY DEF Ops
  <2>4. <<Instr("store", Operands(opts))>> \in Seq(Instructions)
    BY <2>2, <2>3, InstrType
  <2>5. QED BY <1>2, <2>2, <2>4, EmitOnlyKeeps
<1>3. QED BY <1>1, <1>2 DEF Store

LEMMA BinaryKeeps ==
  ASSUME IInv, NEW op \in {"bin", "cmp"}, NEW lhs \in Option, NEW rhs \in Option,
         Binary(op, lhs, rhs)
  PROVE  IInv'
<1> DEFINE opts == <<lhs, rhs>>
           args == Operands(opts)
           ty   == IF op = "cmp" THEN Bool ELSE args[1].ty
<1>1. CASE Abort
  BY <1>1, AbortKeeps
<1>2. CASE /\ Enough(opts)
           /\ IF Folds(args)
              THEN Emit(0, <<>>, Append(Rest(opts), Literal(ty)))
              ELSE Emit(1, <<Instr(op, args)>>, Append(Rest(opts), Made(1, ty)))
           /\ UNCHANGED vars
  <2>1. opts \in Seq(Options) /\ Len(opts) = 2
    BY OptionType
  <2>2. args \in Seq(Values) /\ DOMAIN args = 1..2
    BY <1>2, <2>1, PoppedType
  <2>3. ty \in Types
    <3>1. args[1] \in Values
      BY <2>2
    <3>2. args[1].ty \in Types
      BY <3>1 DEF Values
    <3>3. QED BY <3>2, TypesAssumption
  <2>4. Literal(ty) \in Values /\ Made(1, ty) \in Values
    BY <2>3, LiteralType, MadeType DEF IInv
  <2>5. /\ Append(Rest(opts), Literal(ty)) \in Seq(Values)
        /\ Append(Rest(opts), Made(1, ty)) \in Seq(Values)
    BY <1>2, <2>1, <2>4, PoppedType
  <2>6. op \in Ops \cup Functions
    BY DEF Ops
  <2>7. <<Instr(op, args)>> \in Seq(Instructions) /\ <<>> \in Seq(Instructions)
    BY <2>2, <2>6, InstrType
  <2>8. CASE Folds(args)
    BY <1>2, <2>5, <2>7, <2>8, EmitOnlyKeeps
  <2>9. CASE ~Folds(args)
    BY <1>2, <2>5, <2>7, <2>9, EmitOnlyKeeps
  <2>10. QED BY <2>8, <2>9
<1>3. QED BY <1>1, <1>2 DEF Binary

LEMMA PhiKeeps ==
  ASSUME IInv, NEW vals, vals = <<>> \/ vals \in Given \X Given, Phi(vals)
  PROVE  IInv'
<1>1. CASE Abort
  BY <1>1, AbortKeeps
<1>2. CASE /\ vals # <<>>
           /\ Emit(1, <<Instr("phi", vals)>>, Append(stack, Made(1, vals[1].ty)))
           /\ UNCHANGED vars
  <2>1. PICK u \in Given, v \in Given : vals = <<u, v>>
    BY <1>2
  <2>2. u \in Values /\ v \in Values
    BY GivenType DEF IInv, TypeOK
  <2>3. vals \in Seq(Values) /\ vals[1].ty \in Types
    <3>1. <<u, v>> \in Seq(Values) /\ <<u, v>>[1] = u
      BY <2>2
    <3>2. u.ty \in Types
      BY <2>2 DEF Values
    <3>3. QED BY <2>1, <3>1, <3>2
  <2>4. Made(1, vals[1].ty) \in Values
    BY <2>3, MadeType DEF IInv
  <2>5. Append(stack, Made(1, vals[1].ty)) \in Seq(Values)
    BY <2>4 DEF IInv, TypeOK
  <2>6. "phi" \in Ops \cup Functions
    BY DEF Ops
  <2>7. <<Instr("phi", vals)>> \in Seq(Instructions)
    BY <2>3, <2>6, InstrType
  <2>8. QED BY <1>2, <2>5, <2>7, EmitOnlyKeeps
<1>3. QED BY <1>1, <1>2 DEF Phi

LEMMA CastKeeps ==
  ASSUME IInv, NEW val \in Option, NEW to \in ValueTypes, Cast(val, to) PROVE IInv'
<1> DEFINE opts == <<val>>
           arg  == Operands(opts)[1]
<1>1. CASE Abort
  BY <1>1, AbortKeeps
<1>2. CASE /\ Enough(opts)
           /\ IF arg.ty = to THEN Emit(0, <<>>, Append(Rest(opts), arg))
              ELSE IF IsLiteral(arg) THEN Emit(0, <<>>, Append(Rest(opts), Literal(to)))
              ELSE Emit(1, <<Instr("cast", <<arg>>)>>, Append(Rest(opts), Made(1, to)))
           /\ UNCHANGED vars
  <2>1. opts \in Seq(Options) /\ Len(opts) = 1
    BY OptionType
  <2>2. arg \in Values
    <3>1. Operands(opts) \in Seq(Values) /\ DOMAIN Operands(opts) = 1..1
      BY <1>2, <2>1, PoppedType
    <3>2. QED BY <3>1
  <2>3. Literal(to) \in Values /\ Made(1, to) \in Values
    BY LiteralType, MadeType DEF IInv, ValueTypes
  <2>4. /\ Append(Rest(opts), arg) \in Seq(Values)
        /\ Append(Rest(opts), Literal(to)) \in Seq(Values)
        /\ Append(Rest(opts), Made(1, to)) \in Seq(Values)
    BY <1>2, <2>1, <2>2, <2>3, PoppedType
  <2>5. "cast" \in Ops \cup Functions /\ <<arg>> \in Seq(Values)
    BY <2>2 DEF Ops
  <2> HIDE DEF arg
  <2>6. <<Instr("cast", <<arg>>)>> \in Seq(Instructions) /\ <<>> \in Seq(Instructions)
    <3>1. <<Instr("cast", <<arg>>)>> \in Seq(Instructions)
      BY <2>5, InstrType, Zenon
    <3>2. QED BY <3>1
  <2>7. CASE arg.ty = to
    BY <1>2, <2>4, <2>6, <2>7, EmitOnlyKeeps
  <2>8. CASE arg.ty # to /\ IsLiteral(arg)
    BY <1>2, <2>4, <2>6, <2>8, EmitOnlyKeeps
  <2>9. CASE arg.ty # to /\ ~IsLiteral(arg)
    BY <1>2, <2>4, <2>6, <2>9, EmitOnlyKeeps
  <2>10. QED BY <2>7, <2>8, <2>9
<1>3. QED BY <1>1, <1>2 DEF Cast

LEMMA CondBrKeeps ==
  ASSUME IInv, NEW cond \in Option, NEW targeted \in BOOLEAN, CondBr(cond, targeted)
  PROVE  IInv'
<1> DEFINE opts == <<cond>>
<1>1. CASE Abort
  BY <1>1, AbortKeeps
<1>2. CASE /\ Enough(opts)
           /\ Emit(1, <<Instr("condbr", Operands(opts))>>, Append(Rest(opts), Made(1, Void)))
           /\ UNCHANGED vars
  <2>1. opts \in Seq(Options)
    BY OptionType
  <2>2. Made(1, Void) \in Values
    BY MadeType, TypesAssumption DEF IInv
  <2>3. Operands(opts) \in Seq(Values) /\ Append(Rest(opts), Made(1, Void)) \in Seq(Values)
    BY <1>2, <2>1, <2>2, PoppedType
  <2>4. "condbr" \in Ops \cup Functions
    BY DEF Ops
  <2>5. <<Instr("condbr", Operands(opts))>> \in Seq(Instructions)
    BY <2>3, <2>4, InstrType
  <2>6. QED BY <1>2, <2>3, <2>5, EmitOnlyKeeps
<1>3. QED BY <1>1, <1>2 DEF CondBr

LEMMA BranchKeeps == ASSUME IInv, Branch PROVE IInv'
<1>1. Made(1, Void) \in Values
  BY MadeType, TypesAssumption DEF IInv
<1>2. Append(stack, Made(1, Void)) \in Seq(Values)
  BY <1>1 DEF IInv, TypeOK
<1>3. "branch" \in Ops \cup Functions /\ <<>> \in Seq(Values)
  BY DEF Ops
<1>4. <<Instr("branch", <<>>)>> \in Seq(Instructions)
  BY <1>3, InstrType
<1>5. QED BY <1>2, <1>4, EmitOnlyKeeps DEF Branch

\* The operands a call passes are typed like its parameters, so it is an
\* instruction whatever was cast on the way.
LEMMA CallKeeps ==
  ASSUME IInv, NEW fn \in Functions, NEW n \in Nat, NEW opts \in [1..n -> Option],
         Call(fn, opts)
  PROVE  IInv'
<1> DEFINE params  == Signature[fn].params
           args    == Operands(opts)
           recast  == {i \in DOMAIN opts : args[i].ty # params[i] /\ ~IsLiteral(args[i])}
           casts   == [i \in DOMAIN opts |-> Cardinality({j \in recast : j <= i})]
           passed  == [i \in DOMAIN opts |->
                         IF args[i].ty = params[i] THEN args[i]
                         ELSE IF IsLiteral(args[i]) THEN Literal(params[i])
                         ELSE Made(casts[i], params[i])]
           made    == Cardinality(recast)
           casting == IF recast = {} THEN <<>> ELSE <<Instr("cast", args)>>
<1>1. CASE Abort
  BY <1>1, AbortKeeps
<1>2. CASE /\ Enough(opts) /\ Len(opts) = Len(params)
           /\ Emit(made + 1, Append(casting, Instr(fn, passed)),
                   Append(Rest(opts), Made(made + 1, Signature[fn].ret)))
           /\ UNCHANGED vars
  <2>1. opts \in Seq(Options) /\ Len(opts) = n /\ DOMAIN opts = 1..n
    BY OptionType
  <2>2. args \in Seq(Values) /\ DOMAIN args = 1..n
    BY <1>2, <2>1, PoppedType
  <2>3. Signature[fn].params \in Seq(Types) /\ Signature[fn].ret \in Types
    BY SignatureAssumption
  <2>4. \A i \in 1..n : params[i] \in Types
    <3>1. params \in Seq(Types) /\ Len(params) = n
      BY <1>2, <2>1, <2>3
    <3> HIDE DEF params
    <3>2. QED BY <3>1
  <2>5. IsFiniteSet(1..n)
    BY FS_Interval
  <2>6. made \in Nat
    <3>1. recast \subseteq 1..n
      BY <2>1
    <3>2. QED BY <2>5, <3>1, FS_Subset, FS_CardinalityType
  <2>7. ASSUME NEW i \in 1..n PROVE casts[i] \in Nat
    <3>1. {j \in recast : j <= i} \subseteq 1..n
      BY <2>1
    <3>2. Cardinality({j \in recast : j <= i}) \in Nat
      BY <2>5, <3>1, FS_Subset, FS_CardinalityType
    <3>3. QED BY <2>1, <3>2
  <2>8. ASSUME NEW i \in 1..n PROVE passed[i] \in Values
    <3>1. args[i] \in Values
      BY <2>2
    <3>2. Literal(params[i]) \in Values
      BY <2>4, LiteralType
    <3>3. Made(casts[i], params[i]) \in Values
      BY <2>4, <2>7, MadeType DEF IInv
    <3> HIDE DEF args, params, casts
    <3>4. QED BY <2>1, <3>1, <3>2, <3>3
  <2>9. passed \in Seq(Values)
    <3>1. DOMAIN passed = 1..n
      BY <2>1
    <3> HIDE DEF passed
    <3>2. passed = [i \in 1..n |-> passed[i]]
      BY <2>1, <3>1 DEF passed
    <3>3. QED BY <2>8, <3>2
  <2>10. fn \in Ops \cup Functions /\ "cast" \in Ops \cup Functions
    BY DEF Ops
  <2> HIDE DEF passed, args, recast, made
  <2>11. Instr(fn, passed) \in Instructions
    BY <2>9, <2>10 DEF Instr, Instructions
  <2>12. casting \in Seq(Instructions)
    BY <2>2, <2>10, InstrType
  <2>13. Append(casting, Instr(fn, passed)) \in Seq(Instructions)
    BY <2>11, <2>12
  <2>14. made + 1 \in Nat
    BY <2>6
  <2>15. Made(made + 1, Signature[fn].ret) \in Values
    BY <2>3, <2>14, MadeType DEF IInv
  <2>16. Append(Rest(opts), Made(made + 1, Signature[fn].ret)) \in Seq(Values)
    BY <1>2, <2>1, <2>15, PoppedType
  <2> HIDE DEF casting
  <2>17. QED BY <1>2, <2>13, <2>14, <2>16, EmitOnlyKeeps
<1>3. QED BY <1>1, <1>2 DEF Call

LEMMA RetKeeps ==
  ASSUME IInv, NEW val \in Option, Ret(val) PROVE IInv'
<1> DEFINE opts == <<val>>
<1>1. CASE Abort
  BY <1>1, AbortKeeps
<1>2. CASE Emit(1, <<Instr("ret", <<>>)>>, stack) /\ UNCHANGED vars
  <2>1. "ret" \in Ops \cup Functions /\ <<>> \in Seq(Values) /\ stack \in Seq(Values)
    BY DEF Ops, IInv, TypeOK
  <2>2. <<Instr("ret", <<>>)>> \in Seq(Instructions)
    BY <2>1, InstrType
  <2>3. QED BY <1>2, <2>1, <2>2, EmitOnlyKeeps
<1>3. CASE /\ Enough(opts)
           /\ Emit(1, <<Instr("ret", Operands(opts))>>, Rest(opts)) /\ UNCHANGED vars
  <2>1. opts \in Seq(Options)
    BY OptionType
  <2>2. Operands(opts) \in Seq(Values) /\ Rest(opts) \in Seq(Values)
    BY <1>3, <2>1, PoppedType
  <2>3. "ret" \in Ops \cup Functions
    BY DEF Ops
  <2>4. <<Instr("ret", Operands(opts))>> \in Seq(Instructions)
    BY <2>2, <2>3, InstrType
  <2>5. QED BY <1>3, <2>2, <2>4, EmitOnlyKeeps
<1>4. QED BY <1>1, <1>2, <1>3 DEF Ret
-----------------------------------------------------------------------------
(* Actions on blocks, functions and the module. *)

\* What registering a block does to the map of block names: the new pair is
\* there if the insert did not throw and the block was not held before, and
\* no name loses its block.
LEMMA RegisteringKeepsNames ==
  ASSUME blocks \in Bimaps(Names, Blocks), Mirror(blocks),
         NEW name \in Names, NEW b \in Blocks,
         blocks' = Inserted(blocks, name, b)
  PROVE  /\ blocks' \in Bimaps(Names, Blocks) /\ Mirror(blocks)'
         /\ \A n \in Names : blocks.left[n] # Absent => blocks'.left[n] = blocks.left[n]
         /\ \A n \in Names : blocks'.left[n] \in {blocks.left[n], b}
         /\ \A c \in Blocks : blocks.right[c] # Absent => blocks'.right[c] = blocks.right[c]
         /\ ~InsertThrows(blocks, name, b) /\ blocks.right[b] = Absent =>
              blocks'.left[name] = b /\ blocks'.right[b] = name
<1> USE NamesAssumption, SentinelAssumption
<1>1. blocks.left \in [Names -> Blocks \cup {Absent}]
      /\ blocks.right \in [Blocks -> Names \cup {Absent}]
  BY DEF Bimaps
<1>2. Absent \notin Names \cup Blocks
  OBVIOUS
<1>3. blocks' \in Bimaps(Names, Blocks) /\ Mirror(blocks')
  BY <1>2, InsertedType, InsertedMirror
<1>4. CASE blocks.left[name] = Absent /\ blocks.right[b] = Absent
  <2>1. blocks' = [left  |-> [blocks.left EXCEPT ![name] = b],
                   right |-> [blocks.right EXCEPT ![b] = name]]
    BY <1>4, InsertedAllOrNothing
  <2>2. blocks'.left = [blocks.left EXCEPT ![name] = b]
        /\ blocks'.right = [blocks.right EXCEPT ![b] = name]
    BY <2>1
  <2>3. QED BY <1>1, <1>3, <1>4, <2>2
<1>5. CASE ~(blocks.left[name] = Absent /\ blocks.right[b] = Absent)
  <2>1. blocks' = blocks
    BY <1>5, InsertedAllOrNothing
  <2>2. QED BY <1>1, <1>3, <1>5, <2>1 DEF InsertThrows
<1>6. QED BY <1>4, <1>5

\* A name or block that is registered stays current, named and filled.
LEMMA CreateBlockKeeps ==
  ASSUME IInv, NEW name \in Names, CreateBlock(name) PROVE IInv'
<1> USE NamesAssumption, SentinelAssumption, DistinctSentinels
<1>1. PICK b \in Blocks :
        /\ owner[b] = Absent
        /\ owner' = [owner EXCEPT ![b] = Newest]
        /\ created' = created \cup {b}
        /\ blocks' = Inserted(blocks, name, b)
        /\ Enter(name, b)
        /\ emitted' = <<>>
        /\ UNCHANGED <<stack, keep_stack, vars, functions, module, parent, filled, count>>
  BY DEF CreateBlock
<1>2. blocks \in Bimaps(Names, Blocks) /\ Mirror(blocks)
  BY DEF IInv, TypeOK
<1>3. blocks.left \in [Names -> Blocks \cup {Absent}]
      /\ blocks.right \in [Blocks -> Names \cup {Absent}]
  BY <1>2 DEF Bimaps
<1>4. \A n \in Names, c \in Blocks : blocks.left[n] = c <=> blocks.right[c] = n
  BY <1>2, <1>3 DEF Mirror
<1>5. /\ blocks' \in Bimaps(Names, Blocks) /\ Mirror(blocks)'
      /\ \A n \in Names : blocks.left[n] # Absent => blocks'.left[n] = blocks.left[n]
      /\ \A n \in Names : blocks'.left[n] \in {blocks.left[n], b}
      /\ \A c \in Blocks : blocks.right[c] # Absent => blocks'.right[c] = blocks.right[c]
      /\ ~InsertThrows(blocks, name, b) /\ blocks.right[b] = Absent =>
           blocks'.left[name] = b /\ blocks'.right[b] = name
  BY <1>1, <1>2, RegisteringKeepsNames
<1>6. Newest \in Functions \cup {None} /\ Newest # Absent
  <2>1. functions \in Seq(Functions)
    BY DEF IInv, TypeOK
  <2>2. QED BY <2>1 DEF Newest
\* The new block was in no function, so it had no name either.
<1>7. blocks.right[b] = Absent
  <2>1. SUFFICES ASSUME blocks.right[b] # Absent PROVE FALSE
    OBVIOUS
  <2>2. blocks.right[b] \in Names /\ blocks.left[blocks.right[b]] = b
    BY <1>3, <1>4, <2>1
  <2>3. QED BY <1>1, <2>2 DEF IInv, BlocksExist
<1>8. owner' \in [Blocks -> Functions \cup {None, Absent}]
      /\ owner'[b] # Absent
      /\ \A c \in Blocks : owner[c] # Absent => owner'[c] # Absent
  BY <1>1, <1>6 DEF IInv, TypeOK
<1>9. insert # b /\ b \notin filled
  BY <1>1 DEF IInv, BlocksExist
<1>10. \/ InsertThrows(blocks, name, b) /\ status' = "threw"
          /\ UNCHANGED <<current_block, insert>>
       \/ ~InsertThrows(blocks, name, b) /\ status' = "done"
          /\ current_block' = b /\ insert' = b
  BY <1>1 DEF Enter
<1>11. TypeOK'
  <2>1. created' \subseteq Blocks
    BY <1>1 DEF IInv, TypeOK
  <2>2. UNCHANGED <<stack, keep_stack, vars, functions, module, parent, filled, count>>
    BY <1>1
  <2>3. emitted' \in Seq(Instructions)
    BY <1>1
  <2>4. QED BY <1>5, <1>8, <1>10, <2>1, <2>2, <2>3 DEF IInv, TypeOK
<1>12. BlocksExist'
  <2>1. ASSUME NEW n \in Names, blocks'.left[n] # Absent
        PROVE  owner'[blocks'.left[n]] # Absent
    <3>1. blocks'.left[n] = b \/ blocks'.left[n] = blocks.left[n]
      BY <1>5
    <3>2. blocks.left[n] # Absent => blocks.left[n] \in Blocks /\ owner[blocks.left[n]] # Absent
      BY <1>3 DEF IInv, BlocksExist
    <3>3. QED BY <1>8, <2>1, <3>1, <3>2
  <2>2. insert' \in Blocks => owner'[insert'] # Absent
    BY <1>8, <1>10 DEF IInv, BlocksExist
  <2>3. \A c \in filled' : owner'[c] # Absent
    BY <1>1, <1>8 DEF IInv, BlocksExist, TypeOK
  <2>4. QED BY <2>1, <2>2, <2>3 DEF BlocksExist
<1>13. InsertNamed'
  <2>1. CASE InsertThrows(blocks, name, b)
    <3>1. insert' = insert
      BY <1>10, <2>1
    <3>2. insert \in created => blocks.right[insert] # Absent /\ insert \in Blocks
      BY DEF IInv, InsertNamed, TypeOK
    <3>3. QED BY <1>1, <1>5, <1>9, <3>1, <3>2 DEF InsertNamed
  <2>2. CASE ~InsertThrows(blocks, name, b)
    BY <1>5, <1>7, <1>10, <2>2 DEF InsertNamed
  <2>3. QED BY <2>1, <2>2
<1>14. CurrentBlockNamed'
  <2>1. CASE InsertThrows(blocks, name, b)
    <3>1. UNCHANGED <<current_block, insert>>
      BY <1>10, <2>1
    <3>2. current_block # Unset => current_block \in Blocks
            /\ blocks.right[current_block] # Absent
            /\ blocks.left[blocks.right[current_block]] = current_block
            /\ blocks.right[current_block] \in Names /\ insert = current_block
      BY <1>3 DEF IInv, CurrentBlockNamed, TypeOK
    <3>3. current_block # Unset =>
            /\ blocks'.right[current_block] = blocks.right[current_block]
            /\ blocks'.left[blocks.right[current_block]] = current_block
      BY <1>5, <3>2
    <3>4. QED BY <3>1, <3>2, <3>3 DEF CurrentBlockNamed
  <2>2. CASE ~InsertThrows(blocks, name, b)
    BY <1>5, <1>7, <1>10, <2>2 DEF CurrentBlockNamed
  <2>3. QED BY <2>1, <2>2
<1>15. OrphansStayEmpty'
  <2>1. \A c \in created \cap filled : c \in Blocks /\ blocks.right[c] # Absent
    BY DEF IInv, OrphansStayEmpty, TypeOK
  <2>2. QED BY <1>1, <1>5, <1>9, <2>1 DEF OrphansStayEmpty
<1>16. QED BY <1>5, <1>11, <1>12, <1>13, <1>14, <1>15 DEF IInv

LEMMA SetBlockKeeps ==
  ASSUME IInv, NEW name \in Names, SetBlock(name) PROVE IInv'
<1> USE NamesAssumption, SentinelAssumption, DistinctSentinels
<1>1. CASE Abort
  BY <1>1, AbortKeeps
<1>2. CASE /\ blocks.left[name] # Absent
           /\ current_block' = blocks.left[name]
           /\ insert' = blocks.left[name]
           /\ Done
           /\ UNCHANGED <<stack, keep_stack, vars, functions, module, blocks, ir>>
  <2> DEFINE b == blocks.left[name]
  <2>1. blocks.left \in [Names -> Blocks \cup {Absent}]
        /\ blocks.right \in [Blocks -> Names \cup {Absent}]
    BY DEF IInv, TypeOK, Bimaps
  <2>2. b \in Blocks /\ blocks.right[b] = name /\ owner[b] # Absent
    BY <1>2, <2>1 DEF IInv, Mirror, BlocksExist
  <2>3. UNCHANGED <<stack, keep_stack, vars, functions, module, blocks, parent, owner,
                    created, filled, count>> /\ status' = "done" /\ emitted' = <<>>
    BY <1>2 DEF ir, Done
  <2>4. TypeOK'
    BY <1>2, <2>2, <2>3 DEF IInv, TypeOK
  <2>5. Mirror(blocks)' /\ OrphansStayEmpty'
    BY <2>3 DEF IInv, OrphansStayEmpty
  <2>6. BlocksExist' /\ InsertNamed' /\ CurrentBlockNamed'
    BY <1>2, <2>2, <2>3 DEF IInv, BlocksExist, InsertNamed, CurrentBlockNamed
  <2>7. QED BY <2>4, <2>5, <2>6 DEF IInv
<1>3. QED BY <1>1, <1>2 DEF SetBlock

LEMMA RegisterBlockKeeps ==
  ASSUME IInv, NEW name \in Names, NEW b \in Blocks, RegisterBlock(name, b)
  PROVE  IInv'
<1> USE NamesAssumption, SentinelAssumption, DistinctSentinels
<1>1. blocks \in Bimaps(Names, Blocks) /\ Mirror(blocks)
  BY DEF IInv, TypeOK
<1>2. blocks.left \in [Names -> Blocks \cup {Absent}]
      /\ blocks.right \in [Blocks -> Names \cup {Absent}]
  BY <1>1 DEF Bimaps
<1>3. /\ blocks' \in Bimaps(Names, Blocks) /\ Mirror(blocks)'
      /\ \A n \in Names : blocks.left[n] # Absent => blocks'.left[n] = blocks.left[n]
      /\ \A n \in Names : blocks'.left[n] \in {blocks.left[n], b}
      /\ \A c \in Blocks : blocks.right[c] # Absent => blocks'.right[c] = blocks.right[c]
  BY <1>1, RegisteringKeepsNames DEF RegisterBlock
<1>4. UNCHANGED <<stack, keep_stack, vars, functions, module, current_block, insert, parent,
                  owner, created, filled, count>> /\ emitted' = <<>> /\ owner[b] # Absent
      /\ status' \in {"threw", "done"}
  BY DEF RegisterBlock, ir
<1>5. TypeOK'
  BY <1>3, <1>4 DEF IInv, TypeOK
<1>6. BlocksExist'
  <2>1. \A n \in Names : blocks'.left[n] # Absent => owner[blocks'.left[n]] # Absent
    BY <1>3, <1>4 DEF IInv, BlocksExist
  <2>2. QED BY <1>4, <2>1 DEF IInv, BlocksExist
<1>7. InsertNamed' /\ OrphansStayEmpty'
  BY <1>3, <1>4 DEF IInv, TypeOK, InsertNamed, OrphansStayEmpty
<1>8. CurrentBlockNamed'
  <2>1. current_block # Unset => current_block \in Blocks
          /\ blocks.right[current_block] # Absent
          /\ blocks.left[blocks.right[current_block]] = current_block
          /\ blocks.right[current_block] \in Names /\ insert = current_block
    BY <1>2 DEF IInv, CurrentBlockNamed, TypeOK
  <2>2. current_block # Unset =>
          /\ blocks'.right[current_block] = blocks.right[current_block]
          /\ blocks'.left[blocks.right[current_block]] = current_block
    BY <1>3, <2>1
  <2>3. QED BY <1>4, <2>1, <2>2 DEF CurrentBlockNamed
<1>9. QED BY <1>3, <1>5, <1>6, <1>7, <1>8 DEF IInv

\* Opening functions and naming modules touches no block.
LEMMA OpeningKeeps ==
  ASSUME IInv, functions' \in Seq(Functions), module' \in Modules \cup {None},
         parent' \in [Functions -> Modules \cup {None, Absent}], Done,
         UNCHANGED <<stack, keep_stack, vars, blocks, current_block, insert,
                     owner, created, filled, count>>
  PROVE  IInv'
BY DEF Done, IInv, TypeOK, BlocksExist, InsertNamed, CurrentBlockNamed, OrphansStayEmpty

LEMMA ModuleKeeps == ASSUME IInv, NEW m \in Modules, Module(m) PROVE IInv'
BY OpeningKeeps DEF Module, IInv, TypeOK, ir

LEMMA FunctionKeeps == ASSUME IInv, FunctionNext PROVE IInv'
<1>1. PICK f \in Functions : Function(f) \/ PushFunction(f) \/ CreateFunction(f)
  BY DEF FunctionNext
<1>2. Append(functions, f) \in Seq(Functions)
  BY DEF IInv, TypeOK
<1>3. CASE Function(f)
  BY <1>2, <1>3, OpeningKeeps DEF Function, IInv, TypeOK, ir
<1>4. CASE PushFunction(f)
  BY <1>2, <1>4, OpeningKeeps DEF PushFunction, IInv, TypeOK, ir
<1>5. CASE CreateFunction(f)
  BY <1>2, <1>5, OpeningKeeps DEF CreateFunction, IInv, TypeOK
<1>6. QED BY <1>1, <1>3, <1>4, <1>5
-----------------------------------------------------------------------------
(* Actions on the operand stack, and the whole step. *)

LEMMA StackNextKeeps == ASSUME IInv, StackNext PROVE IInv'
<1>1. stack \in Seq(Values) /\ keep_stack \in BOOLEAN
  BY DEF IInv, TypeOK
<1>2. CASE KeepStack
  BY <1>1, <1>2, StackKeeps DEF KeepStack
<1>3. ASSUME NEW v \in Given, PushValue(v) PROVE IInv'
  <2>1. v \in Values
    BY <1>1, GivenType
  <2>2. Append(stack, v) \in Seq(Values)
    BY <1>1, <2>1
  <2>3. QED BY <1>1, <1>3, <2>2, StackKeeps DEF PushValue
<1>4. ASSUME NEW n \in 0..MaxStack + 1, Pop(n) PROVE IInv'
  <2>1. CASE Abort
    BY <2>1, AbortKeeps
  <2>2. CASE /\ n <= Len(stack)
             /\ stack' = SubSeq(stack, 1, Len(stack) - n)
             /\ Done
             /\ UNCHANGED <<keep_stack, vars, functions, module, blocks, current_block, insert, ir>>
    <3>1. n \in Nat
      BY BoundsAssumption
    <3>2. Len(stack) - n \in 0..Len(stack)
      BY <1>1, <2>2, <3>1
    <3>3. SubSeq(stack, 1, Len(stack) - n) \in Seq(Values)
      BY <1>1, <3>2
    <3>4. QED BY <1>1, <2>2, <3>3, StackKeeps
  <2>3. QED BY <1>4, <2>1, <2>2 DEF Pop
<1>5. CASE Last
  <2>1. CASE Abort
    BY <2>1, AbortKeeps
  <2>2. CASE Done /\ UNCHANGED <<fields, ir>>
    BY <1>1, <2>2, StackKeeps DEF fields
  <2>3. QED BY <1>5, <2>1, <2>2 DEF Last
<1>6. QED BY <1>2, <1>3, <1>4, <1>5 DEF StackNext

LEMMA ValueNextKeeps ==
  ASSUME IInv, NEW readable \in SUBSET Names, ValueNext(readable) PROVE IInv'
<1>1. ASSUME NEW name \in Names \cup {None}, Alloc(name) PROVE IInv'
  BY <1>1, AllocKeeps
<1>2. ASSUME NEW name \in readable, NEW ty \in ValueTypes, Load(name, ty) PROVE IInv'
  BY <1>2, LoadKeeps
<1>3. CASE Load(EmptyName, None)
  BY <1>3, LoadKeeps, NamesAssumption
<1>4. ASSUME NEW from \in Option, NEW ty \in ValueTypes, LoadPtr(from, ty) PROVE IInv'
  BY <1>4, LoadPtrKeeps
<1>5. ASSUME NEW val \in Option, NEW dst \in Option, Store(val, dst) PROVE IInv'
  BY <1>5, StoreKeeps
<1>6. ASSUME NEW op \in {"bin", "cmp"}, NEW lhs \in Option, NEW rhs \in Option,
             Binary(op, lhs, rhs)
      PROVE  IInv'
  BY <1>6, BinaryKeeps
<1>7. ASSUME NEW vals \in {<<>>} \cup (Given \X Given), Phi(vals) PROVE IInv'
  BY <1>7, PhiKeeps
<1>8. ASSUME NEW val \in Option, NEW to \in ValueTypes, Cast(val, to) PROVE IInv'
  BY <1>8, CastKeeps
<1>9. ASSUME NEW cond \in Option, NEW targeted \in BOOLEAN, CondBr(cond, targeted)
      PROVE  IInv'
  BY <1>9, CondBrKeeps
<1>10. CASE Branch
  BY <1>10, BranchKeeps
<1>11. ASSUME NEW fn \in Functions, NEW n \in 0..MaxArgs, NEW opts \in [1..n -> Option],
              Call(fn, opts)
       PROVE  IInv'
  BY <1>11, CallKeeps
<1>12. ASSUME NEW val \in Option, Ret(val) PROVE IInv'
  BY <1>12, RetKeeps
<1>13. QED
  BY <1>1, <1>2, <1>3, <1>4, <1>5, <1>6, <1>7, <1>8, <1>9, <1>10, <1>11, <1>12
  DEF ValueNext

LEMMA IInvStep == IInv /\ [Next]_all => IInv'
<1> SUFFICES ASSUME IInv, [Next]_all PROVE IInv'
  OBVIOUS
<1>1. CASE ValueNext(Names)
  BY <1>1, ValueNextKeeps
<1>2. CASE StackNext
  BY <1>2, StackNextKeeps
<1>3. CASE FunctionNext
  BY <1>3, FunctionKeeps
<1>4. CASE RegisterNext
  BY <1>4, RegisterBlockKeeps DEF RegisterNext
<1>5. ASSUME NEW name \in Names, CreateBlock(name) \/ SetBlock(name) PROVE IInv'
  BY <1>5, CreateBlockKeeps, SetBlockKeeps
<1>6. ASSUME NEW m \in Modules, Module(m) PROVE IInv'
  BY <1>6, ModuleKeeps
<1>7. CASE UNCHANGED all
  BY <1>7 DEF all, fields, ir, IInv, TypeOK, BlocksExist, InsertNamed, CurrentBlockNamed,
              OrphansStayEmpty
<1>8. QED BY <1>1, <1>2, <1>3, <1>4, <1>5, <1>6, <1>7 DEF Next

LEMMA IInvAlways == Spec => []IInv
BY IInvInit, IInvStep, PTL DEF Spec

\* The builder keeps its types: popvalue finds a value for every operand of
\* every action, and no emitted instruction has a hole in it.
THEOREM TypeCorrect == Spec => []TypeOK
<1>1. IInv => TypeOK
  BY DEF IInv
<1>2. QED BY <1>1, IInvAlways, PTL

\* The current block is where instructions go, and it can be found by name.
THEOREM CurrentBlockStaysNamed == Spec => []CurrentBlockNamed
<1>1. IInv => CurrentBlockNamed
  BY DEF IInv
<1>2. QED BY <1>1, IInvAlways, PTL

\* A block left behind by a create_block that threw is never built into.
THEOREM OrphansAreNeverFilled == Spec => []OrphansStayEmpty
<1>1. IInv => OrphansStayEmpty
  BY DEF IInv
<1>2. QED BY <1>1, IInvAlways, PTL
-----------------------------------------------------------------------------
(* What a step does to the fields. *)

\* An action on values moves no field but the stack and the variables, of
\* which it sets one at most, and one that throws moves none.
LEMMA ValueNextShape ==
  ASSUME NEW readable, ValueNext(readable)
  PROVE  /\ UNCHANGED <<keep_stack, functions, module, blocks, current_block, insert, owner>>
         /\ status' = "threw" => UNCHANGED fields
         /\ \/ UNCHANGED vars
            \/ \E name \in Names : vars' = [vars EXCEPT ![name] = Made(1, Ptr)]
<1> DEFINE Shape ==
      /\ UNCHANGED <<keep_stack, functions, module, blocks, current_block, insert, owner>>
      /\ status' = "threw" => UNCHANGED fields
      /\ \/ UNCHANGED vars
         \/ \E name \in Names : vars' = [vars EXCEPT ![name] = Made(1, Ptr)]
<1>1. ASSUME Abort PROVE Shape
  BY <1>1 DEF Abort, fields, ir
<1>2. ASSUME NEW n, NEW instrs, NEW stk, Emit(n, instrs, stk), UNCHANGED vars PROVE Shape
  BY <1>2 DEF Emit
<1> HIDE DEF Shape
<1>3. ASSUME NEW name \in Names \cup {None}, Alloc(name) PROVE Shape
  <2>1. CASE name # None /\ Emit(1, <<Instr("alloc", <<>>)>>, Append(stack, Made(1, Ptr)))
             /\ vars' = [vars EXCEPT ![name] = Made(1, Ptr)]
    BY <2>1 DEF Emit, Shape
  <2>2. QED BY <1>1, <1>2, <1>3, <2>1 DEF Alloc
<1>4. ASSUME NEW name, NEW ty, Load(name, ty) PROVE Shape
  <2>1. CASE UNCHANGED <<fields, ir>>
    BY <2>1 DEF Shape, fields, ir
  <2>2. QED BY <1>1, <1>2, <1>4, <2>1 DEF Load
<1>5. ASSUME NEW from, NEW ty, LoadPtr(from, ty) PROVE Shape
  BY <1>1, <1>2, <1>5 DEF LoadPtr
<1>6. ASSUME NEW val, NEW dst, Store(val, dst) PROVE Shape
  BY <1>1, <1>2, <1>6 DEF Store
<1>7. ASSUME NEW op, NEW lhs, NEW rhs, Binary(op, lhs, rhs) PROVE Shape
  BY <1>1, <1>2, <1>7 DEF Binary
<1>8. ASSUME NEW vals, Phi(vals) PROVE Shape
  BY <1>1, <1>2, <1>8 DEF Phi
<1>9. ASSUME NEW val, NEW to, Cast(val, to) PROVE Shape
  BY <1>1, <1>2, <1>9 DEF Cast
<1>10. ASSUME NEW cond, NEW targeted, CondBr(cond, targeted) PROVE Shape
  BY <1>1, <1>2, <1>10 DEF CondBr
<1>11. ASSUME Branch PROVE Shape
  BY <1>2, <1>11 DEF Branch
<1>12. ASSUME NEW fn, NEW opts, Call(fn, opts) PROVE Shape
  BY <1>1, <1>2, <1>12 DEF Call
<1>13. ASSUME NEW val, Ret(val) PROVE Shape
  BY <1>1, <1>2, <1>13 DEF Ret
<1>14. Shape
  BY <1>3, <1>4, <1>5, <1>6, <1>7, <1>8, <1>9, <1>10, <1>11, <1>12, <1>13 DEF ValueNext
<1>15. QED BY <1>14 DEF Shape

\* Only create_block and the public push touch the block names, and they do
\* so by one insert.
LEMMA BlocksStep ==
  ASSUME Next
  PROVE  \/ UNCHANGED blocks
         \/ \E name \in Names, b \in Blocks : blocks' = Inserted(blocks, name, b)
<1>1. CASE ValueNext(Names)
  BY <1>1, ValueNextShape
<1>2. CASE StackNext
  BY <1>2 DEF StackNext, KeepStack, PushValue, Pop, Last, Abort, fields
<1>3. CASE FunctionNext
  BY <1>3 DEF FunctionNext, Function, PushFunction, CreateFunction
<1>4. CASE RegisterNext
  BY <1>4 DEF RegisterNext, RegisterBlock
<1>5. ASSUME NEW name \in Names, CreateBlock(name) PROVE \E b \in Blocks : blocks' = Inserted(blocks, name, b)
  BY <1>5 DEF CreateBlock
<1>6. ASSUME NEW name \in Names, SetBlock(name) PROVE UNCHANGED blocks
  BY <1>6 DEF SetBlock, Abort, fields
<1>7. ASSUME NEW m \in Modules, Module(m) PROVE UNCHANGED blocks
  BY <1>7 DEF Module
<1>8. QED BY <1>1, <1>2, <1>3, <1>4, <1>5, <1>6, <1>7 DEF Next

NamePairs == {<<n, blocks.left[n]>> : n \in {m \in Names : blocks.left[m] # Absent}}

\* The names of the blocks only ever grow, one unused name and one unused
\* block at a time: they implement the abstract bijection that loses no pair
\* (builder.hpp:430-432, 588-600).
THEOREM BlockNamesRefine == Spec => ImplementsBijection
<1>1. Init => BlockNames!Init
  BY DEF Init, BlockNames!Init, EmptyBimap
<1>2. IInv /\ [Next]_all => [BlockNames!Grow]_(NamePairs)
  <2> SUFFICES ASSUME IInv, [Next]_all PROVE [BlockNames!Grow]_(NamePairs)
    OBVIOUS
  <2> USE NamesAssumption, SentinelAssumption
  <2>1. CASE UNCHANGED blocks
    BY <2>1 DEF NamePairs
  <2>2. CASE UNCHANGED all
    BY <2>2 DEF NamePairs, all, fields
  <2>3. ASSUME NEW n \in Names, NEW b \in Blocks, blocks' = Inserted(blocks, n, b)
        PROVE  [BlockNames!Grow]_(NamePairs)
    <3>1. blocks \in Bimaps(Names, Blocks) /\ Mirror(blocks)
      BY DEF IInv, TypeOK
    <3>2. blocks.left \in [Names -> Blocks \cup {Absent}]
          /\ blocks.right \in [Blocks -> Names \cup {Absent}]
      BY <3>1 DEF Bimaps
    <3>3. CASE blocks.left[n] = Absent /\ blocks.right[b] = Absent
      <4>1. blocks'.left = [blocks.left EXCEPT ![n] = b]
        BY <2>3, <3>1, <3>3, InsertedAllOrNothing
      <4>2. \A m \in Names : blocks.left[m] # b
        BY <3>1, <3>2, <3>3 DEF Mirror
      <4>3. BlockNames!Unused(n, b)
        BY <3>3, <4>2 DEF BlockNames!Unused
      <4>4. NamePairs' = NamePairs \cup {<<n, b>>}
        BY <3>2, <3>3, <4>1 DEF NamePairs
      <4>5. BlockNames!Add(n, b)
        BY <4>3, <4>4 DEF BlockNames!Add, NamePairs
      <4>6. QED BY <4>5 DEF BlockNames!Grow
    <3>4. CASE ~(blocks.left[n] = Absent /\ blocks.right[b] = Absent)
      BY <2>3, <3>1, <3>4, InsertedAllOrNothing DEF NamePairs
    <3>5. QED BY <3>3, <3>4
  <2>4. QED BY <2>1, <2>2, <2>3, BlocksStep
<1>3. QED
  BY <1>1, <1>2, IInvAlways, PTL
  DEF Spec, ImplementsBijection, BlockNames!GrowingSpec, NamePairs

\* An action that throws leaves its builder as it was: create_block changes
\* the map of names only when it does not throw, and load nothing at all.
THEOREM ThrowIsHarmless == Spec => ThrowKeepsBuilder
<1>1. IInv /\ [Next]_all => [status' = "threw" => UNCHANGED fields]_all
  <2> SUFFICES ASSUME IInv, Next, status' = "threw" PROVE UNCHANGED fields
    OBVIOUS
  <2>1. CASE ValueNext(Names)
    BY <2>1, ValueNextShape
  <2>2. CASE StackNext
    BY <2>2 DEF StackNext, KeepStack, PushValue, Pop, Last, Abort, Done
  <2>3. CASE FunctionNext
    BY <2>3 DEF FunctionNext, Function, PushFunction, CreateFunction, Done
  <2>4. ASSUME NEW name \in Names, NEW b \in Blocks, InsertThrows(blocks, name, b),
               blocks' = Inserted(blocks, name, b)
        PROVE  UNCHANGED blocks
    <3>1. blocks \in Bimaps(Names, Blocks)
      BY DEF IInv, TypeOK
    <3>2. QED BY <2>4, <3>1, InsertedAllOrNothing DEF InsertThrows
  <2>5. CASE RegisterNext
    BY <2>4, <2>5 DEF RegisterNext, RegisterBlock, fields
  <2>6. ASSUME NEW name \in Names, CreateBlock(name) PROVE UNCHANGED fields
    BY <2>4, <2>6 DEF CreateBlock, Enter, fields
  <2>7. ASSUME NEW name \in Names, SetBlock(name) PROVE UNCHANGED fields
    BY <2>7 DEF SetBlock, Abort, Done
  <2>8. ASSUME NEW m \in Modules, Module(m) PROVE UNCHANGED fields
    BY <2>8 DEF Module, Done
  <2>9. QED BY <2>1, <2>2, <2>3, <2>5, <2>6, <2>7, <2>8 DEF Next
<1>2. QED BY <1>1, IInvAlways, PTL DEF Spec, ThrowKeepsBuilder
-----------------------------------------------------------------------------
(* What an action on values does, whichever it is. *)

\* The operands of an action at the same places.
From(opts, args) ==
  \A i \in DOMAIN args : i \in DOMAIN opts /\ args[i] = Operands(opts)[i]

\* What an action may put on the stack: a constant, the last of the n values
\* it made, or its only operand if it made none.
Result(n, opts, v) ==
  \/ IsLiteral(v)
  \/ v.id = count + n /\ n # 0 /\ v.fn = Here
  \/ n = 0 /\ Len(opts) = 1 /\ v = Operands(opts)[1]

\* What an instruction may refer to: operands, a variable or two values that
\* were passed; a call refers to its operands and to what it made of them.
Refers(readable, opts, instr) ==
  /\ instr.op \in Ops =>
       \/ From(opts, instr.args)
       \/ \E name \in readable : vars[name] # Absent /\ instr.args = <<vars[name]>>
       \/ instr.args \in Given \X Given
  /\ instr.op \notin Ops =>
       \A i \in DOMAIN instr.args :
         \/ IsLiteral(instr.args[i]) \/ instr.args[i].fn = Here
         \/ i \in DOMAIN opts /\ instr.args[i] = Operands(opts)[i]
  /\ instr.op = "ret" =>
       functions # <<>> /\ (instr.args = <<>> <=> Signature[Newest].ret = Void)

Effect(readable, n, opts) ==
  /\ Enough(opts)
  /\ Emit(n, emitted', stack')
  /\ \/ stack' = Rest(opts)
     \/ \E v \in Values : Result(n, opts, v) /\ stack' = Append(Rest(opts), v)
  /\ \A k \in DOMAIN emitted' : Refers(readable, opts, emitted'[k])

\* Where nothing is asked for nothing is popped.
LEMMA NothingPopped == ASSUME IInv PROVE Enough(<<>>) /\ Rest(<<>>) = stack
<1>1. stack \in Seq(Values) /\ keep_stack \in BOOLEAN
  BY DEF IInv, TypeOK
<1>2. Missing(<<>>) = {}
  BY DEF Missing
<1>3. Taken(<<>>, Len(<<>>)) = 0
  <2>1. {j \in Missing(<<>>) : j <= Len(<<>>)} = {}
    BY <1>2
  <2>2. QED BY <2>1, FS_EmptySet DEF Taken
<1>4. SubSeq(stack, 1, Len(stack)) = stack
  BY <1>1
<1>5. QED BY <1>1, <1>2, <1>3, <1>4 DEF Enough, Rest

\* Of an instruction that refers to the operands of its action alone.
LEMMA FromRefers ==
  ASSUME NEW readable, NEW opts, NEW op \in Ops, NEW args, From(opts, args),
         op = "ret" => functions # <<>> /\ (args = <<>> <=> Signature[Newest].ret = Void)
  PROVE  \A k \in DOMAIN <<Instr(op, args)>> : Refers(readable, opts, <<Instr(op, args)>>[k])
BY DEF Refers, Instr

\* The effect of an action that makes a value, or a constant, of its operands,
\* and one instruction at most.
LEMMA EmitsFrom ==
  ASSUME IInv, NEW readable, NEW opts \in Seq(Option), Enough(opts),
         NEW op \in Ops, op # "ret", NEW args, From(opts, args),
         NEW v \in Values, NEW n \in {0, 1}, Result(n, opts, v),
         \/ n = 1 /\ Emit(1, <<Instr(op, args)>>, Append(Rest(opts), v))
         \/ n = 0 /\ Emit(0, <<>>, Append(Rest(opts), v))
  PROVE  Effect(readable, n, opts)
<1>1. stack' = Append(Rest(opts), v) /\ Emit(n, emitted', stack')
  BY DEF Emit
<1>2. emitted' = <<>> \/ emitted' = <<Instr(op, args)>>
  BY DEF Emit
<1>3. \A k \in DOMAIN emitted' : Refers(readable, opts, emitted'[k])
  BY <1>2, FromRefers
<1>4. QED BY <1>1, <1>3 DEF Effect

\* Values just made are fit to be results.
LEMMA MadeResult ==
  ASSUME IInv, NEW n \in Nat \ {0}, NEW ty \in Types, NEW opts
  PROVE  Made(n, ty) \in Values /\ Result(n, opts, Made(n, ty))
<1>1. Made(n, ty) \in Values
  BY MadeType DEF IInv
<1>2. QED BY <1>1 DEF Result, Made

LEMMA LiteralResult ==
  ASSUME NEW n, NEW ty \in Types, NEW opts
  PROVE  Literal(ty) \in Values /\ Result(n, opts, Literal(ty))
BY LiteralType DEF Result, Literal, IsLiteral

\* One case analysis for all that follows: an action on values aborts or
\* throws and changes nothing, or pops operands, pushes one result of its own
\* at most, and makes instructions of what it popped, loaded or was given.
LEMMA ValueNextEffect ==
  ASSUME IInv, NEW readable \in SUBSET Names, ValueNext(readable)
  PROVE  \/ emitted' = <<>> /\ UNCHANGED <<fields, ir>>
         \/ \E n \in Nat, opts \in Seq(Option) : Effect(readable, n, opts)
<1> DEFINE Goal == \/ emitted' = <<>> /\ UNCHANGED <<fields, ir>>
                   \/ \E n \in Nat, opts \in Seq(Option) : Effect(readable, n, opts)
<1>1. ASSUME Abort PROVE Goal
  BY <1>1 DEF Abort
<1>2. ASSUME NEW n \in Nat, NEW opts \in Seq(Option), Effect(readable, n, opts) PROVE Goal
  BY <1>2
<1> HIDE DEF Goal
<1>3. /\ 1 \in Nat \ {0} /\ 0 \in Nat /\ 1 \in {0, 1} /\ 0 \in {0, 1}
      /\ Ptr \in Types /\ Bool \in Types /\ Void \in Types /\ ValueTypes \subseteq Types
  BY TypesAssumption DEF ValueTypes
<1>4. /\ <<>> \in Seq(Option)
      /\ \A x \in Option : <<x>> \in Seq(Option)
      /\ \A x, y \in Option : <<x, y>> \in Seq(Option)
  OBVIOUS
<1>5. ASSUME NEW opts \in Seq(Option), Enough(opts)
      PROVE  /\ opts \in Seq(Options) /\ DOMAIN opts = 1..Len(opts)
             /\ Operands(opts) \in Seq(Values)
             /\ DOMAIN Operands(opts) = 1..Len(opts)
             /\ From(opts, Operands(opts))
  <2>1. opts \in Seq(Options) /\ DOMAIN opts = 1..Len(opts)
    BY OptionType
  <2>2. Operands(opts) \in Seq(Values) /\ DOMAIN Operands(opts) = 1..Len(opts)
    BY <1>5, <2>1, PoppedType
  <2>3. QED BY <2>1, <2>2 DEF From
<1>6. \A opts : From(opts, <<>>)
  BY DEF From
<1>7. \A op \in Ops : op \in {"alloc", "load", "store", "bin", "cmp", "phi", "cast",
                              "condbr", "branch", "ret"}
  BY DEF Ops
<1>8. ASSUME NEW name, Alloc(name) PROVE Goal
  <2>1. CASE Emit(1, <<Instr("alloc", <<>>)>>, Append(stack, Made(1, Ptr)))
    <3>1. Made(1, Ptr) \in Values /\ Result(1, <<>>, Made(1, Ptr))
      BY <1>3, MadeResult
    <3>2. "alloc" \in Ops /\ "alloc" # "ret"
      BY DEF Ops
    <3>3. Effect(readable, 1, <<>>)
      BY <1>3, <1>4, <1>6, <2>1, <3>1, <3>2, NothingPopped, EmitsFrom
    <3>4. QED BY <1>2, <1>3, <1>4, <3>3
  <2>2. QED BY <1>1, <1>8, <2>1 DEF Alloc
<1>9. ASSUME NEW name \in Names, NEW ty \in ValueTypes \cup {None},
             name \in readable \/ ty = None, Load(name, ty)
      PROVE  Goal
  <2>1. CASE emitted' = <<>> /\ UNCHANGED <<fields, ir>>
    BY <2>1 DEF Goal
  <2>2. CASE /\ vars[name] # Absent /\ ty # None
             /\ Emit(1, <<Instr("load", <<vars[name]>>)>>, Append(stack, Made(1, ty)))
    <3>1. Made(1, ty) \in Values /\ Result(1, <<>>, Made(1, ty))
      BY <1>3, <2>2, MadeResult
    <3>2. name \in readable /\ vars[name] # Absent
      BY <1>9, <2>2
    <3>3. emitted' = <<Instr("load", <<vars[name]>>)>>
          /\ stack' = Append(stack, Made(1, ty)) /\ Emit(1, emitted', stack')
      BY <2>2 DEF Emit
    <3>4. \A k \in DOMAIN emitted' : Refers(readable, <<>>, emitted'[k])
      BY <3>2, <3>3 DEF Refers, Instr, Ops
    <3>5. Effect(readable, 1, <<>>)
      BY <3>1, <3>3, <3>4, NothingPopped DEF Effect
    <3>6. QED BY <1>2, <1>3, <1>4, <3>5
  <2>3. QED BY <1>1, <1>9, <2>1, <2>2 DEF Load
<1>10. ASSUME NEW from \in Option, NEW ty \in ValueTypes, LoadPtr(from, ty) PROVE Goal
  <2> DEFINE opts == <<from>>
  <2>1. CASE /\ Enough(opts)
             /\ Emit(1, <<Instr("load", Operands(opts))>>, Append(Rest(opts), Made(1, ty)))
    <3>1. Made(1, ty) \in Values /\ Result(1, opts, Made(1, ty))
      BY <1>3, MadeResult
    <3>2. opts \in Seq(Option) /\ From(opts, Operands(opts))
      BY <1>4, <1>5, <2>1
    <3>3. "load" \in Ops /\ "load" # "ret"
      BY DEF Ops
    <3> HIDE DEF opts
    <3>4. Effect(readable, 1, opts)
      BY <1>3, <2>1, <3>1, <3>2, <3>3, EmitsFrom
    <3>5. QED BY <1>2, <1>3, <3>2, <3>4
  <2>2. QED BY <1>1, <1>10, <2>1 DEF LoadPtr
<1>11. ASSUME NEW val \in Option, NEW dst \in Option, Store(val, dst) PROVE Goal
  <2> DEFINE opts == <<val, dst>>
  <2>1. CASE Enough(opts) /\ Emit(1, <<Instr("store", Operands(opts))>>, Rest(opts))
    <3>1. opts \in Seq(Option) /\ From(opts, Operands(opts))
      BY <1>4, <1>5, <2>1
    <3>2. "store" \in Ops /\ "store" # "ret"
      BY DEF Ops
    <3> HIDE DEF opts
    <3>3. emitted' = <<Instr("store", Operands(opts))>> /\ stack' = Rest(opts)
          /\ Emit(1, emitted', stack')
      BY <2>1 DEF Emit
    <3>4. \A k \in DOMAIN emitted' : Refers(readable, opts, emitted'[k])
      BY <3>1, <3>2, <3>3, FromRefers
    <3>5. Effect(readable, 1, opts)
      BY <2>1, <3>3, <3>4 DEF Effect
    <3>6. QED BY <1>2, <1>3, <3>1, <3>5
  <2>2. QED BY <1>1, <1>11, <2>1 DEF Store
<1>12. ASSUME NEW op \in {"bin", "cmp"}, NEW lhs \in Option, NEW rhs \in Option,
              Binary(op, lhs, rhs)
       PROVE  Goal
  <2> DEFINE opts == <<lhs, rhs>>
             args == Operands(opts)
             ty   == IF op = "cmp" THEN Bool ELSE args[1].ty
  <2>1. CASE ~Enough(opts)
    BY <1>1, <1>12, <2>1 DEF Binary
  <2>2. CASE Enough(opts)
    <3>1. opts \in Seq(Option) /\ From(opts, args) /\ args \in Seq(Values) /\ DOMAIN args = 1..2
      BY <1>4, <1>5, <2>2
    <3>2. ty \in Types
      <4>1. args[1] \in Values
        BY <3>1
      <4>2. args[1].ty \in Types
        BY <4>1 DEF Values
      <4>3. QED BY <1>3, <4>2
    <3>3. op \in Ops /\ op # "ret"
      BY DEF Ops
    <3>4. IF Folds(args) THEN Emit(0, <<>>, Append(Rest(opts), Literal(ty)))
          ELSE Emit(1, <<Instr(op, args)>>, Append(Rest(opts), Made(1, ty)))
      BY <1>12, <2>2 DEF Binary, Abort
    <3> HIDE DEF opts, args, ty
    <3>5. CASE Folds(args)
      <4>1. Literal(ty) \in Values /\ Result(0, opts, Literal(ty))
        BY <3>2, LiteralResult
      <4>2. Effect(readable, 0, opts)
        BY <1>3, <2>2, <3>1, <3>3, <3>4, <3>5, <4>1, EmitsFrom
      <4>3. QED BY <1>2, <1>3, <3>1, <4>2
    <3>6. CASE ~Folds(args)
      <4>1. Made(1, ty) \in Values /\ Result(1, opts, Made(1, ty))
        BY <1>3, <3>2, MadeResult
      <4>2. Effect(readable, 1, opts)
        BY <1>3, <2>2, <3>1, <3>3, <3>4, <3>6, <4>1, EmitsFrom
      <4>3. QED BY <1>2, <1>3, <3>1, <4>2
    <3>7. QED BY <3>5, <3>6
  <2>3. QED BY <2>1, <2>2
<1>13. ASSUME NEW vals \in {<<>>} \cup (Given \X Given), Phi(vals) PROVE Goal
  <2>1. CASE vals = <<>>
    BY <1>1, <1>13, <2>1 DEF Phi
  <2>2. CASE vals # <<>>
    <3>1. PICK u \in Given, v \in Given : vals = <<u, v>>
      BY <2>2
    <3>2. u \in Values
      BY GivenType DEF IInv, TypeOK
    <3>3. vals[1].ty \in Types
      BY <3>1, <3>2 DEF Values
    <3>4. /\ Made(1, vals[1].ty) \in Values
          /\ Result(1, <<>>, Made(1, vals[1].ty))
      BY <1>3, <3>3, MadeResult
    <3>5. Emit(1, <<Instr("phi", vals)>>, Append(stack, Made(1, vals[1].ty)))
      BY <1>13, <2>2 DEF Phi
    <3>6. emitted' = <<Instr("phi", vals)>>
          /\ stack' = Append(stack, Made(1, vals[1].ty)) /\ Emit(1, emitted', stack')
      BY <3>5 DEF Emit
    <3>7. vals \in Given \X Given
      BY <2>2
    <3>8. \A k \in DOMAIN emitted' : Refers(readable, <<>>, emitted'[k])
      BY <3>6, <3>7 DEF Refers, Instr, Ops
    <3>9. Effect(readable, 1, <<>>)
      BY <3>4, <3>6, <3>8, NothingPopped DEF Effect
    <3>10. QED BY <1>2, <1>3, <1>4, <3>9
  <2>3. QED BY <2>1, <2>2
<1>14. ASSUME NEW val \in Option, NEW to \in ValueTypes, Cast(val, to) PROVE Goal
  <2> DEFINE opts == <<val>>
             arg  == Operands(opts)[1]
  <2>1. CASE ~Enough(opts)
    BY <1>1, <1>14, <2>1 DEF Cast
  <2>2. CASE Enough(opts)
    <3>1. opts \in Seq(Option) /\ Len(opts) = 1
          /\ Operands(opts) \in Seq(Values) /\ DOMAIN Operands(opts) = 1..1
      BY <1>4, <1>5, <2>2
    <3>2. arg \in Values /\ Result(0, opts, arg)
      BY <3>1 DEF Result
    <3>3. From(opts, <<arg>>)
      BY <3>1 DEF From
    <3>4. "cast" \in Ops /\ "cast" # "ret" /\ to \in Types
      BY <1>3 DEF Ops
    <3>5. IF arg.ty = to THEN Emit(0, <<>>, Append(Rest(opts), arg))
          ELSE IF IsLiteral(arg) THEN Emit(0, <<>>, Append(Rest(opts), Literal(to)))
          ELSE Emit(1, <<Instr("cast", <<arg>>)>>, Append(Rest(opts), Made(1, to)))
      BY <1>14, <2>2 DEF Cast, Abort
    <3> HIDE DEF opts, arg
    <3>6. Literal(to) \in Values /\ Result(0, opts, Literal(to))
      BY <3>4, LiteralResult
    <3>7. Made(1, to) \in Values /\ Result(1, opts, Made(1, to))
      BY <1>3, <3>4, MadeResult
    <3>8. ASSUME NEW v \in Values, Result(0, opts, v), Emit(0, <<>>, Append(Rest(opts), v))
          PROVE  Goal
      <4>1. Effect(readable, 0, opts)
        BY <1>3, <2>2, <3>1, <3>3, <3>4, <3>8, EmitsFrom
      <4>2. QED BY <1>2, <1>3, <3>1, <4>1
    <3>9. CASE Emit(1, <<Instr("cast", <<arg>>)>>, Append(Rest(opts), Made(1, to)))
      <4>1. Effect(readable, 1, opts)
        BY <1>3, <2>2, <3>1, <3>3, <3>4, <3>7, <3>9, EmitsFrom
      <4>2. QED BY <1>2, <1>3, <3>1, <4>1
    <3>10. QED BY <3>2, <3>5, <3>6, <3>8, <3>9
  <2>3. QED BY <2>1, <2>2
<1>15. ASSUME NEW cond \in Option, NEW targeted, CondBr(cond, targeted) PROVE Goal
  <2> DEFINE opts == <<cond>>
  <2>1. CASE /\ Enough(opts)
             /\ Emit(1, <<Instr("condbr", Operands(opts))>>, Append(Rest(opts), Made(1, Void)))
    <3>1. Made(1, Void) \in Values /\ Result(1, opts, Made(1, Void))
      BY <1>3, MadeResult
    <3>2. opts \in Seq(Option) /\ From(opts, Operands(opts))
      BY <1>4, <1>5, <2>1
    <3>3. "condbr" \in Ops /\ "condbr" # "ret"
      BY DEF Ops
    <3> HIDE DEF opts
    <3>4. Effect(readable, 1, opts)
      BY <1>3, <2>1, <3>1, <3>2, <3>3, EmitsFrom
    <3>5. QED BY <1>2, <1>3, <3>2, <3>4
  <2>2. QED BY <1>1, <1>15, <2>1 DEF CondBr
<1>16. ASSUME Branch PROVE Goal
  <2>1. Made(1, Void) \in Values /\ Result(1, <<>>, Made(1, Void))
    BY <1>3, MadeResult
  <2>2. "branch" \in Ops /\ "branch" # "ret"
    BY DEF Ops
  <2>3. Effect(readable, 1, <<>>)
    BY <1>3, <1>4, <1>6, <1>16, <2>1, <2>2, NothingPopped, EmitsFrom DEF Branch
  <2>4. QED BY <1>2, <1>3, <1>4, <2>3
<1>17. ASSUME NEW fn \in Functions, NEW n \in 0..MaxArgs, NEW opts \in [1..n -> Option],
              Call(fn, opts)
       PROVE  Goal
  <2> DEFINE params  == Signature[fn].params
             args    == Operands(opts)
             recast  == {i \in DOMAIN opts : args[i].ty # params[i] /\ ~IsLiteral(args[i])}
             casts   == [i \in DOMAIN opts |-> Cardinality({j \in recast : j <= i})]
             passed  == [i \in DOMAIN opts |->
                           IF args[i].ty = params[i] THEN args[i]
                           ELSE IF IsLiteral(args[i]) THEN Literal(params[i])
                           ELSE Made(casts[i], params[i])]
             made    == Cardinality(recast)
             casting == IF recast = {} THEN <<>> ELSE <<Instr("cast", args)>>
             res     == Made(made + 1, Signature[fn].ret)
  <2>1. n \in Nat /\ opts \in Seq(Option) /\ DOMAIN opts = 1..n
    BY BoundsAssumption
  <2>2. CASE ~(Enough(opts) /\ Len(opts) = Len(params))
    BY <1>1, <1>17, <2>2 DEF Call
  <2>3. CASE Enough(opts) /\ Len(opts) = Len(params)
    <3>1. Emit(made + 1, Append(casting, Instr(fn, passed)), Append(Rest(opts), res))
      BY <1>17, <2>3 DEF Call, Abort
    <3>2. From(opts, args)
      BY <1>5, <2>1, <2>3
    <3>3. made + 1 \in Nat \ {0}
      <4>1. recast \subseteq 1..n /\ IsFiniteSet(1..n)
        BY <2>1, FS_Interval
      <4>2. made \in Nat
        BY <4>1, FS_Subset, FS_CardinalityType
      <4>3. QED BY <4>2
    <3>4. res \in Values /\ Result(made + 1, opts, res)
      <4>1. Signature[fn].ret \in Types
        BY SignatureAssumption
      <4>2. QED BY <3>3, <4>1, MadeResult
    <3>5. \A i \in DOMAIN passed :
            \/ IsLiteral(passed[i]) \/ passed[i].fn = Here
            \/ i \in DOMAIN opts /\ passed[i] = args[i]
      <4>1. \A ty, k : IsLiteral(Literal(ty)) /\ Made(k, ty).fn = Here
        BY DEF IsLiteral, Literal, Made
      <4> HIDE DEF args, params, casts
      <4>2. QED BY <4>1
    <3>6. fn \notin Ops /\ fn # "ret" /\ "cast" \in Ops /\ "cast" # "ret"
      BY OpsAssumption DEF Ops
    <3> HIDE DEF params, args, recast, casts, passed, made, res
    <3>7. Refers(readable, opts, Instr(fn, passed))
      BY <3>5, <3>6 DEF Refers, Instr, args
    <3>8. Refers(readable, opts, Instr("cast", args))
      BY <3>2, <3>6 DEF Refers, Instr
    <3>9. /\ emitted' = Append(casting, Instr(fn, passed))
          /\ stack' = Append(Rest(opts), res)
          /\ Emit(made + 1, emitted', stack')
      BY <3>1 DEF Emit
    <3>10. \A k \in DOMAIN emitted' : emitted'[k] \in {Instr(fn, passed), Instr("cast", args)}
      <4> DEFINE both == {Instr(fn, passed), Instr("cast", args)}
      <4>1. Instr(fn, passed) \in both /\ Instr("cast", args) \in both
        OBVIOUS
      <4> HIDE DEF both
      <4>2. <<>> \in Seq(both) /\ <<Instr("cast", args)>> \in Seq(both)
        BY <4>1
      <4>3. casting \in Seq(both)
        BY <4>2, Zenon
      <4> HIDE DEF casting
      <4>4. Append(casting, Instr(fn, passed)) \in Seq(both)
        BY <4>1, <4>3
      <4>5. \A k \in DOMAIN emitted' : emitted'[k] \in both
        BY <3>9, <4>4
      <4>6. QED BY <4>5 DEF both
    <3>11. \A k \in DOMAIN emitted' : Refers(readable, opts, emitted'[k])
      BY <3>7, <3>8, <3>10
    <3>12. Effect(readable, made + 1, opts)
      BY <2>3, <3>4, <3>9, <3>11 DEF Effect
    <3>13. QED BY <1>2, <2>1, <3>3, <3>12
  <2>4. QED BY <2>2, <2>3
<1>18. ASSUME NEW val \in Option, Ret(val) PROVE Goal
  <2> DEFINE opts == <<val>>
             ret  == Signature[Newest].ret
  <2>1. CASE Abort
    BY <1>1, <2>1
  <2>2. CASE functions # <<>> /\ ret = Void /\ Emit(1, <<Instr("ret", <<>>)>>, stack)
    <3>1. emitted' = <<Instr("ret", <<>>)>> /\ stack' = stack /\ Emit(1, emitted', stack')
      BY <2>2 DEF Emit
    <3>2. "ret" \in Ops
      BY DEF Ops
    <3>3. \A k \in DOMAIN emitted' : Refers(readable, <<>>, emitted'[k])
      BY <1>6, <2>2, <3>1, <3>2, FromRefers
    <3>4. Effect(readable, 1, <<>>)
      BY <3>1, <3>3, NothingPopped DEF Effect
    <3>5. QED BY <1>2, <1>3, <1>4, <3>4
  <2>3. CASE /\ functions # <<>> /\ ret # Void
             /\ Enough(opts) /\ Emit(1, <<Instr("ret", Operands(opts))>>, Rest(opts))
    <3>1. opts \in Seq(Option) /\ From(opts, Operands(opts)) /\ DOMAIN Operands(opts) = 1..1
      BY <1>4, <1>5, <2>3
    <3>2. Operands(opts) # <<>>
      BY <3>1
    <3>3. "ret" \in Ops
      BY DEF Ops
    <3> HIDE DEF opts
    <3>4. emitted' = <<Instr("ret", Operands(opts))>> /\ stack' = Rest(opts)
          /\ Emit(1, emitted', stack')
      BY <2>3 DEF Emit
    <3>5. \A k \in DOMAIN emitted' : Refers(readable, opts, emitted'[k])
      BY <2>3, <3>1, <3>2, <3>3, <3>4, FromRefers
    <3>6. Effect(readable, 1, opts)
      BY <2>3, <3>4, <3>5 DEF Effect
    <3>7. QED BY <1>2, <1>3, <3>1, <3>6
  <2>4. QED BY <1>18, <2>1, <2>2, <2>3 DEF Ret, Newest
<1>19. Goal
  BY <1>8, <1>9, <1>10, <1>11, <1>12, <1>13, <1>14, <1>15, <1>16, <1>17, <1>18, NamesAssumption
  DEF ValueNext
<1>20. QED BY <1>19 DEF Goal
-----------------------------------------------------------------------------
(* The discipline of the operand stack. *)

\* What popvalue leaves is the stack without a number of its topmost values.
LEMMA RestIsBelow ==
  ASSUME IInv, NEW opts \in Seq(Options), Enough(opts)
  PROVE  \E n \in 0..Len(stack) : Rest(opts) = Discipline!Below(n)
<1>1. stack \in Seq(Values) /\ keep_stack \in BOOLEAN /\ Len(stack) \in Nat
  BY DEF IInv, TypeOK
<1>2. CASE keep_stack
  <2>1. SubSeq(stack, 1, Len(stack)) = stack
    BY <1>1
  <2>2. Discipline!Below(0) = stack
    BY <1>1, <2>1 DEF Discipline!Below
  <2>3. QED BY <1>1, <1>2, <2>2 DEF Rest
<1>3. CASE ~keep_stack
  <2>1. Taken(opts, Len(opts)) \in 0..Len(stack)
    BY <1>1, <1>3, TakenNat DEF Enough
  <2>2. QED BY <1>3, <2>1 DEF Rest, Discipline!Below
<1>4. QED BY <1>2, <1>3

\* Popping without a result, and popping with one, are steps of the
\* discipline.
LEMMA PoppingIsStep ==
  ASSUME IInv, NEW opts \in Seq(Options), Enough(opts),
         \/ stack' = Rest(opts)
         \/ \E v \in Values : stack' = Append(Rest(opts), v)
  PROVE  Discipline!Next
<1>1. PICK n \in 0..Len(stack) : Rest(opts) = Discipline!Below(n)
  BY RestIsBelow
<1>2. CASE stack' = Rest(opts)
  BY <1>1, <1>2 DEF Discipline!Next, Discipline!Consume
<1>3. ASSUME NEW v \in Values, stack' = Append(Rest(opts), v) PROVE Discipline!Next
  <2>1. Rest(opts) \in Seq(Values)
    BY PoppedType
  <2>2. stack' # <<>> /\ SubSeq(stack', 1, Len(stack') - 1) = Rest(opts)
    BY <1>3, <2>1
  <2>3. QED BY <1>1, <2>2 DEF Discipline!Next, Discipline!Replace
<1>4. QED BY <1>2, <1>3

\* So is putting a result on the stack without popping anything.
LEMMA PushingIsStep ==
  ASSUME IInv, NEW v \in Values, stack' = Append(stack, v)
  PROVE  Discipline!Next
<1>1. stack \in Seq(Values) /\ Len(stack) \in Nat
  BY DEF IInv, TypeOK
<1>2. Discipline!Below(0) = stack
  BY <1>1 DEF Discipline!Below
<1>3. stack' # <<>> /\ SubSeq(stack', 1, Len(stack') - 1) = stack
  BY <1>1
<1>4. 0 \in 0..Len(stack)
  BY <1>1
<1>5. QED BY <1>2, <1>3, <1>4 DEF Discipline!Next, Discipline!Replace

LEMMA ValueNextDisciplined ==
  ASSUME IInv, NEW readable \in SUBSET Names, ValueNext(readable)
  PROVE  [Discipline!Next]_stack
<1>1. ASSUME NEW n, NEW opts \in Seq(Option), Effect(readable, n, opts)
      PROVE  Discipline!Next
  <2>1. opts \in Seq(Options)
    BY OptionType
  <2>2. QED BY <1>1, <2>1, PoppingIsStep DEF Effect
<1>2. QED BY <1>1, ValueNextEffect DEF fields

LEMMA StackNextDisciplined ==
  ASSUME IInv, StackNext PROVE [Discipline!Next]_stack
<1>1. stack \in Seq(Values) /\ Len(stack) \in Nat
  BY DEF IInv, TypeOK
<1>2. CASE KeepStack
  BY <1>2 DEF KeepStack
<1>3. ASSUME NEW v \in Given, PushValue(v) PROVE Discipline!Next
  <2>1. v \in Values
    BY <1>1, GivenType
  <2>2. QED BY <1>3, <2>1, PushingIsStep DEF PushValue
<1>4. ASSUME NEW n \in 0..MaxStack + 1, Pop(n) PROVE [Discipline!Next]_stack
  <2>1. CASE n <= Len(stack) /\ stack' = SubSeq(stack, 1, Len(stack) - n)
    <3>1. n \in 0..Len(stack)
      BY <1>1, <2>1, BoundsAssumption
    <3>2. stack' = Discipline!Below(n)
      BY <2>1 DEF Discipline!Below
    <3>3. QED BY <3>1, <3>2 DEF Discipline!Next, Discipline!Consume
  <2>2. QED BY <1>4, <2>1 DEF Pop, Abort, fields
<1>5. CASE Last
  BY <1>5 DEF Last, Abort, fields
<1>6. QED BY <1>2, <1>3, <1>4, <1>5 DEF StackNext

\* Every action of the builder takes operands off the top of the stack and
\* puts at most one result there, and no action disturbs what lies below.
THEOREM StackRefines == Spec => ImplementsOperandStack
<1>1. Init => Discipline!Init
  BY DEF Init, Discipline!Init
<1>2. IInv /\ [Next]_all => [Discipline!Next]_stack
  <2> SUFFICES ASSUME IInv, [Next]_all PROVE [Discipline!Next]_stack
    OBVIOUS
  <2>1. CASE ValueNext(Names)
    BY <2>1, ValueNextDisciplined
  <2>2. CASE StackNext
    BY <2>2, StackNextDisciplined
  <2>3. CASE FunctionNext
    BY <2>3 DEF FunctionNext, Function, PushFunction, CreateFunction
  <2>4. CASE RegisterNext
    BY <2>4 DEF RegisterNext, RegisterBlock
  <2>5. ASSUME NEW name \in Names, CreateBlock(name) \/ SetBlock(name) PROVE UNCHANGED stack
    BY <2>5 DEF CreateBlock, SetBlock, Abort, fields
  <2>6. ASSUME NEW m \in Modules, Module(m) PROVE UNCHANGED stack
    BY <2>6 DEF Module
  <2>7. CASE UNCHANGED all
    BY <2>7 DEF all, fields
  <2>8. QED BY <2>1, <2>2, <2>3, <2>4, <2>5, <2>6, <2>7 DEF Next
<1>3. QED
  BY <1>1, <1>2, IInvAlways, PTL
  DEF Spec, ImplementsOperandStack, Discipline!Spec
-----------------------------------------------------------------------------
(* The order of the operands. *)

\* One more operand has been popped once a later one is missing.
LEMMA TakenGrows ==
  ASSUME NEW opts \in Seq(Options), NEW i \in 1..Len(opts), NEW j \in 1..Len(opts),
         i < j, opts[j] = None
  PROVE  Taken(opts, i) < Taken(opts, j)
<1> DEFINE S(k) == {l \in Missing(opts) : l <= k}
<1>1. S(j) \subseteq 1..Len(opts) /\ IsFiniteSet(1..Len(opts))
  <2>1. S(j) \subseteq 1..Len(opts)
    BY DEF Missing
  <2>2. QED BY <2>1, FS_Interval
<1>2. IsFiniteSet(S(j))
  BY <1>1, FS_Subset
<1>3. S(i) \subseteq S(j)
  BY DEF Missing
<1>4. j \in S(j) /\ j \notin S(i)
  BY DEF Missing
<1>5. IsFiniteSet(S(i)) /\ Cardinality(S(i)) <= Cardinality(S(j))
      /\ (Cardinality(S(i)) = Cardinality(S(j)) => S(i) = S(j))
  BY <1>2, <1>3, FS_Subset
<1>6. Cardinality(S(i)) \in Nat /\ Cardinality(S(j)) \in Nat
  BY <1>2, <1>5, FS_CardinalityType
<1>7. Cardinality(S(i)) # Cardinality(S(j))
  BY <1>4, <1>5
<1>8. Taken(opts, i) = Cardinality(S(i)) /\ Taken(opts, j) = Cardinality(S(j))
  BY DEF Taken
<1> HIDE DEF S
<1>9. QED BY <1>5, <1>6, <1>7, <1>8

\* What popvalue finds for an operand: what was given, the top of a kept
\* stack, or the value as deep as the number of operands popped before.
LEMMA OperandFound ==
  ASSUME IInv, NEW opts \in Seq(Option), Enough(opts), NEW i \in 1..Len(opts)
  PROVE  \/ opts[i] \in Given /\ Operands(opts)[i] = opts[i]
         \/ opts[i] = None /\ keep_stack /\ stack # <<>> /\ Operands(opts)[i] = Top
         \/ /\ opts[i] = None /\ ~keep_stack
            /\ Taken(opts, i) \in 1..Taken(opts, Len(opts))
            /\ Taken(opts, Len(opts)) \in Nat /\ Taken(opts, Len(opts)) <= Len(stack)
            /\ Operands(opts)[i] = stack[Len(stack) + 1 - Taken(opts, i)]
<1>1. opts \in Seq(Options) /\ DOMAIN opts = 1..Len(opts) /\ opts[i] \in Option
  BY OptionType
<1>2. stack \in Seq(Values) /\ keep_stack \in BOOLEAN
  BY DEF IInv, TypeOK
<1>3. Operands(opts)[i] = Operand(opts, i)
  BY <1>1 DEF Operands
<1>4. CASE opts[i] # None
  BY <1>1, <1>3, <1>4 DEF Operand, Option
<1>5. CASE opts[i] = None /\ keep_stack
  <2>1. i \in Missing(opts)
    BY <1>1, <1>5 DEF Missing
  <2>2. stack # <<>>
    BY <1>5, <2>1 DEF Enough
  <2>3. QED BY <1>3, <1>5, <2>2 DEF Operand
<1>6. CASE opts[i] = None /\ ~keep_stack
  <2>1. Taken(opts, Len(opts)) <= Len(stack)
    BY <1>6 DEF Enough
  <2>2. Taken(opts, i) \in 1..Taken(opts, Len(opts)) /\ Taken(opts, Len(opts)) \in Nat
    BY <1>1, <1>6, TakenType, TakenNat
  <2>3. QED BY <1>3, <1>6, <2>1, <2>2 DEF Operand
<1>7. QED BY <1>2, <1>4, <1>5, <1>6

LEMMA GivenLiteral == ASSUME ~Reuse PROVE \A v \in Given : IsLiteral(v)
BY DEF Given, Literals, Literal, IsLiteral

\* The operands come from the top of the stack downwards.
LEMMA OperandsOrdered ==
  ASSUME IInv, ~Reuse, StackInCreationOrder, NEW opts \in Seq(Option), Enough(opts),
         NEW i \in 1..Len(opts), NEW j \in 1..Len(opts), i < j
  PROVE  NotOlder(Operands(opts)[i], Operands(opts)[j])
<1>1. CASE opts[i] \in Given /\ Operands(opts)[i] = opts[i]
  BY <1>1, GivenLiteral DEF NotOlder
<1>2. CASE opts[j] \in Given /\ Operands(opts)[j] = opts[j]
  BY <1>2, GivenLiteral DEF NotOlder
<1>3. CASE keep_stack /\ Operands(opts)[i] = Top /\ Operands(opts)[j] = Top
  BY <1>3 DEF NotOlder
<1>4. CASE /\ opts[j] = None /\ ~keep_stack
           /\ Taken(opts, i) \in 1..Taken(opts, Len(opts))
           /\ Taken(opts, j) \in 1..Taken(opts, Len(opts))
           /\ Taken(opts, Len(opts)) \in Nat /\ Taken(opts, Len(opts)) <= Len(stack)
           /\ Operands(opts)[i] = stack[Len(stack) + 1 - Taken(opts, i)]
           /\ Operands(opts)[j] = stack[Len(stack) + 1 - Taken(opts, j)]
  <2>1. opts \in Seq(Options)
    BY OptionType
  <2>2. Taken(opts, i) < Taken(opts, j)
    BY <1>4, <2>1, TakenGrows
  <2>3. stack \in Seq(Values) /\ DOMAIN stack = 1..Len(stack) /\ Len(stack) \in Nat
    BY DEF IInv, TypeOK
  <2>4. /\ Len(stack) + 1 - Taken(opts, j) \in DOMAIN stack
        /\ Len(stack) + 1 - Taken(opts, i) \in DOMAIN stack
        /\ Len(stack) + 1 - Taken(opts, j) < Len(stack) + 1 - Taken(opts, i)
    BY <1>4, <2>2, <2>3
  <2>5. QED BY <1>4, <2>4 DEF StackInCreationOrder
<1>5. \/ opts[i] \in Given /\ Operands(opts)[i] = opts[i]
      \/ opts[i] = None /\ keep_stack /\ stack # <<>> /\ Operands(opts)[i] = Top
      \/ /\ opts[i] = None /\ ~keep_stack
         /\ Taken(opts, i) \in 1..Taken(opts, Len(opts))
         /\ Taken(opts, Len(opts)) \in Nat /\ Taken(opts, Len(opts)) <= Len(stack)
         /\ Operands(opts)[i] = stack[Len(stack) + 1 - Taken(opts, i)]
  BY OperandFound
<1>6. \/ opts[j] \in Given /\ Operands(opts)[j] = opts[j]
      \/ opts[j] = None /\ keep_stack /\ stack # <<>> /\ Operands(opts)[j] = Top
      \/ /\ opts[j] = None /\ ~keep_stack
         /\ Taken(opts, j) \in 1..Taken(opts, Len(opts))
         /\ Taken(opts, Len(opts)) \in Nat /\ Taken(opts, Len(opts)) <= Len(stack)
         /\ Operands(opts)[j] = stack[Len(stack) + 1 - Taken(opts, j)]
  BY OperandFound
<1>7. CASE keep_stack
  <2>1. /\ (opts[i] \in Given /\ Operands(opts)[i] = opts[i]) \/ Operands(opts)[i] = Top
        /\ (opts[j] \in Given /\ Operands(opts)[j] = opts[j]) \/ Operands(opts)[j] = Top
    BY <1>5, <1>6, <1>7, Zenon
  <2>2. QED BY <1>1, <1>2, <1>3, <1>7, <2>1, Zenon
<1>8. CASE ~keep_stack
  <2>1. ~(opts[i] \in Given /\ Operands(opts)[i] = opts[i]) =>
           /\ Taken(opts, i) \in 1..Taken(opts, Len(opts))
           /\ Taken(opts, Len(opts)) \in Nat /\ Taken(opts, Len(opts)) <= Len(stack)
           /\ Operands(opts)[i] = stack[Len(stack) + 1 - Taken(opts, i)]
    BY <1>5, <1>8, Zenon
  <2>2. ~(opts[j] \in Given /\ Operands(opts)[j] = opts[j]) =>
           /\ opts[j] = None
           /\ Taken(opts, j) \in 1..Taken(opts, Len(opts))
           /\ Operands(opts)[j] = stack[Len(stack) + 1 - Taken(opts, j)]
    BY <1>6, <1>8, Zenon
  <2>3. QED BY <1>1, <1>2, <1>4, <1>8, <2>1, <2>2, Zenon
<1>9. QED BY <1>7, <1>8

\* A prefix of the stack.
LEMMA BelowIsPrefix ==
  ASSUME IInv, NEW m \in 0..Len(stack)
  PROVE  /\ Discipline!Below(m) \in Seq(Values)
         /\ Len(Discipline!Below(m)) = Len(stack) - m
         /\ DOMAIN Discipline!Below(m) = 1..(Len(stack) - m)
         /\ DOMAIN Discipline!Below(m) \subseteq DOMAIN stack
         /\ \A i \in DOMAIN Discipline!Below(m) : Discipline!Below(m)[i] = stack[i]
<1>1. stack \in Seq(Values)
  BY DEF IInv, TypeOK
<1>2. DOMAIN stack = 1..Len(stack) /\ Len(stack) \in Nat
  BY <1>1
<1>3. PICK n \in Nat : n = Len(stack) - m /\ n <= Len(stack)
  <2>1. m \in 0..Len(stack)
    OBVIOUS
  <2>2. Len(stack) - m \in Nat /\ Len(stack) - m <= Len(stack)
    BY <1>2, <2>1
  <2>3. QED BY <2>2, Zenon
<1>4. \A i \in 1..n : stack[i] \in Values
  BY <1>1, <1>2, <1>3
<1>5. /\ SubSeq(stack, 1, n) \in Seq(Values)
      /\ Len(SubSeq(stack, 1, n)) = IF 1 <= n THEN n - 1 + 1 ELSE 0
      /\ \A i \in 1..(n - 1 + 1) : SubSeq(stack, 1, n)[i] = stack[1 + i - 1]
  BY <1>3, <1>4, SubSeqProperties
<1>6. Len(SubSeq(stack, 1, n)) = n /\ \A i \in 1..n : SubSeq(stack, 1, n)[i] = stack[i]
  BY <1>3, <1>5
<1>7. DOMAIN SubSeq(stack, 1, n) = 1..n
  BY <1>5, <1>6
<1>8. Discipline!Below(m) = SubSeq(stack, 1, n)
  BY <1>3 DEF Discipline!Below
<1>9. DOMAIN SubSeq(stack, 1, n) \subseteq DOMAIN stack
  BY <1>2, <1>3, <1>7
<1>10. QED BY <1>3, <1>5, <1>6, <1>7, <1>8, <1>9

\* What an action pushes was made after all that it leaves on the stack.
LEMMA ResultNotOlder ==
  ASSUME IInv, ~Reuse, StackMade, StackInCreationOrder,
         NEW opts \in Seq(Option), Enough(opts), NEW n \in Nat,
         NEW v \in Values, Result(n, opts, v)
  PROVE  /\ v.id <= count + n
         /\ \A i \in DOMAIN Rest(opts) : NotOlder(v, Rest(opts)[i])
<1>1. PICK m \in 0..Len(stack) : Rest(opts) = Discipline!Below(m)
  BY OptionType, RestIsBelow
<1>2. stack \in Seq(Values) /\ DOMAIN stack = 1..Len(stack) /\ Len(stack) \in Nat /\ count \in Nat
      /\ keep_stack \in BOOLEAN
  BY DEF IInv, TypeOK
<1>3. \A i \in DOMAIN Rest(opts) : i \in DOMAIN stack /\ Rest(opts)[i] = stack[i]
  BY <1>1, BelowIsPrefix
<1>4. \A i \in DOMAIN stack : stack[i].id \in Nat /\ stack[i].id <= count
  <2>1. \A i \in DOMAIN stack : stack[i] \in Values
    BY <1>2
  <2>2. \A i \in DOMAIN stack : stack[i].id \in Nat
    BY <2>1 DEF Values
  <2>3. QED BY <2>2 DEF StackMade
<1>5. CASE IsLiteral(v)
  BY <1>2, <1>5 DEF NotOlder, IsLiteral
<1>6. CASE v.id = count + n /\ n # 0
  BY <1>2, <1>3, <1>4, <1>6 DEF NotOlder
<1>7. CASE n = 0 /\ Len(opts) = 1 /\ v = Operands(opts)[1]
  <2>1. CASE opts[1] \in Given /\ v = opts[1]
    BY <1>2, <1>5, <2>1, GivenLiteral
  <2>2. CASE keep_stack /\ stack # <<>> /\ v = Top
    <3>1. v = stack[Len(stack)] /\ Len(stack) \in DOMAIN stack
      BY <1>2, <2>2 DEF Top
    <3>2. \A i \in DOMAIN stack : i < Len(stack) \/ i = Len(stack)
      BY <1>2
    <3>3. \A i \in DOMAIN stack : NotOlder(v, stack[i])
      BY <2>2, <3>1, <3>2 DEF StackInCreationOrder, NotOlder
    <3>4. QED BY <1>2, <1>3, <1>4, <1>7, <3>1, <3>3
  <2>3. CASE /\ opts[1] = None /\ ~keep_stack
             /\ Taken(opts, 1) \in 1..Taken(opts, Len(opts))
             /\ Taken(opts, Len(opts)) \in Nat /\ Taken(opts, Len(opts)) <= Len(stack)
             /\ v = stack[Len(stack) + 1 - Taken(opts, 1)]
    <3> DEFINE t == Taken(opts, 1)
    <3>1. t \in 1..Len(stack) /\ v = stack[Len(stack) + 1 - t]
      BY <1>2, <1>7, <2>3
    <3>2. Rest(opts) = Discipline!Below(t)
      BY <1>7, <2>3 DEF Rest, Discipline!Below
    <3> HIDE DEF t
    <3>3. DOMAIN Rest(opts) = 1..(Len(stack) - t)
      <4>1. t \in 0..Len(stack)
        BY <1>2, <3>1
      <4>2. QED BY <3>2, <4>1, BelowIsPrefix
    <3>4. Len(stack) + 1 - t \in DOMAIN stack
      BY <1>2, <3>1
    <3>5. \A i \in DOMAIN Rest(opts) : i < Len(stack) + 1 - t
      BY <1>2, <3>1, <3>3
    <3>6. QED BY <1>2, <1>3, <1>4, <1>7, <3>1, <3>4, <3>5 DEF StackInCreationOrder
  <2>4. 1 \in 1..Len(opts)
    BY <1>7
  <2>5. \/ opts[1] \in Given /\ Operands(opts)[1] = opts[1]
        \/ opts[1] = None /\ keep_stack /\ stack # <<>> /\ Operands(opts)[1] = Top
        \/ /\ opts[1] = None /\ ~keep_stack
           /\ Taken(opts, 1) \in 1..Taken(opts, Len(opts))
           /\ Taken(opts, Len(opts)) \in Nat /\ Taken(opts, Len(opts)) <= Len(stack)
           /\ Operands(opts)[1] = stack[Len(stack) + 1 - Taken(opts, 1)]
    BY <2>4, OperandFound
  <2>6. v = Operands(opts)[1]
    BY <1>7
  <2>7. QED BY <2>1, <2>2, <2>3, <2>5, <2>6, Zenon
<1>8. QED BY <1>5, <1>6, <1>7 DEF Result

\* A step keeps the order if it leaves a prefix of the stack, puts on it at
\* most a value that is none of the older ones, and, if it makes instructions,
\* makes them of ordered operands.
LEMMA OrderKept ==
  ASSUME IInv, OrderInv, ~Reuse,
         NEW m \in 0..Len(stack),
         \/ stack' = Discipline!Below(m)
         \/ \E v \in Values :
              /\ stack' = Append(Discipline!Below(m), v) /\ v.id <= count'
              /\ \A i \in DOMAIN Discipline!Below(m) : NotOlder(v, stack[i]),
         count' \in Nat, count <= count', keep_stack => keep_stack',
         \A k \in DOMAIN emitted' : emitted'[k].op \in Ops =>
           \A i, j \in DOMAIN emitted'[k].args :
             i < j => NotOlder(emitted'[k].args[i], emitted'[k].args[j])
  PROVE  OrderInv'
<1> DEFINE below == Discipline!Below(m)
<1>1. /\ below \in Seq(Values) /\ Len(below) \in Nat /\ DOMAIN below = 1..Len(below)
      /\ \A i \in DOMAIN below : i \in DOMAIN stack /\ below[i] = stack[i]
  BY BelowIsPrefix
<1>2. \A i \in DOMAIN stack : stack[i].id \in Nat /\ stack[i].id <= count
  <2>1. \A i \in DOMAIN stack : stack[i] \in Values
    BY DEF IInv, TypeOK
  <2>2. \A i \in DOMAIN stack : stack[i].id \in Nat
    BY <2>1 DEF Values
  <2>3. QED BY <2>2 DEF OrderInv, StackMade
<1>3. count \in Nat
  BY DEF IInv, TypeOK
<1>4. \A u, v : NotOlder(u, v) => NotOlder(u, v)'
  BY DEF NotOlder, IsLiteral
<1>5. \A i, j \in DOMAIN below : i < j => NotOlder(below[j], below[i])
  BY <1>1 DEF OrderInv, StackInCreationOrder
<1> HIDE DEF below
<1>6. StackMade' /\ StackInCreationOrder'
  <2>1. CASE stack' = below
    <3>1. DOMAIN stack' = DOMAIN below /\ \A i \in DOMAIN below : stack'[i] = below[i]
      BY <2>1
    <3>2. StackMade'
      <4>1. ASSUME NEW i \in DOMAIN stack' PROVE stack'[i].id <= count'
        <5>1. stack'[i] = stack[i] /\ stack[i].id \in Nat /\ stack[i].id <= count
          BY <1>1, <1>2, <3>1
        <5>2. QED BY <1>3, <5>1
      <4>2. QED BY <4>1 DEF StackMade
    <3>3. StackInCreationOrder'
      BY <1>4, <1>5, <3>1 DEF StackInCreationOrder
    <3>4. QED BY <3>2, <3>3
  <2>2. ASSUME NEW v \in Values, stack' = Append(below, v), v.id <= count',
               \A i \in DOMAIN below : NotOlder(v, stack[i])
        PROVE  StackMade' /\ StackInCreationOrder'
    <3>1. /\ DOMAIN stack' = 1..Len(below) + 1
          /\ stack'[Len(below) + 1] = v
          /\ \A i \in 1..Len(below) : stack'[i] = below[i]
      BY <1>1, <2>2
    <3>2. \A i \in DOMAIN stack' : i \in DOMAIN below \/ i = Len(below) + 1
      BY <1>1, <3>1
    <3>3. StackMade'
      BY <1>1, <1>2, <1>3, <2>2, <3>1, <3>2 DEF StackMade
    <3>4. ASSUME NEW i \in DOMAIN stack', NEW j \in DOMAIN stack', i < j
          PROVE  NotOlder(stack'[j], stack'[i])
      <4>1. i \in DOMAIN below
        BY <1>1, <3>1, <3>2, <3>4
      <4>2. CASE j \in DOMAIN below
        BY <1>1, <1>5, <3>1, <3>4, <4>1, <4>2
      <4>3. CASE j = Len(below) + 1
        BY <1>1, <2>2, <3>1, <4>1, <4>3
      <4>4. QED BY <3>2, <4>2, <4>3
    <3>5. StackInCreationOrder'
      BY <1>4, <3>4 DEF StackInCreationOrder
    <3>6. QED BY <3>3, <3>5
  <2>3. QED BY <2>1, <2>2 DEF below
<1>7. OperandsNewestFirst'
  BY <1>4 DEF OperandsNewestFirst
<1>8. QED BY <1>6, <1>7 DEF OrderInv

\* Everything a client that passes constants may make an instruction of.
LEMMA RefersInOrder ==
  ASSUME IInv, ~Reuse, StackInCreationOrder, NEW readable, NEW opts \in Seq(Option),
         Enough(opts), NEW instr, Refers(readable, opts, instr), instr.op \in Ops,
         NEW i \in DOMAIN instr.args, NEW j \in DOMAIN instr.args, i < j
  PROVE  NotOlder(instr.args[i], instr.args[j])
<1>1. CASE From(opts, instr.args)
  <2>1. DOMAIN opts = 1..Len(opts)
    OBVIOUS
  <2>2. QED BY <1>1, <2>1, OperandsOrdered DEF From
<1>2. ASSUME NEW v, instr.args = <<v>> PROVE FALSE
  <2>1. DOMAIN instr.args = {1}
    BY <1>2
  <2>2. QED BY <2>1
<1>3. CASE instr.args \in Given \X Given
  <2>1. PICK u \in Given, v \in Given : instr.args = <<u, v>>
    BY <1>3
  <2>2. DOMAIN <<u, v>> = {1, 2}
    OBVIOUS
  <2>3. instr.args[i] = u \/ instr.args[i] = v
    BY <2>1, <2>2
  <2>4. QED BY <2>1, <2>3, GivenLiteral DEF NotOlder
<1>4. QED BY <1>1, <1>2, <1>3 DEF Refers

LEMMA ValueNextOrdered ==
  ASSUME IInv, OrderInv, ~Reuse, NEW readable \in SUBSET Names, ValueNext(readable)
  PROVE  OrderInv'
<1>1. CASE emitted' = <<>> /\ UNCHANGED <<fields, ir>>
  BY <1>1 DEF OrderInv, StackMade, StackInCreationOrder, OperandsNewestFirst, NotOlder,
              IsLiteral, fields, ir
<1>2. ASSUME NEW n \in Nat, NEW opts \in Seq(Option), Effect(readable, n, opts)
      PROVE  OrderInv'
  <2>1. StackMade /\ StackInCreationOrder /\ Enough(opts)
    BY <1>2 DEF OrderInv, Effect
  <2>2. PICK m \in 0..Len(stack) : Rest(opts) = Discipline!Below(m)
    BY <2>1, OptionType, RestIsBelow
  <2>3. count \in Nat /\ count' = count + n /\ keep_stack' = keep_stack
    BY <1>2 DEF IInv, TypeOK, Effect, Emit
  <2>4. count' \in Nat /\ count <= count'
    BY <2>3
  <2>5. \/ stack' = Discipline!Below(m)
        \/ \E v \in Values :
             /\ stack' = Append(Discipline!Below(m), v) /\ v.id <= count'
             /\ \A i \in DOMAIN Discipline!Below(m) : NotOlder(v, stack[i])
    <3>1. ASSUME NEW v \in Values, Result(n, opts, v)
          PROVE  v.id <= count' /\ \A i \in DOMAIN Discipline!Below(m) : NotOlder(v, stack[i])
      BY <2>1, <2>2, <2>3, <3>1, ResultNotOlder, BelowIsPrefix
    <3>2. QED BY <1>2, <2>2, <3>1 DEF Effect
  <2>6. \A k \in DOMAIN emitted' : emitted'[k].op \in Ops =>
          \A i, j \in DOMAIN emitted'[k].args :
            i < j => NotOlder(emitted'[k].args[i], emitted'[k].args[j])
    <3>1. \A k \in DOMAIN emitted' : Refers(readable, opts, emitted'[k])
      BY <1>2 DEF Effect
    <3>2. QED BY <2>1, <3>1, RefersInOrder
  <2>7. QED BY <2>3, <2>4, <2>5, <2>6, OrderKept
<1>3. QED BY <1>1, <1>2, ValueNextEffect

\* An action that makes no instruction and leaves the operands alone.
LEMMA StackAloneOrdered ==
  ASSUME IInv, OrderInv, UNCHANGED <<stack, count>>, emitted' = <<>> \/ emitted' = emitted,
         keep_stack => keep_stack'
  PROVE  OrderInv'
<1>1. \A u, v : NotOlder(u, v) => NotOlder(u, v)'
  BY DEF NotOlder, IsLiteral
<1>2. StackMade => StackMade'
  BY DEF StackMade
<1>3. StackInCreationOrder'
  BY <1>1 DEF OrderInv, StackInCreationOrder
<1>4. OperandsNewestFirst'
  BY <1>1 DEF OrderInv, OperandsNewestFirst
<1>5. QED BY <1>2, <1>3, <1>4 DEF OrderInv

LEMMA StackNextOrdered ==
  ASSUME IInv, OrderInv, ~Reuse, StackNext PROVE OrderInv'
<1>1. stack \in Seq(Values) /\ Len(stack) \in Nat /\ count \in Nat
  BY DEF IInv, TypeOK
<1>2. CASE KeepStack
  BY <1>2, StackAloneOrdered DEF KeepStack, Done, ir
<1>3. ASSUME NEW v \in Given, PushValue(v) PROVE OrderInv'
  <2>1. v \in Values /\ IsLiteral(v) /\ v.id <= count
    BY <1>1, GivenType, GivenLiteral DEF IsLiteral
  <2>2. Discipline!Below(0) = stack /\ 0 \in 0..Len(stack)
    BY <1>1 DEF Discipline!Below
  <2>3. stack' = Append(stack, v) /\ emitted' = <<>> /\ count' = count /\ keep_stack' = keep_stack
    BY <1>3 DEF PushValue, Done, ir
  <2>4. \A i \in DOMAIN Discipline!Below(0) : NotOlder(v, stack[i])
    BY <2>1 DEF NotOlder
  <2>5. \A k \in DOMAIN emitted' : FALSE
    BY <2>3
  <2>6. QED BY <1>1, <2>1, <2>2, <2>3, <2>4, <2>5, OrderKept
<1>4. ASSUME NEW n \in 0..MaxStack + 1, Pop(n) PROVE OrderInv'
  <2>1. CASE Abort
    BY <2>1, StackAloneOrdered DEF Abort, fields, ir
  <2>2. CASE n <= Len(stack) /\ stack' = SubSeq(stack, 1, Len(stack) - n) /\ Done
             /\ UNCHANGED <<keep_stack, ir>>
    <3>1. n \in 0..Len(stack) /\ stack' = Discipline!Below(n)
      BY <1>1, <2>2, BoundsAssumption DEF Discipline!Below
    <3>2. emitted' = <<>> /\ count' = count /\ keep_stack' = keep_stack
      BY <2>2 DEF Done, ir
    <3>3. \A k \in DOMAIN emitted' : FALSE
      BY <3>2
    <3>4. QED BY <1>1, <3>1, <3>2, <3>3, OrderKept
  <2>3. QED BY <1>4, <2>1, <2>2 DEF Pop
<1>5. CASE Last
  BY <1>5, StackAloneOrdered DEF Last, Abort, Done, fields, ir
<1>6. QED BY <1>2, <1>3, <1>4, <1>5 DEF StackNext

LEMMA OrderInvInit == Init => OrderInv
BY DEF Init, OrderInv, StackMade, StackInCreationOrder, OperandsNewestFirst

LEMMA OrderInvStep == IInv /\ OrderInv /\ [Next]_all => OrderInv'
<1> SUFFICES ASSUME IInv, OrderInv, [Next]_all PROVE OrderInv'
  OBVIOUS
<1>1. CASE Reuse
  BY <1>1 DEF OrderInv, StackInCreationOrder, OperandsNewestFirst
<1>2. CASE ~Reuse /\ ValueNext(Names)
  BY <1>2, ValueNextOrdered
<1>3. CASE ~Reuse /\ StackNext
  BY <1>3, StackNextOrdered
<1>4. CASE FunctionNext
  BY <1>4, StackAloneOrdered DEF FunctionNext, Function, PushFunction, CreateFunction, Done, ir
<1>5. CASE RegisterNext
  BY <1>5, StackAloneOrdered DEF RegisterNext, RegisterBlock, ir
<1>6. ASSUME NEW name \in Names, CreateBlock(name) \/ SetBlock(name) PROVE OrderInv'
  BY <1>6, StackAloneOrdered DEF CreateBlock, SetBlock, Abort, Done, fields, ir
<1>7. ASSUME NEW m \in Modules, Module(m) PROVE OrderInv'
  BY <1>7, StackAloneOrdered DEF Module, Done, ir
<1>8. CASE UNCHANGED all
  BY <1>8, StackAloneOrdered DEF all, fields, ir
<1>9. QED BY <1>1, <1>2, <1>3, <1>4, <1>5, <1>6, <1>7, <1>8 DEF Next

LEMMA OrderInvAlways == Spec => []OrderInv
BY OrderInvInit, OrderInvStep, IInvAlways, PTL DEF Spec

\* The values on the stack of a client that passes constants lie there in
\* the order in which they were made, whatever the chain of actions.
THEOREM StackStaysOrdered == Spec => []StackInCreationOrder
<1>1. OrderInv => StackInCreationOrder
  BY DEF OrderInv
<1>2. QED BY <1>1, OrderInvAlways, PTL

\* Its instructions take their operands from the newest to the oldest.
THEOREM OperandsComeNewestFirst == Spec => []OperandsNewestFirst
<1>1. OrderInv => OperandsNewestFirst
  BY DEF OrderInv
<1>2. QED BY <1>1, OrderInvAlways, PTL

\* Once the stack is kept, only pop takes a value off it: popvalue leaves
\* the stack of a kept builder as it is for every action there is.
THEOREM KeptIsOnlyRead == Spec => KeepOnlyReads
<1> DEFINE Reads == \/ Len(stack) <= Len(stack') /\ SubSeq(stack', 1, Len(stack)) = stack
                    \/ \E n \in 1..Len(stack) : Pop(n)
<1>1. IInv /\ [Next]_all => [keep_stack => Reads]_all
  <2> SUFFICES ASSUME IInv, Next, keep_stack PROVE Reads
    OBVIOUS
  <2>1. stack \in Seq(Values) /\ Len(stack) \in Nat
    BY DEF IInv, TypeOK
  <2>2. SubSeq(stack, 1, Len(stack)) = stack
    BY <2>1
  <2>3. ASSUME UNCHANGED stack PROVE Reads
    BY <2>1, <2>2, <2>3
  <2>4. ASSUME NEW v \in Values, stack' = Append(stack, v) PROVE Reads
    <3>1. Len(stack') = Len(stack) + 1 /\ SubSeq(stack', 1, Len(stack)) = stack
      BY <2>1, <2>4
    <3>2. QED BY <2>1, <3>1
  <2> HIDE DEF Reads
  <2>5. CASE ValueNext(Names)
    <3>1. ASSUME NEW n, NEW opts, Effect(Names, n, opts) PROVE Reads
      <4>1. Rest(opts) = stack
        BY DEF Rest
      <4>2. QED BY <2>3, <2>4, <3>1, <4>1 DEF Effect
    <3>2. QED BY <2>3, <2>5, <3>1, ValueNextEffect DEF fields
  <2>6. CASE StackNext
    <3>1. ASSUME NEW v \in Given, PushValue(v) PROVE Reads
      BY <2>1, <2>4, <3>1, GivenType DEF PushValue
    <3>2. ASSUME NEW n \in 0..MaxStack + 1, Pop(n) PROVE Reads
      <4>1. n \in Nat
        BY BoundsAssumption
      <4>2. CASE n = 0 /\ stack' = SubSeq(stack, 1, Len(stack) - n)
        BY <2>1, <2>2, <2>3, <4>2
      <4>3. CASE n # 0 /\ n <= Len(stack)
        <5>1. n \in 1..Len(stack)
          BY <2>1, <4>1, <4>3
        <5>2. QED BY <3>2, <5>1 DEF Reads
      <4>4. CASE UNCHANGED fields
        BY <2>3, <4>4 DEF fields
      <4>5. QED BY <3>2, <4>2, <4>3, <4>4 DEF Pop, Abort
    <3>3. QED BY <2>3, <2>6, <3>1, <3>2 DEF StackNext, KeepStack, Last, Abort, fields
  <2>7. CASE FunctionNext
    BY <2>3, <2>7 DEF FunctionNext, Function, PushFunction, CreateFunction
  <2>8. CASE RegisterNext
    BY <2>3, <2>8 DEF RegisterNext, RegisterBlock
  <2>9. ASSUME NEW name \in Names, CreateBlock(name) \/ SetBlock(name) PROVE Reads
    BY <2>3, <2>9 DEF CreateBlock, SetBlock, Abort, fields
  <2>10. ASSUME NEW m \in Modules, Module(m) PROVE Reads
    BY <2>3, <2>10 DEF Module
  <2>11. QED BY <2>5, <2>6, <2>7, <2>8, <2>9, <2>10 DEF Next
<1>2. QED BY <1>1, IInvAlways, PTL DEF Spec, KeepOnlyReads
-----------------------------------------------------------------------------
(* The client that builds function by function. *)

\* What is local stays local while the builder inserts into one function.
LEMMA LocalStays ==
  ASSUME UNCHANGED <<insert, owner>> PROVE Here' = Here /\ \A v : Local(v) => Local(v)'
<1>1. Here' = Here
  BY DEF Here
<1>2. QED BY <1>1 DEF Local, IsLiteral

LEMMA GivenLocal ==
  ASSUME IInv, NothingForeign PROVE \A v \in Given : Local(v)
BY DEF Given, Literals, Literal, IsLiteral, Local, NothingForeign

\* An operand is given, or comes from the stack: it is local either way.
LEMMA OperandLocal ==
  ASSUME IInv, NothingForeign, NEW opts \in Seq(Option), Enough(opts), NEW i \in DOMAIN opts
  PROVE  Local(Operands(opts)[i])
<1>1. stack \in Seq(Values) /\ DOMAIN stack = 1..Len(stack) /\ Len(stack) \in Nat
  BY DEF IInv, TypeOK
<1>2. i \in 1..Len(opts)
  OBVIOUS
<1>3. CASE opts[i] \in Given /\ Operands(opts)[i] = opts[i]
  BY <1>3, GivenLocal
<1>4. CASE stack # <<>> /\ Operands(opts)[i] = Top
  <2>1. Len(stack) \in DOMAIN stack
    BY <1>1, <1>4
  <2>2. QED BY <1>4, <2>1 DEF Top, NothingForeign
<1>5. CASE /\ Taken(opts, i) \in 1..Taken(opts, Len(opts))
           /\ Taken(opts, Len(opts)) \in Nat /\ Taken(opts, Len(opts)) <= Len(stack)
           /\ Operands(opts)[i] = stack[Len(stack) + 1 - Taken(opts, i)]
  <2>1. Len(stack) + 1 - Taken(opts, i) \in DOMAIN stack
    BY <1>1, <1>5
  <2>2. QED BY <1>5, <2>1 DEF NothingForeign
<1>6. QED BY <1>2, <1>3, <1>4, <1>5, OperandFound

\* So is everything an instruction refers to, if the variables that the
\* client may load are local.
LEMMA RefersLocal ==
  ASSUME IInv, NothingForeign, NEW opts \in Seq(Option), Enough(opts),
         NEW instr, Refers(own \cup Unknown, opts, instr), NEW i \in DOMAIN instr.args
  PROVE  Local(instr.args[i])
<1>1. CASE From(opts, instr.args)
  BY <1>1, OperandLocal DEF From
<1>2. ASSUME NEW name \in own \cup Unknown, vars[name] # Absent, instr.args = <<vars[name]>>
      PROVE  Local(instr.args[i])
  <2>1. name \in own
    BY <1>2 DEF Unknown
  <2>2. i = 1 /\ instr.args[i] = vars[name]
    BY <1>2
  <2>3. QED BY <1>2, <2>1, <2>2 DEF NothingForeign
<1>3. CASE instr.args \in Given \X Given
  <2>1. PICK u \in Given, v \in Given : instr.args = <<u, v>>
    BY <1>3
  <2>2. instr.args[i] = u \/ instr.args[i] = v
    BY <2>1
  <2>3. QED BY <2>2, GivenLocal
<1>4. CASE instr.op \notin Ops
  BY <1>4, OperandLocal DEF Refers, Local
<1>5. QED BY <1>1, <1>2, <1>3, <1>4 DEF Refers

\* What ret makes depends on the last function opened, and what fits is
\* decided by the function it goes to: the same, for this client.
LEMMA WorkFits ==
  ASSUME InLast, ~opening, NEW readable, NEW opts,
         \A k \in DOMAIN emitted' : Refers(readable, opts, emitted'[k]), Here' = Here
  PROVE  RetFits'
<1>1. SUFFICES ASSUME NEW k \in DOMAIN emitted', emitted'[k].op = "ret"
               PROVE  emitted'[k].args = <<>> <=> Signature[Here'].ret = Void
  BY DEF RetFits
<1>2. functions # <<>> /\ (emitted'[k].args = <<>> <=> Signature[Newest].ret = Void)
  BY <1>1 DEF Refers
<1>3. Here' = Newest
  BY <1>2 DEF InLast
<1>4. QED BY <1>2, <1>3

\* A step that makes no instruction.
LEMMA NothingEmitted ==
  ASSUME emitted' = <<>> PROVE OperandsLocal' /\ RetFits'
BY DEF OperandsLocal, RetFits

\* The operands left by an action are local, and so is its result.
LEMMA EffectLocal ==
  ASSUME IInv, NothingForeign, NEW readable, NEW n \in Nat, NEW opts \in Seq(Option),
         Effect(readable, n, opts)
  PROVE  \A i \in DOMAIN stack' : Local(stack'[i])
<1>1. Enough(opts) /\ opts \in Seq(Options)
  BY OptionType DEF Effect
<1>2. PICK m \in 0..Len(stack) : Rest(opts) = Discipline!Below(m)
  BY <1>1, RestIsBelow
<1>3. Rest(opts) \in Seq(Values) /\ \A i \in DOMAIN Rest(opts) : Local(Rest(opts)[i])
  BY <1>2, BelowIsPrefix DEF NothingForeign
<1>4. ASSUME NEW v \in Values, Result(n, opts, v), stack' = Append(Rest(opts), v)
      PROVE  \A i \in DOMAIN stack' : Local(stack'[i])
  <2>1. Local(v)
    <3>1. CASE Len(opts) = 1 /\ v = Operands(opts)[1]
      <4>1. 1 \in DOMAIN opts
        BY <3>1
      <4>2. QED BY <1>1, <3>1, <4>1, OperandLocal
    <3>2. QED BY <1>4, <3>1 DEF Result, Local
  <2>2. \A i \in DOMAIN stack' :
          \/ stack'[i] = v
          \/ i \in DOMAIN Rest(opts) /\ stack'[i] = Rest(opts)[i]
    BY <1>3, <1>4
  <2>3. QED BY <1>3, <2>1, <2>2
<1>5. QED BY <1>3, <1>4 DEF Effect

\* A step of the client on values and operands.
LEMMA WorkKeeps ==
  ASSUME ClientIInv, status # "aborted", Work PROVE ClientIInv'
<1>1. /\ IInv /\ ClientTypeOK /\ InLast /\ Emptied /\ NothingForeign /\ ~opening /\ opening' = opening
      /\ own' = own \cup {n \in Names : Alloc(n)}
  BY DEF ClientIInv, Work
<1>2. CASE ValueNext(own \cup Unknown)
  <2> DEFINE readable == own \cup Unknown
  <2>1. readable \in SUBSET Names
    BY <1>1 DEF ClientTypeOK, Unknown
  <2>2. IInv'
    BY <1>1, <1>2, <2>1, ValueNextKeeps
  <2>3. /\ UNCHANGED <<keep_stack, functions, insert, owner>>
        /\ \/ UNCHANGED vars
           \/ \E name \in Names : vars' = [vars EXCEPT ![name] = Made(1, Ptr)]
    BY <1>2, ValueNextShape
  <2>4. Here' = Here /\ Newest' = Newest /\ \A v : Local(v) => Local(v)'
    BY <2>3, LocalStays DEF Newest
  <2>5. OperandsLocal' /\ RetFits' /\ \A i \in DOMAIN stack' : Local(stack'[i])
    <3>1. CASE emitted' = <<>> /\ UNCHANGED <<fields, ir>>
      BY <1>1, <3>1, NothingEmitted DEF NothingForeign, fields
    <3>2. ASSUME NEW n \in Nat, NEW opts \in Seq(Option), Effect(readable, n, opts)
          PROVE  OperandsLocal' /\ RetFits' /\ \A i \in DOMAIN stack' : Local(stack'[i])
      <4>1. Enough(opts) /\ \A k \in DOMAIN emitted' : Refers(readable, opts, emitted'[k])
        BY <3>2 DEF Effect
      <4>2. RetFits'
        BY <1>1, <2>4, <4>1, WorkFits
      <4>3. \A k \in DOMAIN emitted' : \A i \in DOMAIN emitted'[k].args : Local(emitted'[k].args[i])
        BY <1>1, <4>1, RefersLocal
      <4>4. OperandsLocal'
        BY <2>4, <4>3 DEF OperandsLocal, Local
      <4>5. QED BY <1>1, <3>2, <4>2, <4>4, EffectLocal
    <3>3. QED BY <1>1, <1>2, <2>1, <3>1, <3>2, ValueNextEffect
  <2>6. ClientTypeOK' /\ InLast' /\ Emptied'
    BY <1>1, <2>2, <2>3, <2>4 DEF ClientTypeOK, IInv, InLast, Emptied
  <2>7. ASSUME status' # "aborted", NEW x \in own', vars'[x] # Absent PROVE Local(vars'[x])
    <3>1. vars \in [Names -> Values \cup {Absent}]
      BY <1>1 DEF IInv, TypeOK
    <3>2. Local(Made(1, Ptr))
      BY DEF Local, Made
    <3>3. CASE x \in own
      <4>1. x \in Names
        BY <2>1, <3>3
      <4>2. vars'[x] = vars[x] \/ vars'[x] = Made(1, Ptr)
        BY <2>3, <3>1, <4>1
      <4>3. QED BY <1>1, <2>7, <3>2, <3>3, <4>2 DEF NothingForeign
    <3>4. CASE x \in Names /\ Alloc(x)
      <4>1. vars' = [vars EXCEPT ![x] = Made(1, Ptr)]
        BY <2>7, <3>4, NamesAssumption DEF Alloc, Abort
      <4>2. QED BY <3>1, <3>2, <3>4, <4>1
    <3>5. QED BY <1>1, <2>7, <3>3, <3>4
  <2>8. QED BY <1>1, <2>2, <2>4, <2>5, <2>6, <2>7 DEF ClientIInv, NothingForeign
<1>3. CASE StackNext
  <2>1. IInv'
    BY <1>1, <1>3, StackNextKeeps
  <2>2. stack \in Seq(Values) /\ Len(stack) \in Nat /\ own \subseteq Names
    BY <1>1 DEF IInv, TypeOK, ClientTypeOK
  <2>3. UNCHANGED <<vars, functions, insert, owner>> /\ emitted' = <<>>
        /\ status' \in {"done", "aborted"}
    BY <1>3 DEF StackNext, KeepStack, PushValue, Pop, Last, Done, Abort, fields, ir
  <2>4. Here' = Here /\ Newest' = Newest /\ \A v : Local(v) => Local(v)'
    BY <2>3, LocalStays DEF Newest
  <2>5. \A i \in DOMAIN stack' : Local(stack'[i])
    <3>1. ASSUME UNCHANGED stack PROVE \A i \in DOMAIN stack' : Local(stack'[i])
      BY <1>1, <3>1 DEF NothingForeign
    <3>2. ASSUME NEW v \in Given, PushValue(v) PROVE \A i \in DOMAIN stack' : Local(stack'[i])
      <4>1. stack' = Append(stack, v) /\ Local(v)
        BY <1>1, <3>2, GivenLocal DEF PushValue
      <4>2. \A i \in DOMAIN stack' : \/ stack'[i] = v
                                     \/ i \in DOMAIN stack /\ stack'[i] = stack[i]
        BY <2>2, <4>1
      <4>3. QED BY <1>1, <4>1, <4>2 DEF NothingForeign
    <3>3. ASSUME NEW n \in 0..MaxStack + 1, n <= Len(stack), stack' = SubSeq(stack, 1, Len(stack) - n)
          PROVE  \A i \in DOMAIN stack' : Local(stack'[i])
      <4>1. n \in 0..Len(stack) /\ stack' = Discipline!Below(n)
        BY <2>2, <3>3, BoundsAssumption DEF Discipline!Below
      <4>2. QED BY <1>1, <4>1, BelowIsPrefix DEF NothingForeign
    <3>4. QED BY <1>3, <3>1, <3>2, <3>3 DEF StackNext, KeepStack, Pop, Last, Abort, fields
  <2>6. ClientTypeOK' /\ InLast' /\ Emptied'
    BY <1>1, <2>1, <2>3, <2>4 DEF ClientTypeOK, IInv, InLast, Emptied
  <2>7. ASSUME status' # "aborted" PROVE own' = own
    <3>1. ASSUME NEW x \in Names, Alloc(x) PROVE FALSE
      <4>1. emitted' = <<Instr("alloc", <<>>)>>
        BY <2>7, <3>1 DEF Alloc, Abort, Emit
      <4>2. QED BY <2>3, <4>1
    <3>2. QED BY <1>1, <3>1
  <2>8. QED BY <1>1, <2>1, <2>3, <2>4, <2>5, <2>6, <2>7, NothingEmitted DEF ClientIInv, NothingForeign
<1>4. ASSUME NEW m \in Modules, Module(m) PROVE ClientIInv'
  <2>1. IInv'
    BY <1>1, <1>4, ModuleKeeps
  <2>2. UNCHANGED <<stack, vars, functions, insert, owner>> /\ emitted' = <<>> /\ status' = "done"
    BY <1>4 DEF Module, Done, ir
  <2>3. Here' = Here /\ Newest' = Newest /\ \A v : Local(v) => Local(v)'
    BY <2>2, LocalStays DEF Newest
  <2>4. own' = own
    <3>1. ASSUME NEW x \in Names, Alloc(x) PROVE FALSE
      <4>1. emitted' = <<Instr("alloc", <<>>)>>
        BY <2>2, <3>1 DEF Alloc, Abort, Emit
      <4>2. QED BY <2>2, <4>1
    <3>2. QED BY <1>1, <3>1
  <2>5. ClientTypeOK' /\ InLast' /\ Emptied' /\ NothingForeign'
    BY <1>1, <2>1, <2>2, <2>3, <2>4 DEF ClientTypeOK, IInv, InLast, Emptied, NothingForeign
  <2>6. QED BY <2>1, <2>2, <2>5, NothingEmitted DEF ClientIInv
<1>5. QED BY <1>2, <1>3, <1>4 DEF Work

LEMMA OpenKeeps == ASSUME ClientIInv, status # "aborted", Open PROVE ClientIInv'
<1>1. IInv' /\ ClientTypeOK'
  BY FunctionKeeps DEF ClientIInv, ClientTypeOK, Open, IInv
<1>2. emitted' = <<>> /\ stack' = <<>> /\ opening' /\ own' = {}
  BY DEF Open, FunctionNext, Function, PushFunction, CreateFunction, Done
<1>3. InLast' /\ Emptied' /\ NothingForeign'
  BY <1>2 DEF InLast, Emptied, NothingForeign
<1>4. QED BY <1>1, <1>2, <1>3, NothingEmitted DEF ClientIInv

\* The builder goes on where the client wants it: a new block is in the last
\* function opened, and one whose name is taken changes nothing.
LEMMA NewBlockKeeps ==
  ASSUME ClientIInv, status # "aborted", NEW name \in Names, NewBlock(name)
  PROVE  ClientIInv'
<1>1. /\ IInv /\ ClientTypeOK /\ InLast /\ Emptied /\ NothingForeign
      /\ functions # <<>> /\ own' = own
      /\ opening' = (opening /\ status' = "threw")
  BY DEF ClientIInv, NewBlock
<1>2. IInv'
  BY <1>1, CreateBlockKeeps DEF NewBlock
<1>3. PICK b \in Blocks :
        /\ owner[b] = Absent
        /\ owner' = [owner EXCEPT ![b] = Newest]
        /\ Enter(name, b)
        /\ emitted' = <<>>
        /\ UNCHANGED <<stack, vars, functions>>
  BY DEF NewBlock, CreateBlock
<1>4. owner \in [Blocks -> Functions \cup {None, Absent}] /\ Newest' = Newest
  BY <1>1, <1>3 DEF IInv, TypeOK, Newest
<1>5. CASE status' = "threw" /\ insert' = insert
  <2>1. insert # b
    BY <1>1, <1>3 DEF IInv, BlocksExist
  <2>2. Here' = Here
    BY <1>3, <1>4, <1>5, <2>1 DEF Here
  <2>3. ClientTypeOK' /\ InLast' /\ Emptied' /\ NothingForeign'
    BY <1>1, <1>2, <1>3, <1>4, <1>5, <2>2
    DEF ClientTypeOK, IInv, InLast, Emptied, NothingForeign, Local, IsLiteral
  <2>4. QED BY <1>2, <1>3, <2>3, NothingEmitted DEF ClientIInv
<1>6. CASE status' = "done" /\ insert' = b
  <2>1. Here' = Newest /\ ~opening'
    BY <1>1, <1>3, <1>4, <1>6 DEF Here
  <2>2. ClientTypeOK' /\ InLast' /\ Emptied'
    BY <1>1, <1>2, <1>4, <2>1 DEF ClientTypeOK, IInv, InLast, Emptied
  <2>3. NothingForeign'
    <3>1. CASE opening
      BY <1>1, <1>3, <3>1 DEF NothingForeign, Emptied
    <3>2. CASE ~opening
      BY <1>1, <1>3, <2>1, <3>2 DEF NothingForeign, InLast, Local, IsLiteral
    <3>3. QED BY <3>1, <3>2
  <2>4. QED BY <1>2, <1>3, <2>2, <2>3, NothingEmitted DEF ClientIInv
<1>7. QED BY <1>3, <1>5, <1>6 DEF Enter

LEMMA GoToKeeps ==
  ASSUME ClientIInv, status # "aborted", NEW name \in Names, GoTo(name)
  PROVE  ClientIInv'
<1>1. /\ IInv /\ ClientTypeOK /\ InLast /\ Emptied /\ NothingForeign
      /\ functions # <<>> /\ ~opening /\ own' = own /\ opening' = opening
  BY DEF ClientIInv, GoTo, client
<1>2. IInv' /\ ClientTypeOK'
  BY <1>1, SetBlockKeeps DEF GoTo, ClientTypeOK, IInv
<1>3. emitted' = <<>> /\ UNCHANGED <<stack, vars, functions, owner>>
  BY DEF GoTo, SetBlock, Abort, Done, fields, ir
<1>4. Here = Newest /\ Newest' = Newest
  BY <1>1, <1>3 DEF InLast, Newest
<1>5. Here' = Here
  <2>1. CASE Abort
    BY <2>1 DEF Abort, Here, fields, ir
  <2>2. CASE blocks.left[name] # Absent /\ insert' = blocks.left[name]
    <3>1. blocks.left[name] \in Blocks
      BY <1>1, <2>2 DEF IInv, TypeOK, Bimaps
    <3>2. QED BY <1>3, <1>4, <2>2, <3>1 DEF GoTo, Here
  <2>3. QED BY <2>1, <2>2 DEF GoTo, SetBlock
<1>6. InLast' /\ Emptied' /\ NothingForeign'
  BY <1>1, <1>3, <1>4, <1>5 DEF InLast, Emptied, NothingForeign, Local, IsLiteral
<1>7. QED BY <1>2, <1>3, <1>6, NothingEmitted DEF ClientIInv

LEMMA RegisterKeeps ==
  ASSUME ClientIInv, status # "aborted", RegisterNext, UNCHANGED client PROVE ClientIInv'
<1>1. IInv' /\ ClientTypeOK'
  BY RegisterBlockKeeps DEF RegisterNext, ClientIInv, ClientTypeOK, IInv, client
<1>2. emitted' = <<>> /\ UNCHANGED <<stack, vars, functions, insert, owner>>
  BY DEF RegisterNext, RegisterBlock, ir
<1>3. InLast' /\ Emptied' /\ NothingForeign'
  BY <1>2 DEF ClientIInv, InLast, Emptied, NothingForeign, Local, IsLiteral, Here, Newest, client
<1>4. QED BY <1>1, <1>2, <1>3, NothingEmitted DEF ClientIInv

LEMMA ClientIInvInit == ClientInit => ClientIInv
<1> SUFFICES ASSUME ClientInit PROVE ClientIInv
  OBVIOUS
<1>1. IInv /\ ClientTypeOK
  BY IInvInit DEF ClientInit, ClientTypeOK, IInv
<1>2. InLast /\ Emptied /\ NothingForeign /\ OperandsLocal /\ RetFits
  BY DEF ClientInit, Init, InLast, Emptied, NothingForeign, OperandsLocal, RetFits
<1>3. QED BY <1>1, <1>2 DEF ClientIInv

LEMMA ClientIInvStep == ClientIInv /\ [ClientNext]_<<all, client>> => ClientIInv'
<1> SUFFICES ASSUME ClientIInv, [ClientNext]_<<all, client>> PROVE ClientIInv'
  OBVIOUS
<1>1. CASE ClientNext
  BY <1>1, WorkKeeps, OpenKeeps, RegisterKeeps, NewBlockKeeps, GoToKeeps DEF ClientNext
<1>2. CASE UNCHANGED <<all, client>>
  <2>1. IInv'
    BY <1>2, IInvStep DEF ClientIInv
  <2>2. UNCHANGED <<stack, vars, functions, insert, owner, emitted, status, opening, own>>
    BY <1>2 DEF all, fields, ir, client
  <2>3. Here' = Here /\ Newest' = Newest
    BY <2>2 DEF Here, Newest
  <2>4. OperandsLocal' /\ RetFits' /\ ClientTypeOK'
    BY <2>1, <2>2, <2>3
    DEF ClientIInv, OperandsLocal, RetFits, ClientTypeOK, IInv, IsLiteral
  <2>5. (status # "aborted" => InLast /\ Emptied /\ NothingForeign)'
    BY <2>2, <2>3 DEF ClientIInv, InLast, Emptied, NothingForeign, Local, IsLiteral
  <2>6. QED BY <2>1, <2>4, <2>5 DEF ClientIInv
<1>3. QED BY <1>1, <1>2

LEMMA ClientIInvAlways == ClientSpec => []ClientIInv
BY ClientIInvInit, ClientIInvStep, PTL DEF ClientSpec

\* The types of the builder and of its client.
THEOREM ClientTypeCorrect == ClientSpec => []ClientTypeOK
<1>1. ClientIInv => ClientTypeOK
  BY DEF ClientIInv
<1>2. QED BY <1>1, ClientIInvAlways, PTL

\* No instruction uses a value of another function, although the builder
\* clears neither its operands nor its variables from one to the next.
THEOREM OperandsStayLocal == ClientSpec => []OperandsLocal
<1>1. ClientIInv => OperandsLocal
  BY DEF ClientIInv
<1>2. QED BY <1>1, ClientIInvAlways, PTL

\* Every ret returns what its function does.
THEOREM RetsFit == ClientSpec => []RetFits
<1>1. ClientIInv => RetFits
  BY DEF ClientIInv
<1>2. QED BY <1>1, ClientIInvAlways, PTL
=============================================================================
