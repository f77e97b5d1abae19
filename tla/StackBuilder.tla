---------------------------- MODULE StackBuilder ----------------------------
(***************************************************************************)
(* sc::stack_builder (include/sc/builder.hpp): a builder of LLVM IR whose  *)
(* actions take the operands they are not given from an operand stack.     *)
(*                                                                         *)
(* A step is one application of an action to a builder.  Of the IR the     *)
(* model keeps what the builder's behaviour depends on: which block lies   *)
(* in which function, which function in which module, which blocks hold    *)
(* instructions, how many instructions there are, and the instructions the *)
(* last step made.  A value is its number in the order of creation (0 for  *)
(* a constant), its type, and the function it was made in.                 *)
(***************************************************************************)
EXTENDS Bimap, Integers, Sequences, FiniteSets

CONSTANTS
  Types, Ptr, Bool, Void,   \* LLVM types, and the three the builder makes
  Names, EmptyName,         \* names of blocks and variables; EmptyName is ""
  Blocks, Functions, Modules,
  Signature,                \* the result and parameter types of a function
  Foreign,                  \* the functions and blocks there are to begin with
  None,                     \* nullptr, std::nullopt
  Unset,                    \* a pointer that was never written
  Reuse,                    \* do clients pass back values they read?
  MaxValues,                \* bound: instructions in a behaviour
  MaxStack,                 \* bound: operands on the stack
  MaxArgs,                  \* bound: arguments of a call
  MaxOpened                 \* bound: functions opened

ASSUME TypesAssumption == {Ptr, Bool, Void} \subseteq Types

ASSUME NamesAssumption == EmptyName \in Names /\ Absent \notin Names /\ None \notin Names

ASSUME SentinelAssumption ==
  {None, Unset, Absent} \cap (Blocks \cup Functions \cup Modules \cup Types) = {}

ASSUME DistinctSentinels == None # Absent /\ None # Unset

ASSUME SignatureAssumption ==
  Signature \in [Functions -> [ret : Types, params : Seq(Types)]]

ASSUME BoundsAssumption == {MaxValues, MaxStack, MaxArgs, MaxOpened} \subseteq Nat

VARIABLES
  (* the fields of the stack_builder *)
  stack, keep_stack, vars, functions, module, blocks, current_block,
  insert,    \* the block the IRBuilder inserts into
  (* the IR *)
  parent,    \* module of a function: Absent before it exists, None outside
  owner,     \* function of a block:  Absent before it exists, None outside
  created,   \* the blocks made by create_block
  filled,    \* the blocks that hold instructions the builder put there
  count,     \* the number of instructions made
  (* the last step *)
  emitted,   \* the instructions it made, in order
  status     \* how it ended

fields == <<stack, keep_stack, vars, functions, module, blocks, current_block, insert>>
ir     == <<parent, owner, created, filled, count>>
all    == <<fields, ir, emitted, status>>
-----------------------------------------------------------------------------
ValueTypes == Types \ {Void}

Values == [id : Nat, ty : Types, fn : Functions \cup {None}]

Literal(ty) == [id |-> 0, ty |-> ty, fn |-> None]

IsLiteral(v) == v.id = 0

Literals == {Literal(ty) : ty \in ValueTypes}

Ops == {"alloc", "load", "store", "bin", "cmp", "phi", "cast", "condbr", "branch", "ret"}

\* A function is no operation of the builder's.
ASSUME OpsAssumption == Ops \cap Functions = {}

\* An instruction; the op of a call is the function called.
Instructions == [op : Ops \cup Functions, args : Seq(Values)]

Instr(op, args) == [op |-> op, args |-> args]

TypeOK ==
  /\ stack \in Seq(Values)
  /\ keep_stack \in BOOLEAN
  /\ vars \in [Names -> Values \cup {Absent}]
  /\ functions \in Seq(Functions)
  /\ module \in Modules \cup {None}
  /\ blocks \in Bimaps(Names, Blocks)
  /\ current_block \in Blocks \cup {Unset}
  /\ insert \in Blocks \cup {None}
  /\ parent \in [Functions -> Modules \cup {None, Absent}]
  /\ owner \in [Blocks -> Functions \cup {None, Absent}]
  /\ created \subseteq Blocks
  /\ filled \subseteq Blocks
  /\ count \in Nat
  /\ emitted \in Seq(Instructions)
  /\ status \in {"done", "threw", "aborted"}

\* A fresh builder; the IR may hold functions and blocks of the client's.
\* The constructor from an instruction sets the IRBuilder's block, and no
\* field of the stack_builder (builder.hpp:418-420).
Init ==
  /\ stack = <<>>
  /\ keep_stack = FALSE
  /\ vars = [n \in Names |-> Absent]
  /\ functions = <<>>
  /\ module = None
  /\ blocks = EmptyBimap(Names, Blocks)
  /\ current_block = Unset
  /\ parent \in [Functions -> Modules \cup {None, Absent}]
  /\ \A f \in Functions : parent[f] # Absent <=> f \in Foreign
  /\ owner \in [Blocks -> (Functions \cap Foreign) \cup {Absent}]
  /\ \A b \in Blocks : owner[b] # Absent <=> b \in Foreign
  /\ insert \in (Blocks \cap Foreign) \cup {None}
  /\ created = {}
  /\ filled = {}
  /\ count = 0
  /\ emitted = <<>>
  /\ status = "done"
-----------------------------------------------------------------------------
(* Ends of a step. *)

\* A failed assert or undefined behaviour: nothing follows it.
Abort ==
  /\ status' = "aborted"
  /\ emitted' = <<>>
  /\ UNCHANGED <<fields, ir>>

\* The step was a change of fields, and made no instruction.
Done ==
  /\ status' = "done"
  /\ emitted' = <<>>

Top == stack[Len(stack)]

\* The step made n instructions, the ones in instrs (the casts of one call
\* are listed as one), and left the operands stk.
Emit(n, instrs, stk) ==
  /\ count + n <= MaxValues
  /\ Len(stk) <= MaxStack
  /\ stack' = stk
  /\ emitted' = instrs
  /\ count' = count + n
  /\ filled' = IF n > 0 /\ insert # None THEN filled \cup {insert} ELSE filled
  /\ status' = "done"
  /\ UNCHANGED <<keep_stack, functions, module, blocks, current_block, insert,
                 parent, owner, created>>
-----------------------------------------------------------------------------
(***************************************************************************)
(* popvalue, for the operands opts of one action in the order the action   *)
(* asks for them.  An operand that is not given is popped; once the stack  *)
(* is kept, every such operand is the top.                                 *)
(***************************************************************************)
Missing(opts) == {i \in DOMAIN opts : opts[i] = None}

\* How many operands have been popped once the i-th is there.
Taken(opts, i) == Cardinality({j \in Missing(opts) : j <= i})

Enough(opts) ==
  IF keep_stack THEN Missing(opts) # {} => stack # <<>>
  ELSE Taken(opts, Len(opts)) <= Len(stack)

\* Mutant of Operand: operands come from the bottom of the stack.
OperandFromBottom(opts, i) ==
  IF opts[i] # None THEN opts[i]
  ELSE IF keep_stack THEN Top
  ELSE stack[Taken(opts, i)]

Operand(opts, i) ==
  IF opts[i] # None THEN opts[i]
  ELSE IF keep_stack THEN Top
  ELSE stack[Len(stack) + 1 - Taken(opts, i)]

Operands(opts) == [i \in DOMAIN opts |-> Operand(opts, i)]

\* Mutants of Rest: the operands are left there; they are dropped from the
\* bottom; the flag keep_stack is ignored.
RestUnpopped(opts) == stack

RestFromBottom(opts) ==
  IF keep_stack THEN stack
  ELSE SubSeq(stack, Taken(opts, Len(opts)) + 1, Len(stack))

RestUnkept(opts) ==
  LET n == Taken(opts, Len(opts)) IN
  IF n > Len(stack) THEN <<>> ELSE SubSeq(stack, 1, Len(stack) - n)

\* What is left on the stack below them.
Rest(opts) ==
  IF keep_stack THEN stack
  ELSE SubSeq(stack, 1, Len(stack) - Taken(opts, Len(opts)))

\* The values a client passes: constants, and values it read from the stack.
Given == Literals \cup (IF Reuse THEN {stack[i] : i \in DOMAIN stack} ELSE {})

Option == Given \cup {None}
-----------------------------------------------------------------------------
(* LLVM, as builder_t uses it. *)

\* The function the IRBuilder inserts into, if any.
Here == IF insert \in Blocks THEN owner[insert] ELSE None

\* alloca, load and store ask the module of the insertion point for its data
\* layout: without such a module they crash.
HasLayout == Here \in Functions /\ parent[Here] \in Modules

\* The k-th value made by this step.
Made(k, ty) == [id |-> count + k, ty |-> ty, fn |-> Here]

\* The IRBuilder folds an operation on constants into a constant.
Folds(args) == \A i \in DOMAIN args : IsLiteral(args[i])
-----------------------------------------------------------------------------
(* Actions on values. *)

\* Mutant of Alloc: a name that is there keeps its first variable.
AllocFirstWins(name) ==
  \/ ~HasLayout /\ Abort
  \/ /\ HasLayout
     /\ Emit(1, <<Instr("alloc", <<>>)>>, Append(stack, Made(1, Ptr)))
     /\ vars' = IF name = None THEN vars ELSE Emplaced(vars, name, Made(1, Ptr))

\* alloc: the variable is recorded under its name, over an older one.
Alloc(name) ==
  \/ ~HasLayout /\ Abort
  \/ /\ HasLayout
     /\ Emit(1, <<Instr("alloc", <<>>)>>, Append(stack, Made(1, Ptr)))
     /\ vars' = IF name = None THEN vars ELSE [vars EXCEPT ![name] = Made(1, Ptr)]

\* load: vars.at throws before anything else happens.  The default action
\* load() asks for the name "" and gives no type, which create asserts.
Load(name, ty) ==
  \/ /\ vars[name] = Absent
     /\ status' = "threw"
     /\ emitted' = <<>>
     /\ UNCHANGED <<fields, ir>>
  \/ /\ vars[name] # Absent
     /\ ty = None \/ ~HasLayout
     /\ Abort
  \/ /\ vars[name] # Absent
     /\ ty # None /\ HasLayout
     /\ Emit(1, <<Instr("load", <<vars[name]>>)>>, Append(stack, Made(1, ty)))
     /\ UNCHANGED vars

\* load_ptr: its constructor takes the pointer; from is a public field, and a
\* client that resets it has the pointer popped.
LoadPtr(from, ty) ==
  LET opts == <<from>> IN
  \/ ~(Enough(opts) /\ HasLayout) /\ Abort
  \/ /\ Enough(opts) /\ HasLayout
     /\ Emit(1, <<Instr("load", Operands(opts))>>, Append(Rest(opts), Made(1, ty)))
     /\ UNCHANGED vars

\* store: pops the value, then the destination, and pushes nothing.
Store(val, dst) ==
  LET opts == <<val, dst>> IN
  \/ ~(Enough(opts) /\ HasLayout) /\ Abort
  \/ /\ Enough(opts) /\ HasLayout
     /\ Emit(1, <<Instr("store", Operands(opts))>>, Rest(opts))
     /\ UNCHANGED vars

\* bin and cmp: the left operand is popped first.
Binary(op, lhs, rhs) ==
  LET opts == <<lhs, rhs>>
      args == Operands(opts)
      ty   == IF op = "cmp" THEN Bool ELSE args[1].ty
  IN
  \/ ~Enough(opts) /\ Abort
  \/ /\ Enough(opts)
     /\ IF Folds(args)
        THEN Emit(0, <<>>, Append(Rest(opts), Literal(ty)))
        ELSE Emit(1, <<Instr(op, args)>>, Append(Rest(opts), Made(1, ty)))
     /\ UNCHANGED vars

\* phi: its values are given with the blocks they come from.
Phi(vals) ==
  \/ vals = <<>> /\ Abort
  \/ /\ vals # <<>>
     /\ Emit(1, <<Instr("phi", vals)>>, Append(stack, Made(1, vals[1].ty)))
     /\ UNCHANGED vars

\* The casts.  A value that has the type already is the result itself.
Cast(val, to) ==
  LET opts == <<val>>
      arg  == Operands(opts)[1]
  IN
  \/ ~Enough(opts) /\ Abort
  \/ /\ Enough(opts)
     /\ IF arg.ty = to THEN Emit(0, <<>>, Append(Rest(opts), arg))
        ELSE IF IsLiteral(arg) THEN Emit(0, <<>>, Append(Rest(opts), Literal(to)))
        ELSE Emit(1, <<Instr("cast", <<arg>>)>>, Append(Rest(opts), Made(1, to)))
     /\ UNCHANGED vars

\* condbr: the branch is pushed like any value.  Constructed from a
\* condition alone it has no targets: its block pointers are indeterminate.
CondBr(cond, targeted) ==
  LET opts == <<cond>> IN
  \/ ~(Enough(opts) /\ targeted) /\ Abort
  \/ /\ Enough(opts) /\ targeted
     /\ Emit(1, <<Instr("condbr", Operands(opts))>>, Append(Rest(opts), Made(1, Void)))
     /\ UNCHANGED vars

Branch ==
  /\ Emit(1, <<Instr("branch", <<>>)>>, Append(stack, Made(1, Void)))
  /\ UNCHANGED vars

(***************************************************************************)
(* call: pops the arguments from the first to the last, and casts the ones *)
(* whose type is not the parameter's.  An argument beyond the parameters   *)
(* is compared to a type read past the end of the parameter list; an       *)
(* argument short, and LLVM rejects the call.                              *)
(***************************************************************************)
Call(fn, opts) ==
  LET params  == Signature[fn].params
      args    == Operands(opts)
      recast  == {i \in DOMAIN opts : args[i].ty # params[i] /\ ~IsLiteral(args[i])}
      casts   == [i \in DOMAIN opts |-> Cardinality({j \in recast : j <= i})]
      passed  == [i \in DOMAIN opts |->
                    IF args[i].ty = params[i] THEN args[i]
                    ELSE IF IsLiteral(args[i]) THEN Literal(params[i])
                    ELSE Made(casts[i], params[i])]
      made    == Cardinality(recast)
      casting == IF recast = {} THEN <<>> ELSE <<Instr("cast", args)>>
  IN
  \/ ~(Enough(opts) /\ Len(opts) = Len(params)) /\ Abort
  \/ /\ Enough(opts) /\ Len(opts) = Len(params)
     /\ Emit(made + 1, Append(casting, Instr(fn, passed)),
             Append(Rest(opts), Made(made + 1, Signature[fn].ret)))
     /\ UNCHANGED vars

\* ret: whether it returns a value depends on the last function opened, not
\* on the function of the insertion point.
Ret(val) ==
  IF functions = <<>> THEN Abort
  ELSE IF Signature[functions[Len(functions)]].ret = Void
  THEN IF val # None THEN Abort
       ELSE Emit(1, <<Instr("ret", <<>>)>>, stack) /\ UNCHANGED vars
  ELSE IF ~Enough(<<val>>) THEN Abort
  ELSE Emit(1, <<Instr("ret", Operands(<<val>>))>>, Rest(<<val>>)) /\ UNCHANGED vars
-----------------------------------------------------------------------------
(* Actions on blocks, functions and the module. *)

\* Mutant of Newest: the first function opened.
Eldest == IF functions = <<>> THEN None ELSE functions[1]

\* The function a new block goes to: the last one opened, if any.
Newest == IF functions = <<>> THEN None ELSE functions[Len(functions)]

\* Mutants of Enter: the current block, or the insertion point, is set
\* before the name is inserted.
EnterCurrentFirst(name, b) ==
  /\ status' = IF InsertThrows(blocks, name, b) THEN "threw" ELSE "done"
  /\ current_block' = b
  /\ insert' = IF InsertThrows(blocks, name, b) THEN insert ELSE b

EnterInsertFirst(name, b) ==
  /\ status' = IF InsertThrows(blocks, name, b) THEN "threw" ELSE "done"
  /\ current_block' = IF InsertThrows(blocks, name, b) THEN current_block ELSE b
  /\ insert' = b

\* What create_block does once it has registered its block, or failed to.
Enter(name, b) ==
  IF InsertThrows(blocks, name, b)
  THEN status' = "threw" /\ UNCHANGED <<current_block, insert>>
  ELSE status' = "done" /\ current_block' = b /\ insert' = b

\* create_block: LLVM makes the block first, in the last function opened; if
\* its name is taken the insert throws, and the block stays where it is.
CreateBlock(name) ==
  \E b \in Blocks :
    /\ owner[b] = Absent
    /\ owner' = [owner EXCEPT ![b] = Newest]
    /\ created' = created \cup {b}
    /\ blocks' = Inserted(blocks, name, b)
    /\ Enter(name, b)
    /\ emitted' = <<>>
    /\ UNCHANGED <<stack, keep_stack, vars, functions, module, parent, filled, count>>

\* set_block: asserts that the name is known.
SetBlock(name) ==
  \/ blocks.left[name] = Absent /\ Abort
  \/ /\ blocks.left[name] # Absent
     /\ current_block' = blocks.left[name]
     /\ insert' = blocks.left[name]
     /\ Done
     /\ UNCHANGED <<stack, keep_stack, vars, functions, module, blocks, ir>>

\* push( name, bb ) on the public interface, for a block of the client's.
RegisterBlock(name, b) ==
  /\ owner[b] # Absent
  /\ blocks' = Inserted(blocks, name, b)
  /\ status' = IF InsertThrows(blocks, name, b) THEN "threw" ELSE "done"
  /\ emitted' = <<>>
  /\ UNCHANGED <<stack, keep_stack, vars, functions, module, current_block, insert, ir>>

Module(m) ==
  /\ module' = m
  /\ Done
  /\ UNCHANGED <<stack, keep_stack, vars, functions, blocks, current_block, insert, ir>>

\* function: continues a function there is, and moves to its module.
Function(f) ==
  /\ parent[f] # Absent
  /\ Len(functions) < MaxOpened
  /\ functions' = Append(functions, f)
  /\ module' = parent[f]
  /\ Done
  /\ UNCHANGED <<stack, keep_stack, vars, blocks, current_block, insert, ir>>

\* push( f ) on the public interface: the module is left as it is.
PushFunction(f) ==
  /\ parent[f] # Absent
  /\ Len(functions) < MaxOpened
  /\ functions' = Append(functions, f)
  /\ Done
  /\ UNCHANGED <<stack, keep_stack, vars, module, blocks, current_block, insert, ir>>

\* create_function: in the current module, or in none.
CreateFunction(f) ==
  /\ parent[f] = Absent
  /\ Len(functions) < MaxOpened
  /\ functions' = Append(functions, f)
  /\ parent' = [parent EXCEPT ![f] = module]
  /\ Done
  /\ UNCHANGED <<stack, keep_stack, vars, module, blocks, current_block, insert,
                 owner, created, filled, count>>
-----------------------------------------------------------------------------
(* Actions on the operand stack. *)

\* keep_stack: there is no action that turns it off again.
KeepStack ==
  /\ keep_stack' = TRUE
  /\ Done
  /\ UNCHANGED <<stack, vars, functions, module, blocks, current_block, insert, ir>>

PushValue(v) ==
  /\ Len(stack) < MaxStack
  /\ stack' = Append(stack, v)
  /\ Done
  /\ UNCHANGED <<keep_stack, vars, functions, module, blocks, current_block, insert, ir>>

\* pop: drops n operands, kept or not.
Pop(n) ==
  \/ n > Len(stack) /\ Abort
  \/ /\ n <= Len(stack)
     /\ stack' = SubSeq(stack, 1, Len(stack) - n)
     /\ Done
     /\ UNCHANGED <<keep_stack, vars, functions, module, blocks, current_block, insert, ir>>

\* last: reads the top, and ends the chain of actions.
Last ==
  \/ stack = <<>> /\ Abort
  \/ stack # <<>> /\ Done /\ UNCHANGED <<fields, ir>>
-----------------------------------------------------------------------------
\* The actions that make values; readable are the names the client loads.
ValueNext(readable) ==
  \/ \E name \in Names \cup {None} : Alloc(name)
  \/ \E name \in readable, ty \in ValueTypes : Load(name, ty)
  \/ Load(EmptyName, None)
  \/ \E from \in Option, ty \in ValueTypes : LoadPtr(from, ty)
  \/ \E val, dst \in Option : Store(val, dst)
  \/ \E op \in {"bin", "cmp"}, lhs, rhs \in Option : Binary(op, lhs, rhs)
  \/ \E vals \in {<<>>} \cup (Given \X Given) : Phi(vals)
  \/ \E val \in Option, to \in ValueTypes : Cast(val, to)
  \/ \E cond \in Option, targeted \in BOOLEAN : CondBr(cond, targeted)
  \/ Branch
  \/ \E fn \in Functions, n \in 0..MaxArgs : \E opts \in [1..n -> Option] :
       parent[fn] # Absent /\ Call(fn, opts)
  \/ \E val \in Option : Ret(val)

StackNext ==
  \/ KeepStack
  \/ \E v \in Given : PushValue(v)
  \/ \E n \in 0..MaxStack + 1 : Pop(n)
  \/ Last

FunctionNext ==
  \E f \in Functions : Function(f) \/ PushFunction(f) \/ CreateFunction(f)

RegisterNext == \E name \in Names, b \in Blocks : RegisterBlock(name, b)

Next ==
  /\ status # "aborted"
  /\ \/ ValueNext(Names)
     \/ StackNext
     \/ FunctionNext
     \/ RegisterNext
     \/ \E name \in Names : CreateBlock(name) \/ SetBlock(name)
     \/ \E m \in Modules : Module(m)

Spec == Init /\ [][Next]_all
-----------------------------------------------------------------------------
(* Safety. *)

\* Once create_block or set_block has set a current block, instructions go
\* there, and current_block_name() finds its name, under which set_block
\* finds it again (builder.hpp:588-608, 664-667).
CurrentBlockNamed ==
  current_block # Unset =>
    /\ insert = current_block
    /\ blocks.right[current_block] # Absent
    /\ blocks.left[blocks.right[current_block]] = current_block

\* A block that create_block made but could not register stays in its
\* function for good; at least the builder never builds into it
\* (builder.hpp:588-600).
OrphansStayEmpty == \A b \in created \cap filled : blocks.right[b] # Absent

\* An action that throws leaves every field of its builder as it was, though
\* create_block throws half way (builder.hpp:465-469, 588-600).
ThrowKeepsBuilder == [][status' = "threw" => UNCHANGED fields]_all

\* The registered blocks and their names are a bijection, and no name is ever
\* taken from its block: a name that create_block or push refuses leaves the
\* older block registered (builder.hpp:430-432, 588-600).
BlockNames == INSTANCE Bijection WITH
  A <- Names, B <- Blocks,
  pairs <- {<<n, blocks.left[n]>> : n \in {m \in Names : blocks.left[m] # Absent}}

ImplementsBijection == BlockNames!GrowingSpec

\* Every action obeys the discipline of an operand stack.
Discipline == INSTANCE OperandStack

ImplementsOperandStack == Discipline!Spec

\* Once the stack is kept, no action but pop takes anything off it, not even
\* one that makes no instruction because it was folded (builder.hpp:448-451).
KeepOnlyReads ==
  [][keep_stack =>
       \/ Len(stack) <= Len(stack') /\ SubSeq(stack', 1, Len(stack)) = stack
       \/ \E n \in 1..Len(stack) : Pop(n)]_all

\* Is the value u made later than v?  A kept stack repeats values.
NotOlder(u, v) ==
  IsLiteral(u) \/ IsLiteral(v) \/ u.id > v.id \/ (keep_stack /\ u.id = v.id)

\* A client that passes constants only has its values on the stack in the
\* order in which they were made, each once unless the stack is kept.
StackInCreationOrder ==
  ~Reuse => \A i, j \in DOMAIN stack : i < j => NotOlder(stack[j], stack[i])

\* To such a client an instruction takes its operands from the newest to the
\* oldest: the left operand of bin and the value of store are the last value
\* made, not the first (builder.hpp:477-503).
OperandsNewestFirst ==
  ~Reuse => \A k \in DOMAIN emitted :
    emitted[k].op \in Ops =>
      \A i, j \in DOMAIN emitted[k].args :
        i < j => NotOlder(emitted[k].args[i], emitted[k].args[j])

\* The test "chain" (test/src/builder.cpp:29-38): load() right after an alloc
\* that was given no name loads what was allocated.
ChainLoads ==
  [][(\E i \in DOMAIN emitted : emitted[i].op = "alloc")
       /\ vars[EmptyName] = Absent /\ Load(EmptyName, None)
       => emitted' = <<Instr("load", <<Top>>)>>]_all
-----------------------------------------------------------------------------
(* The inductive invariant: what the properties above rest on. *)

\* A registered block exists; so do the blocks that hold instructions and
\* the one instructions go to.
BlocksExist ==
  /\ \A n \in Names : blocks.left[n] # Absent => owner[blocks.left[n]] # Absent
  /\ insert \in Blocks => owner[insert] # Absent
  /\ \A b \in filled : owner[b] # Absent

\* The builder builds into no block of its own making without a name.
InsertNamed == insert \in created => blocks.right[insert] # Absent

IInv ==
  /\ TypeOK
  /\ Mirror(blocks)
  /\ BlocksExist
  /\ InsertNamed
  /\ CurrentBlockNamed
  /\ OrphansStayEmpty

\* A value on the stack was made: one made next is newer than all of them.
StackMade == \A i \in DOMAIN stack : stack[i].id <= count

\* What the order of operands rests on, for a client that passes constants.
OrderInv ==
  /\ ~Reuse => StackMade
  /\ StackInCreationOrder
  /\ OperandsNewestFirst
=============================================================================
