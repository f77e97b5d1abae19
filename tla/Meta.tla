-------------------------------- MODULE Meta --------------------------------
(***************************************************************************)
(* sc::meta (src/meta.cpp, include/sc/meta.tpp) over the global context of *)
(* src/context.cpp: strings that are attached to LLVM values under tags.   *)
(*                                                                         *)
(* A value keeps a tuple of strings for each tag.  An argument has no      *)
(* metadata of its own: its string is an operand of a tuple of its         *)
(* function, that is changed in place.  Tuples have an identity.           *)
(*                                                                         *)
(* What a get returns refers to a copy of the string that is destroyed     *)
(* where it is returned: a client may ask whether there is a string, and   *)
(* must not read it.                                                       *)
(***************************************************************************)
EXTENDS Naturals, Sequences

CONSTANTS
  Functions, Arity,      \* functions, and how many arguments each has
  Others,                \* instructions and global variables
  Constants,             \* values of any other kind
  Tags, Arguments,       \* the tags; tag::arguments is one of them
  Strings, Empty, NoMeta,  \* strings; "" and tag::none among them
  Alien,                 \* a node that node() did not make: null, empty, or of no string
  Contexts,
  None, Dangling,        \* what a get returns: nothing, or such a reference
  MaxTuples              \* bound: tuples made

ASSUME ArityAssumption == Arity \in [Functions -> Nat]

ASSUME StringsAssumption ==
  /\ Arguments \in Tags
  /\ {Empty, NoMeta} \subseteq Strings /\ Empty # NoMeta
  /\ Alien \notin Strings /\ None \notin Strings \cup {Alien}

ASSUME AnswersAssumption == None # Dangling

\* Tags are no argument numbers: Keys below keeps the two apart.
ASSUME TagsAssumption == Tags \cap Nat = {}

ASSUME BoundAssumption == MaxTuples \in Nat

VARIABLES
  context,  \* the global _context
  tuples,   \* the tuples there are: their operands, nodes of one string each
  meta,     \* the tuple a value has under a tag, by its number
  written,  \* the string last set for a value and tag, or for an argument
  answer,   \* what the last get returned
  status,   \* how the last call ended
  kept      \* has the client kept to the calls of TaggedCall so far?

vars == <<context, tuples, meta, written, answer, status, kept>>

metadata == <<context, tuples, meta, written>>

Holders == Functions \cup Others

Args == UNION {{f} \X (1..Arity[f]) : f \in Functions}

\* What a string can be set for, as the client sees it.
Keys == (Holders \X Tags) \cup Args

\* The node of a string is named by it.
Nodes == Strings \cup {Alien}

TypeOK ==
  /\ context \in Contexts \cup {None}
  /\ tuples \in Seq(Seq(Nodes))
  /\ meta \in [Holders \X Tags -> 0..Len(tuples)]
  /\ written \in [Keys -> Nodes \cup {None}]
  /\ answer \in {None, Dangling}
  /\ status \in {"ok", "crashed"}
  /\ kept \in BOOLEAN

Init ==
  /\ context = None
  /\ tuples = <<>>
  /\ meta = [k \in Holders \X Tags |-> 0]
  /\ written = [k \in Keys |-> None]
  /\ answer = None
  /\ status = "ok"
  /\ kept = TRUE
-----------------------------------------------------------------------------
\* A failed assert or undefined behaviour: nothing follows it.
Crash ==
  /\ status' = "crashed"
  /\ UNCHANGED metadata /\ UNCHANGED answer

\* init and both constructors of with_context: nothing sets it back.
InitContext(c) ==
  /\ context' = c
  /\ status' = "ok"
  /\ UNCHANGED <<tuples, meta, written, answer>>

\* Mutant of Created: tuples with the same operands are one tuple.
CreatedUniqued(ops) ==
  IF \E k \in DOMAIN tuples : tuples[k] = ops
  THEN [id |-> CHOOSE k \in DOMAIN tuples : tuples[k] = ops, tuples |-> tuples]
  ELSE [id |-> Len(tuples) + 1, tuples |-> Append(tuples, ops)]

\* tuple::create: a distinct tuple, whatever its operands are.
Created(ops) == [id |-> Len(tuples) + 1, tuples |-> Append(tuples, ops)]

\* set, for a function, an instruction or a global variable: a new tuple
\* replaces the one under the tag.
Set(v, tag, str) ==
  \/ context = None /\ Crash
  \/ /\ context # None
     /\ Len(tuples) < MaxTuples
     /\ LET new == Created(<<str>>) IN
        /\ tuples' = new.tuples
        /\ meta' = [meta EXCEPT ![<<v, tag>>] = new.id]
     /\ written' = [written EXCEPT ![<<v, tag>>] = str]
     /\ status' = "ok"
     /\ UNCHANGED <<context, answer>>

\* Mutants of Initialised: the tuple is made anew by every call; it is one
\* operand short.
InitialisedAnew(f) == Created([i \in 1..Arity[f] |-> NoMeta])

InitialisedShort(f) ==
  IF meta[<<f, Arguments>>] # 0 THEN [id |-> meta[<<f, Arguments>>], tuples |-> tuples]
  ELSE Created([i \in 1..(Arity[f] - 1) |-> NoMeta])

\* function_init: the tuple of the arguments, made by the first call.
Initialised(f) ==
  IF meta[<<f, Arguments>>] # 0 THEN [id |-> meta[<<f, Arguments>>], tuples |-> tuples]
  ELSE Created([i \in 1..Arity[f] |-> NoMeta])

\* argument::set, which set calls with any tag and a node made of its string:
\* the operand of the argument is replaced in place.  Beyond the operands there
\* are, that is undefined.  (With a node of the client's, context() is asked for
\* the first tuple only; there is none without a context.)
SetArgument(f, i, node) ==
  \/ context = None /\ Crash
  \/ /\ context # None
     /\ LET init == Initialised(f) IN
        /\ Len(init.tuples) <= MaxTuples
        /\ \/ i > Len(init.tuples[init.id]) /\ Crash
           \/ /\ i <= Len(init.tuples[init.id])
              /\ tuples' = [init.tuples EXCEPT ![init.id][i] = node]
              /\ meta' = [meta EXCEPT ![<<f, Arguments>>] = init.id]
              /\ written' = [written EXCEPT ![<<f, i>>] = node]
              /\ status' = "ok"
              /\ UNCHANGED <<context, answer>>

\* An empty string counts as none.  Of any other a std::string is made, and
\* what is returned refers to that, which is destroyed by the return.
Text(str) == IF str = Empty THEN None ELSE Dangling

\* value( node, idx ), where its asserts and casts hold.
Value(id, idx) == IF id = 0 THEN None ELSE Text(tuples[id][idx])

Readable(id, idx) ==
  id # 0 => idx <= Len(tuples[id]) /\ tuples[id][idx] \in Strings

Answered(ans) == answer' = ans /\ status' = "ok" /\ UNCHANGED metadata

Ask(id, idx) == IF Readable(id, idx) THEN Answered(Value(id, idx)) ELSE Crash

\* get, for a function, an instruction or a global variable.
Get(v, tag) == Ask(meta[<<v, tag>>], 1)

\* argument::get, which get calls with any tag.
GetArgument(f, i) == Ask(meta[<<f, Arguments>>], i)

\* get_string, of what node() makes of a string, or of another node: that has
\* no operand, or one that is no string.
GetString(node) ==
  IF node = Alien THEN Answered(None) \/ Crash
  ELSE IF context = None THEN Crash
  ELSE Answered(Text(node))

\* The client reads the string that it was answered, which is gone.
Read == answer = Dangling /\ Crash

\* set and get with any other value: no case of llvmcase but the last.
Other(v) == v \in Constants /\ Crash
-----------------------------------------------------------------------------
ArgumentNext(nodes) ==
  \E arg \in Args :
    \/ \E node \in nodes : SetArgument(arg[1], arg[2], node)
    \/ GetArgument(arg[1], arg[2])

HolderNext(v, tag) == (\E str \in Strings : Set(v, tag, str)) \/ Get(v, tag)

Call ==
  \/ \E c \in Contexts : InitContext(c)
  \/ \E v \in Holders, tag \in Tags : HolderNext(v, tag)
  \/ ArgumentNext(Nodes)
  \/ \E node \in Nodes : GetString(node)
  \/ Read
  \/ \E v \in Constants : Other(v)

\* The calls of a client that initialises the context first, annotates nothing
\* but what can be annotated, and that with strings, leaves the tag of the
\* arguments of a function alone, and asks whether there is a string but does
\* not read it.
TaggedCall ==
  \/ \E c \in Contexts : InitContext(c)
  \/ /\ context # None
     /\ \/ \E v \in Holders, tag \in Tags :
             (v \in Functions => tag # Arguments) /\ HolderNext(v, tag)
        \/ ArgumentNext(Strings)
        \/ \E str \in Strings : GetString(str)

Next ==
  /\ status # "crashed"
  /\ Call
  /\ kept' = (kept /\ TaggedCall)

Spec == Init /\ [][Next]_vars
-----------------------------------------------------------------------------
\* The string that LLVM holds.
Held(id, idx) == IF id = 0 THEN None ELSE tuples[id][idx]

\* What LLVM holds for a function, instruction or global variable is the string
\* set last under its tag, whatever was set for arguments or under other tags
\* since; and a get says whether there is one that is not empty.  More than that
\* cannot be had of a get (meta.cpp:32-63, 117-139).
HoldersHold ==
  \A v \in Holders, tag \in Tags :
    LET id  == meta[<<v, tag>>]
        str == written[<<v, tag>>]
    IN  ~(v \in Functions /\ tag = Arguments) =>
          /\ Held(id, 1) = str
          /\ Readable(id, 1) /\ (Value(id, 1) # None <=> str \notin {None, Empty})

\* So it is for an argument, though the arguments of a function share one tuple;
\* one that was never set has tag::none as soon as another was, and is answered
\* like one that was set (meta.cpp:65-115).  It takes a client that leaves the
\* tag of the arguments to argument::set.
ArgumentsHold ==
  kept => \A arg \in Args :
    LET id  == meta[<<arg[1], Arguments>>]
        str == written[arg]
    IN  /\ Readable(id, arg[2])
        /\ IF str = None THEN Held(id, arg[2]) \in {None, NoMeta} ELSE Held(id, arg[2]) = str
        /\ Value(id, arg[2]) # None <=> id # 0 /\ str # Empty

\* Setting an argument in place is seen nowhere else: no tuple is held twice
\* (meta.cpp:100-107, meta.tpp:23-35).
TuplesUnshared ==
  \A k, l \in DOMAIN meta : meta[k] = meta[l] /\ meta[k] # 0 => k = l

\* Such a client meets no assert, no operand beyond those of the tuple of the
\* arguments, and, as it reads no answer, no string that is gone
\* (meta.cpp:46-53, 100-107, context.cpp:23-27).
KeptIsSafe == kept => status # "crashed"
-----------------------------------------------------------------------------
(* The inductive invariant. *)

\* The tuple of a holder under a tag is the string written.
HoldersWritten ==
  \A v \in Holders, tag \in Tags :
    ~(v \in Functions /\ tag = Arguments) =>
      IF written[<<v, tag>>] = None THEN meta[<<v, tag>>] = 0
      ELSE /\ meta[<<v, tag>>] # 0 /\ tuples[meta[<<v, tag>>]] = <<written[<<v, tag>>]>>
           /\ written[<<v, tag>>] \in Strings

\* The tuple of the arguments has an operand for each, the string written.
ArgumentsWritten ==
  \A f \in Functions : LET id == meta[<<f, Arguments>>] IN
    /\ id # 0 => Len(tuples[id]) = Arity[f]
    /\ \A i \in 1..Arity[f] : written[<<f, i>>] \in Strings \cup {None}
    /\ \A i \in 1..Arity[f] :
         IF id = 0 THEN written[<<f, i>>] = None
         ELSE tuples[id][i] = IF written[<<f, i>>] = None THEN NoMeta ELSE written[<<f, i>>]

IInv ==
  /\ TypeOK
  /\ TuplesUnshared
  /\ HoldersWritten
  /\ kept => ArgumentsWritten /\ status = "ok"
=============================================================================
