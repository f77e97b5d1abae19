# TLA+ models and proofs of llvm-sc

llvm-sc is a header-mostly C++20 library around LLVM: a builder that makes IR by
a chain of actions, lazy queries over the parts of a module, coroutine generators,
annotations and metadata, and small containers. It has no threads and no network.
What is hard in it is *order*: which operand an action takes, which block it builds
into, who owns a coroutine frame, where an iterator points once something else has
moved, which half of a double bookkeeping is undone when the other half fails.

The modules here model the parts that keep state, TLC checks them on small
instances, and TLAPS proves the main properties for all values of the constants.
Paths below are relative to `src/`; `include/sc/` is left out of header names.

## Inventory

| component | state | operations | works with |
|---|---|---|---|
| `bimap` (bimap.hpp) | two `std::map`s that should be inverse | `insert`, `erase`, lookups both ways | `stack_builder::blocks` |
| `stack_builder`, `builder_t` (builder.hpp) | operand stack, `keep_stack`, `vars`, `functions`, `module`, `blocks`, `current_block`, the insertion point of the `IRBuilder` | one `apply` per action, public `push`, chained by `operator\|` | LLVM, `bimap` |
| `query` (query.hpp) | nested lazy ranges; an iterator nests as its range does and caches mapped values | `map`, `filter`, `flatten`, `concatMap`, `freeze`, `freezeAs`, `forall`, `size`, `fold`, `groupBy`, `all`, `any`, `none`, `min`, `max`, `find`, `findBefore`, `singleton` | containers of LLVM |
| `generator` (generator.hpp, coroutine.hpp) | a coroutine frame with a value pointer and a stored exception; an owning handle; non-owning iterators | construct, move, assign, swap, destroy, `begin`, `++`, `*`, `==` | annotations |
| annotations (annotation.hpp/.tpp/.cpp) | none of their own; `llvm.global.annotations` | parse and print dotted names, `in_namespace`, `enumerate`, `enumerate_in_namespace` | `generator`, `transformer`, `format` |
| metadata (meta.hpp/.tpp, src/meta.cpp) | distinct LLVM tuples under tags; one tuple per function for its arguments | `set`, `get` by kind of value, `argument::set`, `get_string` | context, `llvmcase` |
| context, init (context.hpp, init.hpp) | one global pointer to an `LLVMContext` | `init`, `with_context`, `context()` | metadata, types, constants |
| `deferred_erase` (erase.hpp) | a vector of instructions to erase | `push`, destructors | LLVM |
| `transformer` (transformer.hpp) | one nullable pointer | `cast`, `operand`, `freeze` | annotations |
| `format` (format.hpp) | none | `split`, `splitter`, `trim` | annotations |
| types, constants | none | factories of LLVM types and literals | context |
| ranges, `llvmcase`, ir, config, concepts, warnings | none | adaptors, dispatch, aliases, build settings | |

### Behaviours that are hard, and what makes each component correct

* **bimap.** `insert` fills one map, then the other, and undoes the one that took
  the pair when the other refused. Correct: the maps stay inverse, a refused insert
  leaves nothing, and what a call reports is true.
* **stack_builder.** Operands are popped in the order in which they are asked for;
  a kept stack is only read; folded operations and casts with nothing to do make no
  instruction; current block, insertion point and the table of names move in three
  assignments, one of which throws; nothing is cleared between functions. Correct:
  operand discipline, newest operand first, agreement of the three fields, exceptions
  without effect on the builder, and, for a client that builds one function after the
  other, no operand of another function and a `ret` that fits its function.
* **query.** A walk compares, reads and steps iterators that nest; empty collections
  and rejected elements have to be skipped at the beginning, in a row and at the end;
  mapped values are cached and the cache dropped by `++` only. Correct: a walk gives
  what the expression denotes, and calls a mapped function once per element.
* **generator.** Frames are owned by handles that move, iterators are not owners;
  exceptions are stored in the body and thrown by whoever resumed it. Correct: one
  owner per frame, one delivery per exception, no use of a missing, ended or freed
  frame by a loop that keeps its contract.
  The standard algorithms walk copies of iterators, and some walk twice. Correct too:
  folds, quantifiers and extrema are those of the sequence, empty or not, and every
  walk ends.
* **annotations.** A coroutine loops over a coroutine and yields references into it.
  Names are parsed part by part; a null pointer is passed from transformer to
  transformer. Correct: the element read is alive, the right ones are seen in order, a
  name says what its text does, exceptions pass through both, nothing leaks when a loop
  is left early, every loop ends.
* **deferred_erase.** The destructor of an entry erases, and entries are copied by
  everything that a vector does. Correct: an instruction is erased once, and not before
  the last vector that holds it is gone, for a client that pushes no second one.
* **format.** `split` and `trim` at the ends of a text; a loop over a splitter has to end.
* **metadata.** The strings of all arguments of a function are operands of one tuple
  changed in place. Correct: LLVM holds what was set last, a `get` says whether there is
  a string, and no change in place is seen anywhere else. What a `get` returns cannot be
  read: it refers to a `std::string` that is destroyed by the return.

## Modules

| module | models | lines of the code |
|---|---|---|
| `Bijection` | abstract: a set of pairs, each key in one at most; one that only grows (`GrowingSpec`) | |
| `Bimap` | `insert` and `erase` as operators on a record of two maps | bimap.hpp:69-118 |
| `BimapClient` | a bimap under any calls, or under erases of held pairs only (`PairedSpec`) | bimap.hpp |
| `OperandStack` | abstract: a step takes operands off the top, puts one there at most, and leaves what is below | |
| `StackBuilder` | every `apply`, the public `push`es, and what `builder_t` and LLVM's `IRBuilder` do as far as the builder depends on it | builder.hpp:295-697 |
| `FunctionByFunction` | a client of it that builds one function after the other | builder.hpp:453-629 |
| `Format` | `split` and `trim` as operators on sequences of characters | format.hpp:38-105 |
| `Ranges` | ranges, their iterators and what they denote; the iterator of a splitter | query.hpp:111-466, 902-958, format.hpp:76-85 |
| `Query` | every query that compiles, over ranges given by the operators of their iterators; a loop over a splitter and the name of an instruction | query.hpp:595-832, format.hpp:61-144 |
| `Generator` | frames, generators, iterators, under any client (`Spec`) or one that keeps the contract of a loop (`LoopSpec`) | generator.hpp |
| `GeneratorLoop` | any client, watched: has it kept that contract so far? | generator.hpp |
| `Annotations` | the two nested coroutines and a client's loop, over an instance of `Generator`; transformers; the parser and the names | annotation.tpp:23-54, annotation.hpp:41-54, annotation.cpp:27-54, transformer.hpp:39-67 |
| `Meta` | `set` and `get` for every kind of value over the global context, both `argument::set`, `get_string` | src/meta.cpp, meta.tpp, context.cpp, init.hpp |
| `DeferredErase` | entries, the vector of them under any client, destructors one at a time | erase.hpp:22-52 |
| `BimapLemmas`, `BimapProofs`, `StackBuilderProofs`, `QueryProofs`, `GeneratorProofs`, `AnnotationsProofs`, `MetaProofs`, `DeferredEraseProofs` | theorems | |
| `MC*` | instances for TLC | |

Composition: `StackBuilder` EXTENDS `Bimap` (its `blocks` field is one) and
instantiates `Bijection` and `OperandStack` as the abstract specifications of its
table and its stack. Queries are templates over the type of their range, and so is
`Query`, which EXTENDS `Ranges`: `begin()`, `end()`, `==`, `*` and `++` of a range are
constant operators of both (`BeginOf`, `EndOf`, `Equal`, `Dereferenced`, `Incremented`),
and so is what a range denotes. What `Ranges` defines (`Begin`, `End`, `Same`, `Deref`,
`Step`) is one layer deep, as the members of a template are: of the range below it
calls the constant operators. `MCQuery` ties the two together, and the cfgs set each
constant operator to the one that is defined; `Unfolded` says the same for the proofs.
`Ranges` EXTENDS `Format`: the iterator of a splitter is the text that is left.
`Annotations` INSTANCEs `Generator`, so every step of the two
loops is an action of that module, and `KeepsContract` says that they stay within
`LoopSpec`.

### How state and actions correspond

* *Exceptions, asserts, undefined behaviour.* Each module has a `status` (in
  `BimapClient` the outcome in `call`). "threw" is an exception that a client
  catches and goes on from; "aborted" or "crashed" is a failed assert or undefined
  behaviour, after which no step is modelled: nothing is claimed of it. Assertions
  of LLVM itself on types are left out; types are opaque, and any two values may
  meet in `bin`.
* *The builder.* A step is one application of an action. The callback of `inspect`
  is a sequence of such steps. The values of the IR are numbers in the order of
  creation; a constant is 0. Operations on constants fold, as the `IRBuilder`'s
  folder does. `create_block` is one step with three effects whose exception comes
  between the first and the second: LLVM has the block in its function already when
  the name is refused. `load()` (no arguments) looks "" up. `load_ptr` takes its
  pointer in its constructor; a client can only have it popped by resetting the public field.
  `condbr( cond )` leaves both targets indeterminate, and the model stops there.
  `call` with another number of arguments than the callee's parameters stops too: a
  variadic extra argument reads a parameter type past the end.
* *Queries.* A range is a record that nests as the templates do, an iterator a
  record that nests the same way. `Deref`, `Step`, `Bumped`, `Begin`, `Same` are the
  operators of the nested iterators, each one layer deep; what one calls of the range
  below, or of itself once more, is a constant operator. A value
  returned by a mapped function has an identity, so that iterators into two copies
  of a container differ although the containers are equal. The algorithms of the
  standard library are the loops of libstdc++: those that ask a predicate of iterators
  (`all_of`, `min_element`) take them by value, so that what they evaluate is lost,
  and a constructor from a range of forward iterators measures it before it copies
  (`Count`, then `Copy`). The elements that `filter_llvm` rejects are null, 0.
* *Texts* are sequences of characters. A splitter's walk is a loop only: its iterators
  have no category.
* *LLVM constants* in `Annotations` are records of a kind and operands, or of a text; a
  null pointer is the value `Null`, and every transformer of it is `Null`. The parser is
  one step per round, in the client before the loop and in `enumerate` within it. A
  dereference of null ends in `loop = "crashed"`.
* *Entries of a deferred_erase_vector* are the instructions they hold. What a vector
  does to its entries is one step and leaves the entries it destroys in `doomed`; their
  destructors then run, one step each, before the client goes on. A vector grows as
  `std::vector` does, from nothing to one and then by doubling. What `del` does is a
  choice for the whole run: nothing to the instruction, or deleting it. History:
  `plain` and `grown`, whether the client has kept to what deferring needs.
* *Generators.* A resumption is one step that shows how the body came back: it
  yields, returns, or throws. In `Annotations`, where the body of one is the loop
  over another, a resumption is two steps, the call and the return, with `running`
  for the stack of resumed coroutines.
* *Metadata.* A tuple is a sequence of nodes and its number is its identity. A node that
  `node()` made is the string it was made of; `Alien` is any other that a client may pass
  to `argument::set` or `get_string`. `answer` is what the last get returned, nothing or
  a reference to a string that is gone (`Dangling`); to read that is undefined behaviour
  and a step of the client, `Read`. `written` and `kept` are history: what was set last,
  and whether the client has kept to the calls of `TaggedCall`, `Read` not among them.

## Runs

| run | shows | bounds |
|---|---|---|
| `bimap` | the maps stay inverse, reports are true, `Bijection` is implemented, for a client that erases no two keys held with other partners | 3 keys a side: a third key is what a stray partner would be |
| `bimap_erase` | *violated*: an erase of two keys held with other partners takes half of two pairs | 2 keys a side |
| `stack` | operand discipline, newest first, a kept stack is only read | 3 instructions, 3 operands, calls of 2 arguments: every action has a missing operand, one too few, and one underneath that it must not touch |
| `blocks` | current block, insertion point and names agree; orphans stay empty; a throw changes no field; the table is a bijection that loses no pair | 3 blocks (one of the client's), 2 names, 2 functions: two blocks compete for a name; values that the client read are passed back |
| `chain` | *violated*: the chain of the test "chain" does not load | as `stack` |
| `function_by_function` | operands stay in their function, `ret` fits its function | 2 functions opened, 3 instructions, one operand on the stack: a variable of a name in each function, and a load of the name |
| `query` | walks give what ranges denote, first matches, folds, quantifiers, extrema; one call of a mapped function per element and walk; what was found is readable; a splitter gives the parts; every walk ends that should. `PartsAssumption`, on which the proofs rest, is evaluated with it: what the ranges denote comes from the ranges below as `ComeFrom` says | containers of up to 3 leaves or collections, one of them empty, in every order; nesting of 3; texts of up to 4 characters, both directions; 5 rounds, which no walk that ends needs more of |
| `find_before_owning` | *violated*: over containers returned by value the bound of `findBefore` is missed | as `query` |
| `generator` | one owner, one delivery of an exception; no crash as long as the contract of a loop is kept | 2 generators, 2 iterators, 3 frames: one more frame than there are owners |
| `annotations` | the properties of the nested loops, of the names they meet, and where they crash; liveness | 2 entries with 9 texts between them, dots at either end and in a row, the empty text; entries of another kind, without a cast; namespaces given as texts and as parts |
| `meta` | LLVM holds what was set last, get says whether there is a string, tuples are unshared, no assert and no use of a string that is gone for a client that keeps to `TaggedCall` | functions of 2 arguments and of 1, an instruction, 2 tags, 3 tuples; strings with and without text, and a node of another kind |
| `deferred_erase` | when and how often instructions are erased, for a client that pushes once and for one that pushes again | 3 instructions, 2 vectors, 3 entries: two growths of a vector that has entries, two vectors that hold one instruction |

The type invariants are proved where a module has theorems, and are in no cfg; every
invariant that is checked rests on them.

Deadlock is checked only for `bimap`. The other systems stop: at a bound, after an
assert, or when a walk is done.

Bounds are constants named in the cfg (`MaxValues`, `MaxStack`, `MaxArgs`,
`MaxOpened`, `MaxYields`, `MaxEntries`, `MaxTuples`, `MaxRounds`) and guards of the actions that
would exceed them. Symmetry is used only for
blocks, instructions and vectors that the initial states do not tell apart, and in
runs without liveness.

*Fairness* is assumed in two places, of sequential programs both. `WalkSpec` has WF of
its whole next-state relation: the two coroutines and the client share a thread, and a
program that runs takes its next step; no choice between steps is assumed fair.
`LoopEnds` holds because each coroutine has finitely many entries to go through, and
would not hold of a loop that asks again after its end. `Spec` of `Query` has the same
for the one thread that walks, with the guard of its next step spelled out (`GoesOn`).
`WalksEnd` excludes by name the one walk that does not end (`Endless`); a walk that
moved nowhere would be stopped by `MaxRounds` without being done, and violate it.

### What the violated runs found

* `erase` of two keys that are held, but not with each other, erases both halves
  (bimap.hpp:106-114) and leaves the bimap with dangling halves.
  `PairedSpec` is the client for which the rest holds.
* `load()` after `alloc` without a name throws out of `vars.at`
  (builder.hpp:465-469): the test "chain" (test/src/builder.cpp:29-38) says
  it loads.
* `findBefore` (query.hpp:813-820) compares iterators of two walks. `concatMap` of
  a function that returns containers by value makes new containers in each walk.

Less than a violation, but to be known: `insert` of two keys that are both held with
*other* partners returns false, and does not throw (bimap.hpp:96), which is why
"present" in `OutcomeTold` only says that both keys are held; blocks that
`create_block` failed to register stay in their function, empty; a client that sets
`tag::arguments` on a function itself leaves too few operands for its arguments
(`kept` excludes it); `append` and `average` in query.hpp cannot be instantiated.

What the properties of the passing runs had to be stated around:

* A `deferred_erase_vector` defers the erasing of its first instruction only. The
  growth for the next one copies the entries and destroys the old ones, which erase;
  `GrowthErases` says which entries that befalls. And since the destructor erases what
  is in a block and hands it to `del` afterwards (erase.hpp:30-32), a `del` that deletes
  suits instructions that are in no block, and any other leaves those behind.
* `enumerate` dereferences null at an annotation that fits and has an empty text
  (annotation.tpp:35-42): `CrashesAtEmpty`.
* A namespace made of strings, `annotation( "a.b" )` with a `const char *` or a
  `std::string`, is one part "a.b", and nothing is below it (annotation.hpp:41-44).
* `str` drops empty parts at the beginning of a name (annotation.cpp:29-31).
* A loop over `splitter( s, d, true )` ends only if `s` is empty or ends with `d`, and
  then has got all before that `d` in one part; one forwards drops an empty last part.
* No string that `meta::get`, `argument::get` or `get_string` returns may be read.
  `value` and `get_string` copy the string of the operand into a local `std::string` and
  return a `StringRef` to it (meta.cpp:51-53, 89-92). The test "meta"
  (test/src/meta.cpp:15) only asks whether there is one, and so do `HoldersHold` and
  `ArgumentsHold`: they compare with what was set the string that LLVM holds, and of the
  answer they say whether it is one. `KeptIsSafe` is of a client that does not read.
* The value of an annotation is expected under a cast of its pointer: an `i8` global,
  which needs none, is not enumerated (annotation.tpp:33).

## Proofs

All theorems hold for every value of the constants under the named ASSUMEs of the
modules: sentinels (`None`, `Absent`, ...) are not members of the sets they stand
beside, the names of operations are no functions, bounds are naturals, arities and
signatures are functions of their types. `EntriesAssumption` of `Annotations` is what
clang makes the entries of `llvm.global.annotations` of: a value, under a cast unless
it is a char, and a pointer to the global that holds the text, which is a sequence of
`Characters`. `QuestionsAssumption` says that a namespace is asked for as a text, or as
a sequence of texts.

| module | theorems | inductive invariant, and why it is needed |
|---|---|---|
| `BimapProofs` | `TypeCorrect`, `StaysBijection`, `ReportsAreTrue`, `Refinement` | types and `Mirror`: whether a key is unused can be read off either map only as long as each is the inverse of the other |
| `StackBuilderProofs` | `TypeCorrect`, `CurrentBlockStaysNamed`, `OrphansAreNeverFilled`, `BlockNamesRefine`, `ThrowIsHarmless` | `IInv`: adds that registered blocks and the insertion point exist (so that a block just made is none of them) and that the builder inserts into no block of its own making without a name |
| | `StackRefines`, `KeptIsOnlyRead` | `IInv` again, for the types in it: both are about one step |
| | `StackStaysOrdered`, `OperandsComeNewestFirst` | `OrderInv`: adds that what is on the stack was made (`StackMade`), so that the next result is newer than all of it |
| | `ClientTypeCorrect`, `OperandsStayLocal`, `RetsFit`, of the client in `FunctionByFunction` | `ClientIInv`: adds to `IInv` that the builder inserts into the function opened last once that has a block (`InLast`), that until then stack and loadable variables are empty (`Emptied`), and that neither holds a value of another function (`NothingForeign`). `RetsFit` needs the first: `ret` asks the function opened last, and is inserted elsewhere |
| `QueryProofs` | `RangesAreLawful` | not an invariant, but what those of the queries rest on: every range that map, filter and flatten build keeps the contract of its iterators. `Sound` adds what a range over it has to know besides: that reading again is the same, and what a value means that names a collection returned by value (`Means`) |
| | `FreezeIsDenoted`, `FoldsAreDenoted`, `ExtremaAreExtreme`, `FirstIsFound`, `BeforeIsFound`, `FoundIsReadable` | `QueryIInv`: adds where the iterators of a walk stand (`Placed`, `Kept`, `Leading`), and what each query has made of the elements before them: a copy of them (`Copied`), their count, fold and groups (`Counted`), that none of them is looked for (`Searched`), where the bound of `findBefore` is and that the walk has not passed it (`Bounded`), the best of them (`Extremal`) |
| | `TextsAreSplit` | `SplitIInv`: adds what a loop over a splitter has got and what is left of the text (`Remaining`): the parts, a delimiter and the rest, or all of the text when it does not end with one. In reverse the rest has no delimiter after the first cut, so a loop that ends has got one part at most |
| | `MappedOnce` | `PassIInv`: adds `Thrift`, that the iterator of each `Map` below the walk has been asked, since the walk began, for places up to its own only, in order, and for its own only if it holds the value. What was asked so far says nothing of the next read without where the iterator stands and what it keeps |
| `GeneratorProofs` | `TypeCorrect`, `OwnedOnce`, `DeliveredOnce`, `LoopIsSafe`, `WatchedIsSafe` | `IInv` adds that a coroutine which stores an exception has ended; `LoopInv` adds `Started`: an iterator's coroutine was begun, and one that was not begun has not run |
| `AnnotationsProofs` | `NestedLoopsKeepContract`, `ElementStaysAlive`, `SeenInOrder`, `EmptyTextCrashes`, `NestedFramesFreed`, `ExceptionReachesClient` | `NestedIInv`: adds which generator holds which frame and on what its iterator stands (`Loops`), where each coroutine is suspended while the other body or the client runs (`Suspended`), and that the client is behind by one element at most (`Behind`). Without `Suspended` a body could be resumed that has ended |
| | `SelectedAreSeen`, `ElementIsItsText`, `NamesAreTexts` | `WalkIInv`: adds how far the text at hand is parsed, that the parts are the slices between its dots so far (`Parsing`, `CutUpTo`), and that all that is selected before the entry at hand is seen, that entry too when `enumerate` goes on (`Complete`). The body compares parts and `Selected` speaks of texts: only what the parts are slices of connects the two. `NamesAreTexts` adds nothing to it: joining and printing the slices is what `JoinedIsText` and `StrIsText` are about |
| `DeferredEraseProofs` | `TypeCorrect`, `KeptStaysSafe`, `KeptIsDeferred` | `IInv`: for a client that keeps to one push per vector, a vector has one entry at most and no room, no two hold one instruction, nothing holds what a destructor is about to erase, and what is waited for is as its deleter needs it. Without the last three a destructor could meet a freed instruction |
| | `GrowthErasesHalf` | `GrowthInv`: for a client that pushes each instruction once, no instruction has two entries, a vector with room is more than half full, and the entries of the older half are erased or about to be. That the vector is more than half full is what makes the half that a growth copies all of what it held |
| `MetaProofs` | `TypeCorrect`, `TuplesStayUnshared`, `HoldersHoldLast`, `ArgumentsHoldLast`, `KeptStaysSafe` | `IInv`: no tuple under two keys, the tuple of each holder is what was written, and, for a client that kept to `TaggedCall`, the tuple of the arguments has one operand each, a string |

Every invariant was model-checked before it was proved. The step lemmas go action by
action; temporal theorems combine them by the usual rule. The proof of `TypeCorrect`
for the bimap is of `Spec`, unpaired erases included; the others of `BimapProofs` are
of `PairedSpec`. The theorems of `DeferredEraseProofs` are of any client: that it has
kept to its part is a hypothesis on its history, not a second specification.

The theorems of `QueryProofs` are of every range that map, filter and flatten build over
a container, however they nest, for any containers and functions. Two things say so.
`Unfolded`, their hypothesis, says that the constant operators are those that `Ranges`
defines. It takes no more than the code does: the equations are those of recursive
functions, which go down a layer, or on by an element in a bump, and where a bump would
never end (from an iterator past the end, which no walk has) any answer satisfies them.
The instances of TLC satisfy it by definition. `PartsAssumption` says what ranges there
are and what they denote: that of a map is mapped, that of a filter or a flatten comes
from the places of the range below in order, a range is over one that nests less,
functions are of leaves, and only collections are flattened. TLC evaluates it for the
ranges of the run `query`, where what a range denotes is computed by folds.

From these `RangesAreLawful` shows `Lawful`, the contract: where an iterator stands it
reads what the range denotes there, again and again, it equals the end past the last
element and nowhere else, a step leads to the next place, values made elsewhere do not
disturb it, and two iterators of a range that owns no collections are equal where they
stand at the same place. The queries are proved from `Lawful` alone, and so would hold
over any other range that keeps the contract. The argument for it goes up by layers:
`RangeSound`, `MapSound`, `FilterSound` and `FlattenSound` show that a range is `Sound` if
the one below is, and `AllSound` takes an unsound range of least `Height` to a
contradiction. Within a filter or a flatten, `BumpsAll` does the same for a bump: the one
with the fewest elements left below that would not find the next place. Splitters,
which only loops walk, are outside of it: they read the same text as part or as rest.
`TextsAreSplit` is about those: its hypothesis is `Unfolds`, what `Unfolded` says of one
range, of the splitters that are queried; `PipelinesAssumption` says that they split texts.

`MappedOncePerPass` attributes what was made to the `Map` that asked for it, and gives to
each such call a place of the range below it, later ones to later calls. So it says
something of ranges with repeated elements too, and of maps with the same function. Its
proof, `MappedOnce`, goes up by layers like that of the contract. A range is `Economical`
if no operator of its iterators makes a walk that is thrifty less so, also where the
iterator that is read is a copy and the one that is incremented has kept nothing. That
every range is (`AllEconomical`) is shown by the one of least `Height` that would not be,
with `MapEconomicalHere` for the `Map` that is asked and one lemma for each layer above,
and for a bump by the elements left below (`ThrivesAll`). Where the `Map` is not below,
`Thrift` says that it is asked nothing.

Lemmas that carry more than one proof:

* `BimapLemmas` states what `Inserted`, `Erased` and `Dropped` do, for the bimap and for
  the table of blocks.
* `ValueNextEffect` of `StackBuilderProofs`: an action on values puts nothing on the
  stack, or one value, which is a constant, a variable, or made by the one instruction
  that it emits, and that instruction refers to constants and to what was on the stack.
  The refinement of `OperandStack` (`ValueNextDisciplined`) and the locality of operands
  (`WorkKeeps`) are both read off it.
* `SoundReads` and `SoundSteps` of `QueryProofs`: what a layer may rely on of the one
  below. `CountsFirst`, `CountsAt`, `CountsOver`, `CountsNext` and `CountsAll`: which
  element of a filter or a flatten is the first that comes from a given place of the
  range below or from a later one, so that what a bump finds is the next.
* `ReadsThere`, `StepsOn` and `OpensThere` of `QueryProofs` are the contract, for one
  iterator; `ReadsHere` and `AdvancePlaced` what a round of any walk does; `TakenMore`
  that a group stays what was taken of the elements, in order, when one is added.
* `TakenGrows` and `OperandFound`: where on the stack each operand of an action lies,
  whatever it was given; the n-th that is popped lies below the one before.
* `CallLoops`, `DestroyLoops`, `ReadLoops`, `BackLoops` of `AnnotationsProofs`: what a
  step of `Generator` does to the coroutine of a loop, and that `LoopNext` allows it.
  `NestedLoopsKeepContract` is then a refinement step by step, with the variables of
  the two loops as those of `Generator`.
* `EntryShape`: the chain of transformers finds null exactly where the entry does not
  fit, or has no text. `MinLeast` is from the well-foundedness of `<` on `Nat`, and
  stands in for induction: the first place where two things differ is refuted.
* `CutGrows`, `CutsAgree`, `PrefixOfParts`, `PrefixOfText`: what the parser appends are
  the slices of the text up to the next dot; a text has its dots in one set of places,
  however many of its parts are looked at; so, a sequence of parts begins that of a
  text exactly if it is cut from the text up to some dot, and, if it is what another
  text is cut into, exactly if that text and a dot begin the text. `in_namespace`
  then decides what `Below` says.
* `ConcatenationExists`, `FlattenSeqIs` and `PrintingExists`, `StrIs`: what the folds over
  parts give. A fold of the community modules is a value that is chosen among the
  functions that satisfy the equation of the recursion; that there is one for any number
  of parts is shown by the least number for which there would be none. `SlicesMeet`:
  two slices of a text that meet, and what lies between them, are one slice; with it the
  joined parts are the text up to one cut after the other. `JoinedMore` and `CutWhole`
  of `QueryProofs` do the same for a splitter.
* `ThriftHere` and `ThriftBelow`: what `Thrift` says of the `Map` itself, and that a layer
  above has the thrift of what it iterates. `NoneUpward`: a bounded set of numbers that
  has with each the next is empty; what a bump would miss, last element first.

Only model-checked:

* `LoopEnds` and `WalksEnd`, liveness under fairness, which is out of the prover's reach.

## Not modelled

* `append` and `average` of query.hpp, which do not compile when used: one asks for a
  macro that nothing defines, the other passes a braced list to a template parameter.
  All of ranges.hpp, which names what nothing declares in `sc::views`, when it is
  enabled.
* What LLVM prints (`llvm_to_string`), and the joining of it.
* That the allocation of a coroutine frame may fail.
* `transformer::operand` of a type without operands, which answers null
  (transformer.hpp:54-56): it is chosen at compile time, and `enumerate` asks no such type.
* Types and constants: one call of an LLVM factory each. They have no state, and what a
  property could say of them is what the one line says: `_i64` goes through
  `uint32_t` and loses the upper half of its number (constant.hpp:57); `bytes` of a size
  beyond 2^32 bits is that of the size modulo 2^32 (types.cpp:48-56).
* The lifetime of an `LLVMContext` behind the global pointer, and of temporary
  `Query` objects in a chained expression, but for what `find` answers
  (`FoundReadable`).
* `llvmcase` but for its order of trial, which is part of `Meta`; ir, config, concepts,
  warnings (no behaviour).

## Plan

The order so far: containers (`Bimap`), the builder on top of them with its client,
queries, generators, the annotations on top of generators, metadata; then the erasing
that is deferred, names and transformers in `Annotations`, texts and the rest of the
queries; then the proofs, of every invariant and action property that the passing runs check.
What is left to TLC alone is named under "Only model-checked".
