------------------------------ MODULE MCQuery ------------------------------
(***************************************************************************)
(* Instances of Query.  The containers are the sequences without           *)
(* repetition of three collections, of which one is empty, and of up to    *)
(* three leaves; the texts all those of up to four characters.             *)
(***************************************************************************)
EXTENDS Query

\* -1 to -3 hold leaves; -4 and -5 hold collections.
MCStore == << <<>>, <<1>>, <<2, 3>>, <<-3, -1, -2>>, <<-1>> >>

MCLeaves == 1..3

Containers(set) == {s \in UNION {[1..n -> set] : n \in 0..3} : IsInjective(s)}

Flat   == {RangeOf(s) : s \in Containers(Leaves)}
Nested == {RangeOf(s) : s \in Containers({-1, -2, -3})}
Deep   == {RangeOf(s) : s \in Containers({-4, -5})}

Other == [x \in Leaves |-> (x % 3) + 1]
Below == [x \in Leaves |-> -x]

\* map, filter, both orders of them, flatten, instructions and filter_llvm,
\* and concatMap of a function that returns views.
MCPipelines ==
       {MapOf(r, Other, "leaf") : r \in Flat}
  \cup {FilterOf(MapOf(r, Other, "leaf"), {1, 3}) : r \in Flat}
  \cup {MapOf(FilterOf(r, {2, 3}), Other, "leaf") : r \in Flat}
  \cup {BasicBlocks(r) : r \in Nested}
  \cup {Instructions(r, "module") : r \in Deep}
  \cup {FilterLlvm(r, "function", {1, 2}) : r \in Nested}
  \cup {FlattenOf(MapOf(r, Below, "view")) : r \in Flat}

\* concatMap of a function that returns containers by value.
OwningPipelines == {FlattenOf(MapOf(r, Below, "owned")) : r \in Flat}

\* The operators of Ranges, each for all ranges.
MCBegin(r, mk)        == LET at[s \in {r}] == Begin(s, mk) IN at[r]
MCEnd(r)              == LET at[s \in {r}] == End(s) IN at[r]
MCSame(r, i, j)       == LET at[s \in {r}] == Same(s, i, j) IN at[r]
MCDeref(r, i, mk)     == LET at[s \in {r}] == Deref(s, i, mk) IN at[r]
MCStep(r, i, mk)      == LET at[s \in {r}] == Step(s, i, mk) IN at[r]
MCBumped(r, i, mk)    == LET at[s \in {r}] == Bumped(s, i, mk) IN at[r]
MCStands(r, i, mk, n) == LET at[s \in {r}] == StandsAt(s, i, mk, n) IN at[r]

RECURSIVE Denoted(_), Owning(_), Depth(_), Within(_)

Denoted(r) ==
  CASE r.kind = "range"   -> r.elems
    [] r.kind = "map"     -> [i \in DOMAIN Denoted(r.of) |-> r.fn[Denoted(r.of)[i]]]
    [] r.kind = "filter"  -> SelectSeq(Denoted(r.of), LAMBDA x : x \in r.pred)
    [] r.kind = "flatten" ->
         FlattenSeq([i \in DOMAIN Denoted(r.of) |-> Store[-Denoted(r.of)[i]]])

Owning(r) == r.kind \notin {"range", "split"} /\ (Copies(r) \/ Owning(r.of))

Depth(r) == IF r.kind = "range" THEN 0 ELSE 1 + Depth(r.of)

Within(r) == {r} \cup (IF r.kind = "range" THEN {} ELSE Within(r.of))

MCDenotes(r) == Denoted(r)
MCOwns(r)    == Owning(r)
MCHeight(r)  == Depth(r)

\* "." is what a text is split by.
Texts == UNION {[1..n -> Characters] : n \in 0..4}

Splitters == {SplitterOf(t, ".", back) : t \in Texts, back \in BOOLEAN}

AllPipelines == MCPipelines \cup OwningPipelines \cup Splitters

MCParts == UNION {Within(r) : r \in MCPipelines \cup OwningPipelines}

Sets == {{}, {1}, {2, 3}, {3}}

Ask(ops) == {[op |-> op, what |-> w, before |-> b] : op \in ops, w \in Sets, b \in Sets}

BeforeQueries == Ask({"findBefore"})

Plain == {"freeze", "freezeAs", "unstableUnique", "each", "size", "fold", "groupBy",
          "singleton", "name"} \cup Extrema

AllQueries ==
  BeforeQueries \cup
  {q \in Ask({"find"} \cup Quantifiers \cup Plain) :
     q.before = {} /\ (q.op \in Plain => q.what = {})}
=============================================================================
