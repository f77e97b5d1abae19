------------------------------- MODULE Ranges -------------------------------
(***************************************************************************)
(* The lazy ranges of sc::query (include/sc/query.hpp), built by map,      *)
(* filter and flatten over a container; beside them the splitter of        *)
(* sc::fmt, whose only walk is a loop.                                     *)
(*                                                                         *)
(* A range and its iterators are records that nest as the templates do.    *)
(* A leaf is a positive number.  A collection is a number too, its         *)
(* identity: negative for one the client keeps, Store[-c], and positive    *)
(* for one that a mapped function returned by value, a copy of the one     *)
(* that mk[c].val names.  Iterators into different collections are never   *)
(* equal, whatever they hold.                                              *)
(*                                                                         *)
(* Functions that run a mapped function thread the values made so far, mk: *)
(* they return an iterator, or a value, and those.                         *)
(*                                                                         *)
(* An operator defined here is one layer deep, as a member of a template   *)
(* is: what it calls of the range below, or of itself once more, is a      *)
(* constant operator, which instances set to the one that is defined here  *)
(* (Unfolded).                                                             *)
(***************************************************************************)
EXTENDS Integers, Sequences, FiniteSets, SequencesExt, Format

CONSTANTS
  Store,                 \* the client's collections: sequences of leaves or of collections
  Leaves,                \* the leaves
  BeginOf(_, _),         \* Begin, of any range,
  EndOf(_),              \* End,
  Equal(_, _, _),        \* Same: operator==,
  Dereferenced(_, _, _), \* Deref: operator*,
  Incremented(_, _, _),  \* Step: operator++,
  BumpedOf(_, _, _),     \* Bumped: the loop of _bump,
  Denotes(_),            \* the sequence of elements that a range stands for,
  Owns(_),               \* has it collections that mapped functions returned?
  Stands(_, _, _, _),    \* and StandsAt, where an iterator of it is
  Parts,                 \* the ranges that are queried, and those they are over
  Height(_)              \* how deep one nests

RangeOf(seq)      == [kind |-> "range", elems |-> seq]
MapOf(r, fn, to)  == [kind |-> "map", of |-> r, fn |-> fn, to |-> to]
FilterOf(r, pred) == [kind |-> "filter", of |-> r, pred |-> pred]
FlattenOf(r)      == [kind |-> "flatten", of |-> r]
SplitterOf(text, d, reverse) ==
  [kind |-> "split", text |-> text, by |-> d, reverse |-> reverse]

\* The instructions of a block, a function or a module; basicblocks( fn ) is
\* what instructions( fn ) flattens, which has no blocks any more.
Pointers(r)      == MapOf(r, [x \in Leaves |-> x], "leaf")
BasicBlocks(fn)  == FlattenOf(fn)
Instructions(r, depth) ==
  Pointers(CASE depth = "block" -> r [] depth = "function" -> BasicBlocks(r)
             [] depth = "module" -> FlattenOf(FlattenOf(r)))

\* Those that dyn_cast to a class: the others become null, 0.
FilterLlvm(r, depth, class) ==
  FilterOf(MapOf(Instructions(r, depth), [x \in Leaves |-> IF x \in class THEN x ELSE 0],
                 "leaf"), Leaves)

Unset == <<0, 0>>   \* a default constructed iterator into a collection

Elems(c, mk) == IF c > 0 THEN Store[-mk[c].val] ELSE Store[-c]

\* end(): an iterator past the last element, that has evaluated nothing.
End(r) ==
  CASE r.kind = "range"   -> Len(r.elems) + 1
    [] r.kind = "split"   -> <<>>
    [] r.kind = "map"     -> [it |-> EndOf(r.of), current |-> 0]
    [] r.kind = "filter"  -> [it |-> EndOf(r.of)]
    [] r.kind = "flatten" -> [it |-> EndOf(r.of), sub |-> Unset]

AtEnd(r, i) == Equal(r, i, EndOf(r))

\* operator==: of what it has evaluated a Map iterator compares nothing.
Same(r, i, j) ==
  CASE r.kind \in {"range", "split"} -> i = j
    [] r.kind \in {"map", "filter"} -> Equal(r.of, i.it, j.it)
    [] r.kind = "flatten" ->
         \/ AtEnd(r.of, i.it) /\ AtEnd(r.of, j.it)
         \/ Equal(r.of, i.it, j.it) /\ i.sub = j.sub

\* What a Map gets of its function for arg.
Call(r, arg) == [map |-> r, arg |-> arg, val |-> r.fn[arg]]

\* Map::Iterator::evaluate, given its inner iterator dereferenced: the value
\* is made once and kept, and shared with the copies of the iterator.
Evaluated(r, i, inner) ==
  IF i.current # 0 THEN [it |-> i, made |-> inner.made]
  ELSE LET mk == Append(inner.made, Call(r, inner.val))
       IN  [it |-> [it |-> inner.it, current |-> Len(mk)], made |-> mk]

\* Does a map return collections by value?
Copies(r) == r.kind = "map" /\ r.to = "owned"

\* operator*: the iterator after it, the value, and the values made.
Deref(r, i, mk) ==
  CASE r.kind = "range" -> [it |-> i, val |-> r.elems[i], made |-> mk]
    [] r.kind = "split" ->
         [it |-> i, val |-> Split(i, r.by, r.reverse)[1], made |-> mk]
    [] r.kind = "map" ->
         LET inner == IF i.current # 0 THEN [it |-> i.it, val |-> 0, made |-> mk]
                      ELSE Dereferenced(r.of, i.it, mk)
             e     == Evaluated(r, i, inner)
             c     == e.it.current
         IN  [it |-> e.it, made |-> e.made, val |-> IF Copies(r) THEN c ELSE e.made[c].val]
    [] r.kind = "filter" ->
         LET inner == Dereferenced(r.of, i.it, mk)
         IN  [it |-> [it |-> inner.it], val |-> inner.val, made |-> inner.made]
    [] r.kind = "flatten" ->
         [it |-> i, val |-> Elems(i.sub[1], mk)[i.sub[2]], made |-> mk]

\* Flatten: _sub = _it->begin(), unless _it is at the end.
Entered(r, i, mk) ==
  IF AtEnd(r.of, i.it) THEN [it |-> i, made |-> mk]
  ELSE LET d == Dereferenced(r.of, i.it, mk)
       IN  [it |-> [it |-> d.it, sub |-> <<d.val, 1>>], made |-> d.made]

\* Flatten: is there nothing left in the collection of _it?  d is *_it.
Exhausted(i, d) == i.sub = <<d.val, Len(Elems(d.val, d.made)) + 1>>

\* Mutant of Passed: the value that the predicate was asked about is made
\* again when the element is read.
PassedForgotten(i, d) == i

\* Filter: the iterator once the predicate has looked at its element d.
Passed(i, d) == [it |-> d.it]

\* Mutant of Beyond: an exhausted collection ends the walk.
BeyondEnds(r, s) == [it |-> End(r), made |-> s.made]

\* Flatten: the next collection is entered, and the loop goes on.
Beyond(r, s) == LET e == Entered(r, s.it, s.made) IN BumpedOf(r, e.it, e.made)

\* The loop of _bump of Filter and Flatten, which goes on to the first iterator
\* that has an element: one round of it.
Bumped(r, i, mk) ==
  IF AtEnd(r.of, i.it) THEN [it |-> i, made |-> mk]
  ELSE LET d == Dereferenced(r.of, i.it, mk)
           s == Incremented(r.of, d.it, d.made)
       IN  IF r.kind = "filter"
           THEN IF d.val \in r.pred
                THEN [it |-> Passed(i, d), made |-> d.made]
                ELSE BumpedOf(r, [it |-> s.it], s.made)
           ELSE IF Exhausted(i, d)
                THEN Beyond(r, [it |-> [it |-> s.it, sub |-> i.sub], made |-> s.made])
                ELSE [it |-> [it |-> d.it, sub |-> i.sub], made |-> d.made]

\* operator++.
Step(r, i, mk) ==
  CASE r.kind = "range" -> [it |-> i + 1, made |-> mk]
    [] r.kind = "split" -> [it |-> Split(i, r.by, r.reverse)[2], made |-> mk]
    [] r.kind = "map" ->
         LET s == Incremented(r.of, i.it, mk)
         IN  [it |-> [it |-> s.it, current |-> 0], made |-> s.made]
    [] r.kind = "filter" ->
         LET s == Incremented(r.of, i.it, mk) IN BumpedOf(r, [it |-> s.it], s.made)
    [] r.kind = "flatten" ->
         BumpedOf(r, [i EXCEPT !.sub = <<@[1], @[2] + 1>>], mk)

\* begin(): a Filter or Flatten iterator is bumped where it is constructed.
Begin(r, mk) ==
  CASE r.kind = "range" -> [it |-> 1, made |-> mk]
    [] r.kind = "split" -> [it |-> r.text, made |-> mk]
    [] r.kind = "map" ->
         LET b == BeginOf(r.of, mk) IN [it |-> [it |-> b.it, current |-> 0], made |-> b.made]
    [] r.kind = "filter" ->
         LET b == BeginOf(r.of, mk) IN BumpedOf(r, [it |-> b.it], b.made)
    [] r.kind = "flatten" ->
         LET b == BeginOf(r.of, mk)
             e == Entered(r, [it |-> b.it, sub |-> Unset], b.made)
         IN  BumpedOf(r, e.it, e.made)
-----------------------------------------------------------------------------
(* What the ranges denote, and where their iterators are. *)

Maps == {r \in Parts : r.kind = "map"}

\* What mapped functions can have returned.
Results == [map : Maps, arg : Int, val : Int]
Made    == Seq(Results)

\* What a filter or flatten makes of the m-th element of the range below; and
\* the places of its elements, each the k-th that it makes of the m-th.
Held(r, m) ==
  LET x == Denotes(r.of)[m]
  IN  IF r.kind = "flatten" THEN Store[-x] ELSE IF x \in r.pred THEN <<x>> ELSE <<>>

Origins(r) == UNION {{m} \X DOMAIN Held(r, m) : m \in DOMAIN Denotes(r.of)}

Before(p, q) == p[1] < q[1] \/ (p[1] = q[1] /\ p[2] < q[2])

\* The elements of r come from these places, in order, and from all of them.
ComeFrom(r, at) ==
  /\ \A i, j \in DOMAIN at : i < j => Before(at[i], at[j])
  /\ \A p \in Origins(r) : \E i \in DOMAIN at : at[i] = p
  /\ \A i \in DOMAIN at : Denotes(r)[i] = Held(r, at[i][1])[at[i][2]]

Origin(r) == CHOOSE at \in [DOMAIN Denotes(r) -> Origins(r)] : ComeFrom(r, at)

IsDenoted(r) ==
  /\ Denotes(r) \in Seq(Int)
  /\ CASE r.kind = "range" -> Denotes(r) = r.elems
       [] r.kind = "map"   -> Denotes(r) = [m \in DOMAIN Denotes(r.of) |-> r.fn[Denotes(r.of)[m]]]
       [] r.kind \in {"filter", "flatten"} ->
            \E at \in [DOMAIN Denotes(r) -> Origins(r)] : ComeFrom(r, at)

\* What a range may be over: functions are of leaves, collections are flattened,
\* and collections returned by value are only there to be flattened.
IsOver(r) ==
  LET below == ToSet(Denotes(r.of)) IN
  /\ r.of \in Parts /\ Height(r) \in Nat /\ Height(r.of) \in Nat /\ Height(r.of) < Height(r)
  /\ r.kind = "map" => r.fn \in [Leaves -> Int] /\ below \subseteq Leaves
  /\ r.kind \in {"map", "filter"} => ~Copies(r.of)
  /\ r.kind = "flatten" => \A c \in below : c < 0 /\ -c \in DOMAIN Store

ASSUME PartsAssumption ==
  /\ Store \in Seq(Seq(Int))
  /\ \A r \in Parts :
       /\ r.kind \in {"range", "map", "filter", "flatten"}
       /\ IsDenoted(r)
       /\ r.kind # "range" => IsOver(r)
       /\ Owns(r) <=> r.kind # "range" /\ (Copies(r) \/ Owns(r.of))

\* The iterator i is at the n-th element of what r denotes, or past the last.
\* One of Map may have kept the value; that of Flatten has entered the
\* collection that its inner iterator read.
StandsAt(r, i, mk, n) ==
  IF r.kind = "range" THEN i = n /\ n \in 1..Len(r.elems) + 1 /\ mk \in Made
  ELSE \E m \in 1..Len(Denotes(r.of)) + 1 :
         /\ Stands(r.of, i.it, mk, m)
         /\ IF r.kind = "map"
            THEN /\ n = m
                 /\ i.current # 0 =>
                      /\ m \in DOMAIN Denotes(r.of) /\ i.current \in DOMAIN mk
                      /\ mk[i.current] = Call(r, Denotes(r.of)[m])
            ELSE IF m \notin DOMAIN Denotes(r.of)
            THEN n = Len(Denotes(r)) + 1
            ELSE /\ n \in DOMAIN Denotes(r) /\ Origin(r)[n][1] = m
                 /\ r.kind = "flatten" =>
                      LET d == Dereferenced(r.of, i.it, mk)
                      IN  i = [it |-> d.it, sub |-> <<d.val, Origin(r)[n][2]>>] /\ d.made = mk

\* The constant operators are the ones defined here: they satisfy these equations
\* as recursive operators do, layer by layer, and a bump element by element.
Unfolds(r) ==
  /\ EndOf(r) = End(r)
  /\ \A mk : BeginOf(r, mk) = Begin(r, mk)
  /\ \A i, j : Equal(r, i, j) = Same(r, i, j)
  /\ \A i, mk : /\ Dereferenced(r, i, mk) = Deref(r, i, mk)
                /\ Incremented(r, i, mk) = Step(r, i, mk)
                /\ r.kind \in {"filter", "flatten"} => BumpedOf(r, i, mk) = Bumped(r, i, mk)
  /\ r.kind # "split" => \A i, mk, n : Stands(r, i, mk, n) = StandsAt(r, i, mk, n)

Unfolded == \A r \in Parts : Unfolds(r)
=============================================================================
