------------------------------- MODULE Query -------------------------------
(***************************************************************************)
(* The queries of sc::query (include/sc/query.hpp), which walk a range;    *)
(* beside them a loop over the splitter of sc::fmt.                        *)
(*                                                                         *)
(* Queries are templates over the type of the range: all that they know of *)
(* it is how its iterators are made, compared, read and incremented.       *)
(***************************************************************************)
EXTENDS Ranges

CONSTANTS
  Pipelines,             \* the ranges that are queried
  Queries,               \* the queries: [op |-> ..., what |-> a set, before |-> a set]
  MaxRounds              \* bound: rounds of a walk; only a splitter in reverse has as many

ASSUME PipelinesAssumption ==
  \A r \in Pipelines :
    IF r.kind = "split"
    THEN r.text \in Seq(Characters) /\ r.by \in Characters /\ r.reverse \in BOOLEAN
    ELSE r \in Parts /\ ~Copies(r)

VARIABLES
  range,   \* the range of the Query
  query,   \* the query that is asked
  phase,   \* "start", "walk", "again" (the second walk of findBefore, freezeAs
           \* and unstableUnique), "done", "crashed"
  it,      \* the iterator that walks
  stop,    \* the iterator it walks to
  pos,     \* the number of steps it has made
  out,     \* what was copied, or answered
  acc,     \* what a fold has made so far
  saved,   \* an iterator kept for later: where freezeAs began, the best of min
  found,   \* the answer of find, findBefore and singleton, whose iterator is it,
           \* and of all, any and none
  made,    \* the values mapped functions returned, in order: [map, arg, val]
  pass     \* how many of them there were when this walk began

vars == <<range, query, phase, it, stop, pos, out, acc, saved, found, made, pass>>
-----------------------------------------------------------------------------
(* Queries.  A walk compares its iterator to stop before it reads it; one  *)
(* that has missed stop reads past the end.                                *)

\* The iterators of a splitter are for loops and llvm_name, those of ranges
\* for all other queries.
Asks(q, r) == IF r.kind = "split" THEN q.op = "each" \/ (q.op = "name" /\ ~r.reverse)
              ELSE q.op # "name"

Init ==
  /\ range \in Pipelines
  /\ query \in {q \in Queries : Asks(q, range)}
  /\ phase = "start"
  /\ it = EndOf(range) /\ stop = EndOf(range)
  /\ pos = 0
  /\ out = <<>> /\ saved = EndOf(range)
  /\ acc = IF query.op = "fold" THEN <<>> ELSE 0
  /\ found = FALSE
  /\ made = <<>> /\ pass = 0

\* A walk from i to e, before which the values in old had been made.
Walk(i, mk, old, e, next) ==
  /\ phase' = next
  /\ it' = i /\ made' = mk
  /\ stop' = e
  /\ pos' = 0
  /\ pass' = Len(old)
  /\ UNCHANGED <<range, query, out, acc, found>>

\* All but singleton walk to the end; so does the find of findBefore that
\* looks for the bound.
Start ==
  /\ phase = "start" /\ query.op \notin {"singleton", "name"}
  /\ \E b \in {BeginOf(range, made)} :
       /\ Walk(b.it, b.made, made, EndOf(range), "walk")
       /\ saved' = b.it

Walking == phase \in {"walk", "again"}

Reading(ops) ==
  /\ Walking /\ query.op \in ops
  /\ ~Equal(range, it, stop) /\ ~AtEnd(range, it)
  /\ pos < MaxRounds

Crash ==
  /\ Walking
  /\ ~Equal(range, it, stop) /\ AtEnd(range, it)
  /\ phase' = "crashed"
  /\ UNCHANGED <<range, query, it, stop, pos, out, acc, saved, found, made, pass>>

\* The element at it, which is not at the end.  A round that reads it does so
\* once, and binds it: h \in {Here}.
Here == Dereferenced(range, it, made)

\* ++ of the iterator i, with the values made so far.
AdvanceFrom(i, mk) ==
  /\ \E s \in {Incremented(range, i, mk)} : it' = s.it /\ made' = s.made
  /\ pos' = pos + 1
  /\ UNCHANGED <<range, query, phase, stop, found, pass>>

Extrema == {"min", "max", "minOr", "maxOr"}

\* What freezeAs and unstableUnique leave to their target: it measures the
\* range before it copies it.
Measured == {"freezeAs", "unstableUnique"}

\* One round of the loop of std::copy in freeze, of a loop over the range, or
\* of the copying into what was measured.
Copy ==
  /\ Reading({"freeze", "each"} \cup Measured)
  /\ query.op \in Measured => phase = "again"
  /\ \E h \in {Here} :
       /\ out' = IF query.op = "unstableUnique" /\ h.val \in ToSet(out) THEN out
                 ELSE Append(out, h.val)
       /\ AdvanceFrom(h.it, h.made)
  /\ UNCHANGED <<acc, saved>>

\* One round of std::distance, which reads nothing.
Count ==
  /\ Reading({"size"} \cup Measured)
  /\ phase = "walk"
  /\ acc' = acc + 1
  /\ AdvanceFrom(it, made)
  /\ UNCHANGED <<out, saved>>

\* An operation for fold that tells all sequences of leaves apart.
Combined(x, leaf) == Append(x, leaf)

Fold ==
  /\ Reading({"fold"})
  /\ \E h \in {Here} : acc' = Combined(acc, h.val) /\ AdvanceFrom(h.it, h.made)
  /\ UNCHANGED <<out, saved>>

\* The key that groups are made by.
Key(leaf) == leaf % 2

\* Mutant of Grouped: a group that there is already is replaced.
GroupedAnew(groups, k, leaf) == [x \in DOMAIN groups \cup {k} |->
                                   IF x = k THEN <<leaf>> ELSE groups[x]]

\* map[ k ].push_back( leaf ).
Grouped(groups, k, leaf) ==
  [x \in DOMAIN groups \cup {k} |->
     LET group == IF x \in DOMAIN groups THEN groups[x] ELSE <<>>
     IN  IF x = k THEN Append(group, leaf) ELSE group]

Group ==
  /\ Reading({"groupBy"})
  /\ \E h \in {Here} :
       out' = Grouped(out, Key(h.val), h.val) /\ AdvanceFrom(h.it, h.made)
  /\ UNCHANGED <<acc, saved>>

\* What the find that is running looks for; all looks for a counterexample.
Sought(x) ==
  CASE query.op = "findBefore" /\ phase = "walk" -> x \in query.before
    [] query.op = "all" -> x \notin query.what
    [] OTHER -> x \in query.what

Quantifiers == {"all", "any", "none"}

Seeking == {"find", "findBefore"} \cup Quantifiers

\* One round of the loop of find that does not find.  The algorithms behind
\* the quantifiers ask their predicate about a copy of the iterator.
Miss ==
  /\ Reading(Seeking)
  /\ \E h \in {Here} :
       /\ ~Sought(h.val)
       /\ AdvanceFrom(IF query.op \in Quantifiers THEN it ELSE h.it, h.made)
  /\ UNCHANGED <<out, acc, saved>>

\* Mutant of Answer: find answers its own end, and so found.
AnswerAnyway(hit, i, mk) ==
  /\ phase' = "done"
  /\ found' = TRUE
  /\ it' = i /\ made' = mk
  /\ UNCHANGED <<range, query, stop, pos, out, acc, saved, pass>>

\* find answers; a find that found nothing answers the end of the range.
Answer(hit, i, mk) ==
  /\ phase' = "done"
  /\ found' = IF query.op \in {"all", "none"} THEN ~hit ELSE hit
  /\ it' = IF hit THEN i ELSE EndOf(range)
  /\ made' = mk
  /\ UNCHANGED <<range, query, stop, pos, out, acc, saved, pass>>

\* Mutant of Bound: findBefore walks to the end.
BoundIsEnd(hit, i) == EndOf(range)

\* The iterator that findBefore walks to: the one its first find answers.
Bound(hit, i) == IF hit THEN i ELSE EndOf(range)

\* The walk that is running ends at i: findBefore walks to there from another
\* begin(), a target copies from where it measured.
Ends(hit, i, mk) ==
  IF query.op = "findBefore" /\ phase = "walk"
  THEN /\ \E b \in {BeginOf(range, mk)} : Walk(b.it, b.made, mk, Bound(hit, i), "again")
       /\ UNCHANGED saved
  ELSE IF query.op \in Measured /\ phase = "walk"
  THEN Walk(saved, mk, mk, stop, "again") /\ UNCHANGED saved
  ELSE Answer(hit, i, mk)

\* Mutant of Hit: find asks its predicate about a copy, too.
HitCopied ==
  /\ Reading(Seeking)
  /\ \E h \in {Here} : Sought(h.val) /\ Ends(TRUE, it, h.made)

Hit ==
  /\ Reading(Seeking)
  /\ \E h \in {Here} :
       /\ Sought(h.val)
       /\ Ends(TRUE, IF query.op \in Quantifiers THEN it ELSE h.it, h.made)

Finish ==
  /\ Walking /\ query.op \notin Extrema
  /\ Equal(range, it, stop)
  /\ Ends(FALSE, it, made)

\* Does a range that begins at b hold one element?
IsOne(r, b) == ~AtEnd(r, b.it) /\ AtEnd(r, Incremented(r, b.it, b.made).it)

\* singleton: each begin() it calls runs the mapped functions anew.
Singleton ==
  /\ phase = "start" /\ query.op = "singleton"
  /\ \E empty \in {BeginOf(range, made)} :
       \E next \in {BeginOf(range, empty.made)} :
         \E again \in {IF AtEnd(range, empty.it) THEN empty.made
                       ELSE Incremented(range, next.it, next.made).made} :
           \E b \in {BeginOf(range, again)} :
             LET one == IsOne(range, empty)
             IN  Answer(one, b.it, IF one THEN b.made ELSE again)

\* The first round of min_element and max_element: the first is the best yet.
Seize ==
  /\ Reading(Extrema) /\ pos = 0
  /\ saved' = it
  /\ AdvanceFrom(it, made)
  /\ UNCHANGED <<out, acc>>

\* Mutant of Beats: maxOr was copied from minOr.
BeatsBelow(x, y) == x < y

\* Is x better than y, the best so far?
Beats(x, y) == IF query.op \in {"min", "minOr"} THEN x < y ELSE y < x

\* A later round compares copies of two iterators: what these evaluate is lost.
Compete ==
  /\ Reading(Extrema) /\ pos > 0
  /\ \E h \in {Here} : \E best \in {Dereferenced(range, saved, h.made)} :
       /\ saved' = IF Beats(h.val, best.val) THEN it ELSE saved
       /\ AdvanceFrom(it, best.made)
  /\ UNCHANGED <<out, acc>>

\* min and max read the iterator they get, minOr and maxOr compare it before.
Extremum ==
  LET best == Dereferenced(range, saved, made) IN
  /\ Walking /\ query.op \in Extrema
  /\ Equal(range, it, stop)
  /\ IF ~AtEnd(range, saved) THEN phase' = "done" /\ out' = <<best.val>> /\ made' = best.made
     ELSE /\ phase' = IF query.op \in {"min", "max"} THEN "crashed" ELSE "done"
          /\ UNCHANGED <<out, made>>
  /\ UNCHANGED <<range, query, it, stop, pos, acc, saved, found, pass>>

\* llvm_name of an instruction: its first part, trimmed.
Name ==
  /\ phase = "start" /\ query.op = "name"
  /\ phase' = "done"
  /\ out' = Trim(Dereferenced(range, BeginOf(range, made).it, made).val)
  /\ UNCHANGED <<range, query, it, stop, pos, acc, saved, found, made, pass>>

Next ==
  \/ Start \/ Crash \/ Copy \/ Count \/ Fold \/ Group \/ Miss \/ Hit \/ Finish
  \/ Singleton \/ Seize \/ Compete \/ Extremum \/ Name

\* A query that can go on does: WF_vars(Next), its guard spelled out.
Ready ==
  phase = "start" \/ (Walking /\ (Equal(range, it, stop) \/ AtEnd(range, it) \/ pos < MaxRounds))

GoesOn == []<>~Ready \/ []<><<TRUE>>_vars

Spec == Init /\ [][Next]_vars /\ GoesOn
-----------------------------------------------------------------------------
(* What a query answers, of what its range denotes. *)

\* The places of the elements in a set; the first of them.
Places(set) == {i \in DOMAIN Denotes(range) : Denotes(range)[i] \in set}

IsFirst(i, set) == i \in Places(set) /\ \A j \in Places(set) : i <= j

\* A part is what there is in a whole at certain places, in order.
TakenFrom(part, whole, places) ==
  \E at \in [DOMAIN part -> places] :
    /\ \A i, j \in DOMAIN part : i < j => at[i] < at[j]
    /\ \A p \in places : \E i \in DOMAIN part : at[i] = p
    /\ \A i \in DOMAIN part : part[i] = whole[at[i]]

IsSplit == range.kind = "split"

\* freeze, freezeAs and loops get the elements that the range denotes, in their
\* order, past empty collections and rejected elements; and a target never
\* copies more of them than it has measured (query.hpp:376-379, 456-462,
\* 655-674, 737-740).
FreezeDenotes ==
  query.op \in {"freeze", "each"} \cup Measured /\ ~IsSplit =>
    /\ phase # "crashed"
    /\ query.op \in Measured /\ phase = "again" => pos <= acc
    /\ phase = "done" =>
         IF query.op = "unstableUnique"
         THEN IsInjective(out) /\ ToSet(out) = ToSet(Denotes(range))
         ELSE out = Denotes(range)

\* size, fold and groupBy count, fold in order, and part in order what the
\* range denotes; all, any and none are what they say of it; an empty range
\* included (query.hpp:188-222, 611-624, 668, 676-690).
FoldsDenote ==
  phase = "done" =>
    LET all  == ToSet(Denotes(range))
        good == all \cap query.what
    IN
    /\ query.op = "size" => acc = Len(Denotes(range))
    /\ query.op = "fold" => acc = Denotes(range)
    /\ query.op = "groupBy" =>
         /\ DOMAIN out = {Key(x) : x \in all}
         /\ \A k \in DOMAIN out :
              TakenFrom(out[k], Denotes(range), {i \in DOMAIN Denotes(range) : Key(Denotes(range)[i]) = k})
    /\ query.op = "all"  => (found <=> good = all)
    /\ query.op = "any"  => (found <=> good # {})
    /\ query.op = "none" => (found <=> good = {})

\* min and max answer the least and the greatest element, and are undefined for
\* an empty range, and for no other; minOr and maxOr are not (query.hpp:703-762).
ExtremaHold ==
  query.op \in Extrema =>
    LET all == ToSet(Denotes(range)) IN
    /\ phase = "crashed" => all = {} /\ query.op \in {"min", "max"}
    /\ phase = "done" =>
         /\ all = {} <=> out = <<>>
         /\ all # {} => out = << IF query.op \in {"min", "minOr"} THEN Min(all) ELSE Max(all) >>
         /\ all = {} => query.op \in {"minOr", "maxOr"}

\* find answers the first element it looks for, and not found only if there
\* is none; singleton finds the element of a range of one, and none of another,
\* an empty one included (query.hpp:797-811, 822-829).
FindsFirst ==
  /\ query.op = "find" =>
       /\ phase # "crashed"
       /\ phase = "done" /\ found => IsFirst(pos + 1, query.what)
                                  /\ Here.val = Denotes(range)[pos + 1]
       /\ phase = "done" /\ ~found => Places(query.what) = {}
  /\ query.op = "singleton" /\ phase = "done" =>
       /\ found <=> Len(Denotes(range)) = 1
       /\ found => Here.val = Denotes(range)[1]

\* findBefore finds the first occurrence of what strictly before the first
\* occurrence of before (query.hpp:813-820).
FindsBefore ==
  query.op = "findBefore" =>
    /\ phase # "crashed"
    /\ phase = "done" /\ found =>
         /\ IsFirst(pos + 1, query.what)
         /\ \A j \in Places(query.before) : pos + 1 < j
    /\ phase = "done" /\ ~found =>
         \A i \in Places(query.what) : \E j \in Places(query.before) : j <= i

\* It does, unless the range holds collections that a mapped function returned
\* by value: those of its two walks are different ones (query.hpp:283-287, 423).
FindsBeforeInPlace == ~Owns(range) => FindsBefore

\* The values of a Map that are made after the first p of mk.
Calls(m, mk, p) == {k \in DOMAIN mk : k > p /\ mk[k].map = m}

\* Each is of a place below the Map, and later ones of later places.
Ascends(m, mk, p, at) ==
  \A k \in Calls(m, mk, p) :
    /\ mk[k].arg = Denotes(m.of)[at[k]]
    /\ \A l \in Calls(m, mk, p) : k < l => at[k] < at[l]

\* A walk asks a mapped function about each element below it at most once, and
\* in order, however often the ranges above compare, copy and read the iterator:
\* "guarantees range is iterated only once" (query.hpp:293-298, 657).  Not so the
\* search for an extremum, which compares copies.
MappedOncePerPass ==
  Walking /\ query.op \notin Extrema =>
    \A m \in {made[k].map : k \in pass + 1 .. Len(made)} :
      \E at \in [Calls(m, made, pass) -> DOMAIN Denotes(m.of)] : Ascends(m, made, pass, at)

\* What find and findBefore answer can be read when the Query is gone: its value
\* was made when the predicate looked at it, and reading asks nothing of the
\* Map it points to (query.hpp:283-303, 788, 807).
FoundReadable ==
  phase = "done" /\ found /\ query.op \in {"find", "findBefore"} => Here.made = made

EndsIn(text, d) == text # <<>> /\ Last(text) = d

JoinedBy(parts, d) ==
  FlattenSeq([i \in DOMAIN parts |-> IF i = 1 THEN parts[i] ELSE <<d>> \o parts[i]])

\* A loop over a splitter gets the parts between delimiters, but for an empty
\* last one.  In reverse it ends only if that is empty, and has got all of the
\* text before it then, delimiters and all (format.hpp:38-80).
PartsTaken ==
  IsSplit /\ query.op = "each" /\ phase = "done" =>
    /\ range.text = <<>> <=> out = <<>>
    /\ out # <<>> => range.text = JoinedBy(out, range.by) \o
                      (IF EndsIn(range.text, range.by) THEN <<range.by>> ELSE <<>>)
    /\ ~range.reverse => \A i \in DOMAIN out : Occurrences(out[i], range.by) = {}
    /\ range.reverse => Len(out) <= 1

\* The name of an instruction is the text before "=", all of that but the
\* spaces around it (format.hpp:88-108, 133-144).
NameTrimmed ==
  query.op = "name" /\ phase = "done" =>
    \E i, j \in 1..Len(range.text) + 1 :
      /\ i <= j /\ out = SubSeq(range.text, i, j - 1)
      /\ out # <<>> => Head(out) \notin Spaces /\ Last(out) \notin Spaces
      /\ \A k \in 1..i - 1 : range.text[k] \in Spaces
      /\ \E e \in j..Len(range.text) + 1 :
           /\ \A k \in j..e - 1 : range.text[k] \in Spaces
           /\ \A k \in 1..e - 1 : range.text[k] # range.by
           /\ e <= Len(range.text) => range.text[e] = range.by

\* Texts are split where their delimiters are, and what is taken of them is
\* whole: the parts of a loop, and the name of an instruction.
TextsSplit == PartsTaken /\ NameTrimmed

(***************************************************************************)
(* What the answers rest on: the contract of the iterators of a range.     *)
(***************************************************************************)

\* The iterator i, the n-th place of r, is at its end past all that r denotes,
\* and nowhere else.  Elsewhere it reads what r denotes there; reading it
\* leaves it where it is, makes no value it has made, and a step leads on to
\* the next place.  What mapped functions returned stays.
KeepsContract(r, i, mk, n) ==
  LET d == Dereferenced(r, i, mk)
      s == Incremented(r, i, mk)
  IN
  /\ mk \in Made /\ n \in 1..Len(Denotes(r)) + 1
  /\ AtEnd(r, i) <=> n = Len(Denotes(r)) + 1
  /\ n <= Len(Denotes(r)) =>
       /\ d.val = Denotes(r)[n]
       /\ Stands(r, d.it, d.made, n) /\ IsPrefix(mk, d.made)
       /\ Dereferenced(r, d.it, d.made).made = d.made
       /\ Stands(r, s.it, s.made, n + 1) /\ IsPrefix(mk, s.made)

\* A walk begins at the first place, and ends past the last.
Opens(r, mk) ==
  LET b == BeginOf(r, mk) IN
  /\ Stands(r, b.it, b.made, 1) /\ IsPrefix(mk, b.made)
  /\ Stands(r, EndOf(r), mk, Len(Denotes(r)) + 1)

\* Iterators of a range that owns no collections are equal where they are at
\* the same place.
Comparable(r, i, n, j, m) == ~Owns(r) => (Equal(r, i, j) <=> n = m)

\* Every range that is queried keeps the contract, wherever its iterators are.
Lawful ==
  /\ <<>> \in Made
  /\ \A r \in Pipelines : r.kind # "split" =>
       /\ Denotes(r) \in Seq(Int)
       /\ \A mk \in Made : Opens(r, mk)
       /\ \A i, mk, n : Stands(r, i, mk, n) =>
            /\ KeepsContract(r, i, mk, n)
            /\ \A more \in Made : IsPrefix(mk, more) => Stands(r, i, more, n)
            /\ \A j, m : Stands(r, j, mk, m) => Comparable(r, i, n, j, m)

\* A splitter in reverse stays where its text does not end with a delimiter.
Endless == IsSplit /\ range.reverse /\ range.text # <<>> /\ ~EndsIn(range.text, range.by)

\* Every other walk comes to an end.
WalksEnd == ~Endless => <>(phase \in {"done", "crashed"})
=============================================================================
