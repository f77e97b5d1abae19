---------------------------- MODULE QueryProofs ----------------------------
(***************************************************************************)
(* Proofs about Query, over all ranges that map, filter and flatten build  *)
(* (Unfolded: their iterators are those of Ranges): queries answer what    *)
(* the range denotes.                                                      *)
(*                                                                         *)
(* First, every range keeps the contract of its iterators (Lawful).  A     *)
(* range is Sound if those over it can rely on it; RangeSound, MapSound,   *)
(* FilterSound and FlattenSound carry that up, one layer each, and what a  *)
(* bump finds is shown by the elements below that are left (BumpsAll).     *)
(*                                                                         *)
(* Then QueryIInv is inductive for every lawful range.  It says where the  *)
(* iterators of a walk stand, and what each query has made of the elements *)
(* before them.                                                            *)
(*                                                                         *)
(* Last, texts: SplitIInv says what a loop over a splitter has got of its  *)
(* text, and what is left.                                                 *)
(*                                                                         *)
(* And which mapped functions a walk asks about what.  Thrift is an        *)
(* invariant of the walk; that every range is Economical keeps it: no      *)
(* operator of its iterators asks a function twice, or out of order.       *)
(***************************************************************************)
EXTENDS Query, TLAPS, SequenceTheorems, WellFoundedInduction

-----------------------------------------------------------------------------
(* Histories, which only grow; and least numbers. *)

LEMMA MinLeast ==
  ASSUME NEW S, S \subseteq Nat, S # {}
  PROVE  Min(S) \in S /\ \A y \in S : Min(S) <= y
<1>1. PICK x \in S : \A y \in S : <<y, x>> \notin OpToRel(<, Nat)
  BY NatLessThanWellFounded, WFMin, Zenon
<1>2. \A y \in S : ~(y < x)
  BY <1>1, Zenon DEF OpToRel
<1>3. \A y \in S : x <= y
  BY <1>2
<1>4. \E least \in S : \A y \in S : least <= y
  BY <1>3
<1> QED BY <1>4, Zenon DEF Min

\* A set of numbers that has no greatest, and is bounded, is empty.
LEMMA NoneUpward ==
  ASSUME NEW last \in Int, NEW S, S \subseteq 1..last, \A m \in S : m + 1 \in S
  PROVE  S = {}
<1> DEFINE T == {x \in Nat : last - x \in S}
<1>1. ASSUME T # {} PROVE FALSE
  <2>1. T \subseteq Nat
    OBVIOUS
  <2>2. PICK x \in T : \A y \in T : x <= y
    BY <1>1, <2>1, MinLeast
  <2>3. x \in Nat /\ last - x \in S
    BY <2>2
  <2>4. (last - x) + 1 \in S
    BY <2>3
  <2>5. (last - x) + 1 = last - (x - 1) /\ (last - x) + 1 <= last
    BY <2>3, <2>4
  <2>6. x - 1 \in Nat
    BY <2>3, <2>5
  <2>7. x - 1 \in T
    BY <2>4, <2>5, <2>6
  <2> QED BY <2>2, <2>3, <2>7
<1>2. ASSUME NEW m \in S PROVE FALSE
  <2>1. m \in Int /\ last - m \in Nat /\ last - (last - m) = m
    OBVIOUS
  <2>2. last - m \in T
    BY <2>1
  <2> QED BY <1>1, <2>2
<1> QED BY <1>2

LEMMA PrefixIs ==
  ASSUME NEW S, NEW s \in Seq(S), NEW t \in Seq(S)
  PROVE  IsPrefix(s, t) <=> Len(s) <= Len(t) /\ \A i \in 1..Len(s) : s[i] = t[i]
<1>1. ASSUME IsPrefix(s, t) PROVE Len(s) <= Len(t) /\ \A i \in 1..Len(s) : s[i] = t[i]
  <2>1. Len(s) <= Len(t) /\ SubSeq(s, 1, Len(s)) = SubSeq(t, 1, Len(s))
    BY <1>1 DEF IsPrefix
  <2>2. ASSUME NEW i \in 1..Len(s) PROVE s[i] = t[i]
    <3>1. SubSeq(s, 1, Len(s))[i] = s[i] /\ SubSeq(t, 1, Len(s))[i] = t[i]
      BY <2>1
    <3> QED BY <2>1, <3>1
  <2> QED BY <2>1, <2>2
<1>2. ASSUME Len(s) <= Len(t), \A i \in 1..Len(s) : s[i] = t[i] PROVE IsPrefix(s, t)
  <2>1. SubSeq(s, 1, Len(s)) = SubSeq(t, 1, Len(s))
    BY <1>2
  <2> QED BY <1>2, <2>1 DEF IsPrefix
<1> QED BY <1>1, <1>2

LEMMA PrefixOrder ==
  ASSUME NEW s \in Made
  PROVE  /\ IsPrefix(s, s)
         /\ \A t, u \in Made : IsPrefix(s, t) /\ IsPrefix(t, u) => IsPrefix(s, u)
<1>1. Made = Seq(Results)
  BY DEF Made
<1>2. IsPrefix(s, s)
  BY <1>1, PrefixIs
<1>3. ASSUME NEW t \in Made, NEW u \in Made, IsPrefix(s, t), IsPrefix(t, u)
      PROVE  IsPrefix(s, u)
  <2>1. Len(s) <= Len(t) /\ \A i \in 1..Len(s) : s[i] = t[i]
    BY <1>1, <1>3, PrefixIs
  <2>2. Len(t) <= Len(u) /\ \A i \in 1..Len(t) : t[i] = u[i]
    BY <1>1, <1>3, PrefixIs
  <2>3. Len(s) \in Nat /\ Len(t) \in Nat /\ Len(u) \in Nat
    BY <1>1
  <2>4. Len(s) <= Len(u) /\ \A i \in 1..Len(s) : s[i] = u[i]
    BY <2>1, <2>2, <2>3
  <2> QED BY <1>1, <2>4, PrefixIs
<1> QED BY <1>2, <1>3

LEMMA AppendMore ==
  ASSUME NEW S, NEW s \in Seq(S), NEW e \in S
  PROVE  /\ Append(s, e) \in Seq(S) /\ IsPrefix(s, Append(s, e))
         /\ Len(Append(s, e)) = Len(s) + 1 /\ Len(s) \in Nat
         /\ Append(s, e)[Len(s) + 1] = e
         /\ Len(s) + 1 \in DOMAIN Append(s, e)
<1>1. /\ Append(s, e) \in Seq(S) /\ Len(Append(s, e)) = Len(s) + 1
      /\ \A i \in 1..Len(s) : Append(s, e)[i] = s[i]
      /\ Append(s, e)[Len(s) + 1] = e
  <2>1. Append(s, e) \in Seq(S) /\ Len(Append(s, e)) = Len(s) + 1
    OBVIOUS
  <2>2. \A i \in 1..Len(s) : Append(s, e)[i] = s[i]
    OBVIOUS
  <2>3. Append(s, e)[Len(s) + 1] = e
    OBVIOUS
  <2> QED BY <2>1, <2>2, <2>3
<1>2. Len(s) \in Nat /\ DOMAIN Append(s, e) = 1..Len(Append(s, e))
  BY <1>1
<1>3. Len(s) <= Len(Append(s, e)) /\ Len(s) + 1 \in 1..Len(Append(s, e))
  BY <1>1, <1>2
<1>4. \A i \in 1..Len(s) : s[i] = Append(s, e)[i]
  BY <1>1, Zenon
<1>5. IsPrefix(s, Append(s, e))
  BY <1>1, <1>3, <1>4, PrefixIs, Zenon
<1> QED BY <1>1, <1>2, <1>3, <1>5

LEMMA MadeMore ==
  ASSUME NEW s \in Made, NEW e \in Results
  PROVE  /\ Append(s, e) \in Made /\ IsPrefix(s, Append(s, e))
         /\ Len(Append(s, e)) = Len(s) + 1 /\ Len(s) \in Nat
         /\ Append(s, e)[Len(s) + 1] = e
         /\ Len(s) + 1 \in DOMAIN Append(s, e)
BY AppendMore, Zenon DEF Made

LEMMA MadeKeeps ==
  ASSUME NEW s \in Made, NEW t \in Made, IsPrefix(s, t)
  PROVE  /\ Len(s) \in Nat /\ Len(t) \in Nat /\ Len(s) <= Len(t)
         /\ \A c \in DOMAIN s : c \in DOMAIN t /\ t[c] = s[c] /\ c \in Nat /\ c > 0
<1>1. Made = Seq(Results)
  BY DEF Made
<1>2. Len(s) <= Len(t) /\ \A i \in 1..Len(s) : s[i] = t[i]
  BY <1>1, PrefixIs
<1> QED BY <1>1, <1>2
-----------------------------------------------------------------------------
(* The contract, for every range that another may be over. *)

\* Reading an iterator again finds the same value, and makes none.
Settled(r, i, mk, v) ==
  LET d == Dereferenced(r, i, mk) IN d.it = i /\ d.val = v /\ d.made = mk

\* What is read for an element x: a collection that was returned by value is
\* named by when that was.
Means(r, v, x, mk) == IF Copies(r) THEN v \in DOMAIN mk /\ mk[v].val = x ELSE v = x

ReadsAt(r, i, mk, n) ==
  LET d == Dereferenced(r, i, mk) IN
  /\ Means(r, d.val, Denotes(r)[n], d.made)
  /\ Stands(r, d.it, d.made, n) /\ IsPrefix(mk, d.made)
  /\ Settled(r, d.it, d.made, d.val)

StepsAt(r, i, mk, n) ==
  LET s == Incremented(r, i, mk) IN
  Stands(r, s.it, s.made, n + 1) /\ IsPrefix(mk, s.made)

SoundAt(r, i, mk, n) ==
  /\ mk \in Made /\ n \in 1..Len(Denotes(r)) + 1
  /\ AtEnd(r, i) <=> n = Len(Denotes(r)) + 1
  /\ n <= Len(Denotes(r)) => ReadsAt(r, i, mk, n) /\ StepsAt(r, i, mk, n)

LastsAt(r, i, mk, n) ==
  \A more \in Made : IsPrefix(mk, more) =>
    /\ Stands(r, i, more, n)
    /\ n <= Len(Denotes(r)) => \A v : Settled(r, i, mk, v) => Settled(r, i, more, v)

Sound(r) ==
  /\ \A mk \in Made : Opens(r, mk)
  /\ \A i, mk, n : Stands(r, i, mk, n) =>
       /\ SoundAt(r, i, mk, n)
       /\ LastsAt(r, i, mk, n)
       /\ \A j, m : Stands(r, j, mk, m) => Comparable(r, i, n, j, m)

LEMMA SoundHere ==
  ASSUME NEW r, Sound(r), NEW i, NEW mk, NEW n, Stands(r, i, mk, n)
  PROVE  SoundAt(r, i, mk, n) /\ LastsAt(r, i, mk, n)
BY Zenon DEF Sound

LEMMA SoundOpens ==
  ASSUME NEW r, Sound(r), NEW mk \in Made, NEW b, b = BeginOf(r, mk)
  PROVE  /\ Stands(r, b.it, b.made, 1) /\ IsPrefix(mk, b.made) /\ b.made \in Made
         /\ Stands(r, EndOf(r), mk, Len(Denotes(r)) + 1)
<1>1. Opens(r, mk)
  BY Zenon DEF Sound
<1>2. /\ Stands(r, b.it, b.made, 1) /\ IsPrefix(mk, b.made)
      /\ Stands(r, EndOf(r), mk, Len(Denotes(r)) + 1)
  BY <1>1, Zenon DEF Opens
<1>3. SoundAt(r, b.it, b.made, 1)
  BY <1>2, SoundHere
<1> QED BY <1>2, <1>3 DEF SoundAt

LEMMA SoundCompares ==
  ASSUME NEW r, Sound(r), ~Owns(r), NEW mk, NEW i, NEW n, Stands(r, i, mk, n),
         NEW j, NEW m, Stands(r, j, mk, m)
  PROVE  Equal(r, i, j) <=> n = m
<1>1. Comparable(r, i, n, j, m)
  BY Zenon DEF Sound
<1> QED BY <1>1 DEF Comparable

LEMMA SoundReads ==
  ASSUME NEW r, Sound(r), NEW i, NEW mk, NEW n, Stands(r, i, mk, n), n <= Len(Denotes(r)),
         NEW d, d = Dereferenced(r, i, mk)
  PROVE  /\ Means(r, d.val, Denotes(r)[n], d.made) /\ Stands(r, d.it, d.made, n)
         /\ IsPrefix(mk, d.made) /\ d.made \in Made /\ Settled(r, d.it, d.made, d.val)
<1>1. ReadsAt(r, i, mk, n)
  BY SoundHere, Zenon DEF SoundAt
<1>2. /\ Means(r, d.val, Denotes(r)[n], d.made) /\ Stands(r, d.it, d.made, n)
      /\ IsPrefix(mk, d.made) /\ Settled(r, d.it, d.made, d.val)
  BY <1>1, Zenon DEF ReadsAt
<1>3. SoundAt(r, d.it, d.made, n)
  BY <1>2, SoundHere
<1> QED BY <1>2, <1>3 DEF SoundAt

LEMMA SoundSteps ==
  ASSUME NEW r, Sound(r), NEW i, NEW mk, NEW n, Stands(r, i, mk, n), n <= Len(Denotes(r)),
         NEW s, s = Incremented(r, i, mk)
  PROVE  Stands(r, s.it, s.made, n + 1) /\ IsPrefix(mk, s.made) /\ s.made \in Made
<1>1. StepsAt(r, i, mk, n)
  BY SoundHere, Zenon DEF SoundAt
<1>2. Stands(r, s.it, s.made, n + 1) /\ IsPrefix(mk, s.made)
  BY <1>1, Zenon DEF StepsAt
<1>3. SoundAt(r, s.it, s.made, n + 1)
  BY <1>2, SoundHere
<1> QED BY <1>2, <1>3 DEF SoundAt

LEMMA SoundLasts ==
  ASSUME NEW r, Sound(r), NEW i, NEW mk, NEW n, Stands(r, i, mk, n),
         NEW more \in Made, IsPrefix(mk, more)
  PROVE  /\ Stands(r, i, more, n)
         /\ n <= Len(Denotes(r)) => \A v : Settled(r, i, mk, v) => Settled(r, i, more, v)
BY SoundHere, Zenon DEF LastsAt

LEMMA SoundPlace ==
  ASSUME NEW r, Sound(r), NEW i, NEW mk, NEW n, Stands(r, i, mk, n)
  PROVE  /\ mk \in Made /\ n \in 1..Len(Denotes(r)) + 1
         /\ AtEnd(r, i) <=> n = Len(Denotes(r)) + 1
BY SoundHere, Zenon DEF SoundAt
-----------------------------------------------------------------------------
(* The ranges, one kind after the other: what their operators are. *)

LEMMA Kinds ==
  ASSUME NEW r \in Parts
  PROVE  /\ r.kind \in {"range", "map", "filter", "flatten"} /\ IsDenoted(r)
         /\ Denotes(r) \in Seq(Int) /\ Len(Denotes(r)) \in Nat
         /\ DOMAIN Denotes(r) = 1..Len(Denotes(r))
         /\ r.kind # "range" => IsOver(r) /\ r.of \in Parts
         /\ Owns(r) <=> r.kind # "range" /\ (Copies(r) \/ Owns(r.of))
<1>1. /\ r.kind \in {"range", "map", "filter", "flatten"} /\ IsDenoted(r)
      /\ r.kind # "range" => IsOver(r)
      /\ Owns(r) <=> r.kind # "range" /\ (Copies(r) \/ Owns(r.of))
  BY PartsAssumption, Zenon
<1>2. Denotes(r) \in Seq(Int)
  BY <1>1, Zenon DEF IsDenoted
<1>3. Len(Denotes(r)) \in Nat /\ DOMAIN Denotes(r) = 1..Len(Denotes(r))
  BY <1>2
<1>4. IsOver(r) => r.of \in Parts
  BY Zenon DEF IsOver
<1> QED BY <1>1, <1>2, <1>3, <1>4

LEMMA RangeSound ==
  ASSUME Unfolded, NEW r \in Parts, r.kind = "range"
  PROVE  Sound(r)
<1> DEFINE D0 == Denotes(r)
<1>1. /\ D0 \in Seq(Int) /\ Len(D0) \in Nat /\ D0 = r.elems
      /\ ~Copies(r) /\ ~Owns(r)
  <2>1. D0 = r.elems
    BY Kinds DEF IsDenoted
  <2> QED BY <2>1, Kinds DEF Copies
<1>2. \A i, mk, n : Stands(r, i, mk, n) <=> i = n /\ n \in 1..Len(D0) + 1 /\ mk \in Made
  BY <1>1 DEF Unfolded, Unfolds, StandsAt
<1>3. EndOf(r) = Len(D0) + 1 /\ (\A i, j : Equal(r, i, j) <=> i = j)
  BY <1>1 DEF Unfolded, Unfolds, End, Same
<1>4. \A i, mk : Dereferenced(r, i, mk) = [it |-> i, val |-> D0[i], made |-> mk]
  <2>1. \A i, mk : Dereferenced(r, i, mk) = [it |-> i, val |-> r.elems[i], made |-> mk]
    BY Zenon DEF Unfolded, Unfolds, Deref
  <2> QED BY <1>1, <2>1
<1>5. \A i, mk : Incremented(r, i, mk) = [it |-> i + 1, made |-> mk]
  BY Zenon DEF Unfolded, Unfolds, Step
<1>6. \A mk : BeginOf(r, mk) = [it |-> 1, made |-> mk]
  BY Zenon DEF Unfolded, Unfolds, Begin
<1>7. \A mk \in Made : IsPrefix(mk, mk)
  BY PrefixOrder
<1>8. ASSUME NEW mk \in Made PROVE Opens(r, mk)
  <2>1. BeginOf(r, mk).it = 1 /\ BeginOf(r, mk).made = mk
    BY <1>6
  <2>2. 1 \in 1..Len(D0) + 1 /\ Len(D0) + 1 \in 1..Len(D0) + 1
    BY <1>1
  <2> QED BY <1>2, <1>3, <1>7, <2>1, <2>2 DEF Opens
<1>9. ASSUME NEW i, NEW mk, NEW n, Stands(r, i, mk, n)
      PROVE  /\ SoundAt(r, i, mk, n)
             /\ LastsAt(r, i, mk, n)
             /\ \A j, m : Stands(r, j, mk, m) => Comparable(r, i, n, j, m)
  <2>1. i = n /\ n \in 1..Len(D0) + 1 /\ mk \in Made
    BY <1>2, <1>9
  <2>2. \A more, v : Settled(r, i, more, v) <=> v = D0[i]
    BY <1>4 DEF Settled
  <2>3. ReadsAt(r, i, mk, n)
    BY <1>1, <1>4, <1>7, <1>9, <2>1, <2>2 DEF ReadsAt, Means
  <2>4. ASSUME n <= Len(D0) PROVE StepsAt(r, i, mk, n)
    <3>1. n + 1 \in 1..Len(D0) + 1
      BY <1>1, <2>1, <2>4
    <3> QED BY <1>2, <1>5, <1>7, <2>1, <3>1 DEF StepsAt
  <2>5. AtEnd(r, i) <=> n = Len(D0) + 1
    BY <1>3, <2>1 DEF AtEnd
  <2>6. SoundAt(r, i, mk, n)
    BY <2>1, <2>3, <2>4, <2>5 DEF SoundAt
  <2>7. LastsAt(r, i, mk, n)
    BY <1>2, <2>1, <2>2 DEF LastsAt
  <2>8. \A j, m : Stands(r, j, mk, m) => Comparable(r, i, n, j, m)
    BY <1>2, <1>3, <2>1 DEF Comparable
  <2> QED BY <2>6, <2>7, <2>8
<1> QED BY <1>8, <1>9 DEF Sound

LEMMA MapIs ==
  ASSUME Unfolded, NEW r \in Parts, r.kind = "map"
  PROVE  /\ EndOf(r) = [it |-> EndOf(r.of), current |-> 0]
         /\ \A i, j : Equal(r, i, j) <=> Equal(r.of, i.it, j.it)
         /\ \A i, mk : LET s == Incremented(r.of, i.it, mk) IN
              Incremented(r, i, mk) = [it |-> [it |-> s.it, current |-> 0], made |-> s.made]
         /\ \A mk : LET b == BeginOf(r.of, mk) IN
              BeginOf(r, mk) = [it |-> [it |-> b.it, current |-> 0], made |-> b.made]
<1>1. EndOf(r) = [it |-> EndOf(r.of), current |-> 0]
  BY Zenon DEF Unfolded, Unfolds, End
<1>2. \A i, j : Equal(r, i, j) <=> Equal(r.of, i.it, j.it)
  BY DEF Unfolded, Unfolds, Same
<1>3. \A i, mk : LET s == Incremented(r.of, i.it, mk) IN
        Incremented(r, i, mk) = [it |-> [it |-> s.it, current |-> 0], made |-> s.made]
  BY Zenon DEF Unfolded, Unfolds, Step
<1>4. \A mk : LET b == BeginOf(r.of, mk) IN
        BeginOf(r, mk) = [it |-> [it |-> b.it, current |-> 0], made |-> b.made]
  BY Zenon DEF Unfolded, Unfolds, Begin
<1> QED BY <1>1, <1>2, <1>3, <1>4

\* A Map iterator that has kept its value reads that, and another makes one.
LEMMA MapReads ==
  ASSUME Unfolded, NEW r \in Parts, r.kind = "map", NEW i, NEW mk,
         NEW inner, inner = IF i.current # 0 THEN [it |-> i.it, val |-> 0, made |-> mk]
                            ELSE Dereferenced(r.of, i.it, mk),
         NEW e, e = Evaluated(r, i, inner),
         NEW d, d = Dereferenced(r, i, mk)
  PROVE  /\ d.it = e.it /\ d.made = e.made
         /\ d.val = IF Copies(r) THEN e.it.current ELSE e.made[e.it.current].val
<1>1. Dereferenced(r, i, mk) = Deref(r, i, mk)
  BY Zenon DEF Unfolded, Unfolds
<1>2. Deref(r, i, mk) =
         LET x == Evaluated(r, i, IF i.current # 0 THEN [it |-> i.it, val |-> 0, made |-> mk]
                                  ELSE Dereferenced(r.of, i.it, mk))
             c == x.it.current
         IN  [it |-> x.it, made |-> x.made, val |-> IF Copies(r) THEN c ELSE x.made[c].val]
  BY Zenon DEF Deref
<1>3. d = [it |-> e.it, made |-> e.made,
           val |-> IF Copies(r) THEN e.it.current ELSE e.made[e.it.current].val]
  BY <1>1, <1>2, Zenon
<1> QED BY <1>3

LEMMA MapReadsKept ==
  ASSUME Unfolded, NEW r \in Parts, r.kind = "map", NEW i, NEW mk, i.current # 0,
         NEW d, d = Dereferenced(r, i, mk)
  PROVE  /\ d.it = i /\ d.made = mk
         /\ d.val = IF Copies(r) THEN i.current ELSE mk[i.current].val
<1>1. PICK inner : inner = [it |-> i.it, val |-> 0, made |-> mk]
  OBVIOUS
<1>2. PICK e : e = Evaluated(r, i, inner)
  OBVIOUS
<1>3. e.it = i /\ e.made = mk
  BY <1>1, <1>2 DEF Evaluated
<1>4. /\ d.it = e.it /\ d.made = e.made
      /\ d.val = IF Copies(r) THEN e.it.current ELSE e.made[e.it.current].val
  BY <1>1, <1>2, MapReads
<1> QED BY <1>3, <1>4

LEMMA MapReadsNew ==
  ASSUME Unfolded, NEW r \in Parts, r.kind = "map", NEW i, NEW mk, i.current = 0,
         NEW d, d = Dereferenced(r, i, mk),
         NEW inner, inner = Dereferenced(r.of, i.it, mk),
         NEW x, x = Call(r, inner.val),
         NEW more, more = Append(inner.made, x)
  PROVE  /\ d.it.it = inner.it /\ d.it.current = Len(more) /\ d.made = more
         /\ Copies(r) => d.val = Len(more)
         /\ ~Copies(r) => d.val = more[Len(more)].val
<1>1. PICK e : e = Evaluated(r, i, inner)
  OBVIOUS
<1>2. e.it.it = inner.it /\ e.it.current = Len(more) /\ e.made = more
  BY <1>1 DEF Evaluated
<1>3. /\ d.it = e.it /\ d.made = e.made
      /\ d.val = IF Copies(r) THEN e.it.current ELSE e.made[e.it.current].val
  BY <1>1, MapReads
<1> QED BY <1>2, <1>3

\* The value that a Map iterator has kept is that of the m-th element below.
Keeping(r, i, mk, m) ==
  i.current # 0 =>
    /\ m \in DOMAIN Denotes(r.of) /\ i.current \in DOMAIN mk
    /\ mk[i.current] = Call(r, Denotes(r.of)[m])

LEMMA MapStands ==
  ASSUME Unfolded, NEW r \in Parts, r.kind = "map", Sound(r.of), NEW i, NEW mk, NEW n
  PROVE  Stands(r, i, mk, n) <=> Stands(r.of, i.it, mk, n) /\ Keeping(r, i, mk, n)
<1>1. Stands(r, i, mk, n) <=> StandsAt(r, i, mk, n)
  BY DEF Unfolded, Unfolds
<1>2. StandsAt(r, i, mk, n) <=>
        \E m \in 1..Len(Denotes(r.of)) + 1 :
          Stands(r.of, i.it, mk, m) /\ n = m /\ Keeping(r, i, mk, m)
  BY Zenon DEF StandsAt, Keeping
<1>3. Stands(r.of, i.it, mk, n) => n \in 1..Len(Denotes(r.of)) + 1
  BY SoundPlace
<1> QED BY <1>1, <1>2, <1>3, Zenon

\* Of what a map is over, and what it denotes.
LEMMA MapDenotes ==
  ASSUME NEW r \in Parts, r.kind = "map"
  PROVE  /\ Denotes(r) \in Seq(Int) /\ Len(Denotes(r)) = Len(Denotes(r.of))
         /\ r.of \in Parts /\ Len(Denotes(r)) \in Nat
         /\ \A m \in 1..Len(Denotes(r)) :
              /\ Denotes(r.of)[m] \in Leaves /\ Denotes(r)[m] = r.fn[Denotes(r.of)[m]]
              /\ m \in DOMAIN Denotes(r.of) /\ Denotes(r.of)[m] \in Int
         /\ r.fn \in [Leaves -> Int] /\ ~Copies(r.of)
         /\ Owns(r) <=> Copies(r) \/ Owns(r.of)
<1> DEFINE below == Denotes(r.of)
<1>1. /\ Denotes(r) \in Seq(Int) /\ r.of \in Parts /\ IsDenoted(r) /\ IsOver(r)
      /\ Owns(r) <=> Copies(r) \/ Owns(r.of)
  BY Kinds
<1>2. below \in Seq(Int) /\ Len(below) \in Nat /\ DOMAIN below = 1..Len(below)
  BY <1>1, Kinds
<1>3. Denotes(r) = [m \in DOMAIN below |-> r.fn[below[m]]]
  BY <1>1 DEF IsDenoted
<1>4. Len(Denotes(r)) \in Nat /\ DOMAIN Denotes(r) = 1..Len(Denotes(r))
  BY <1>1
<1>5. 1..Len(Denotes(r)) = 1..Len(below)
  BY <1>2, <1>3, <1>4
<1>6. Len(Denotes(r)) = Len(below)
  BY <1>2, <1>4, <1>5
<1>7. r.fn \in [Leaves -> Int] /\ ToSet(below) \subseteq Leaves /\ ~Copies(r.of)
  BY <1>1 DEF IsOver
<1>8. \A m \in DOMAIN below : below[m] \in Leaves
  BY <1>7 DEF ToSet
<1> HIDE DEF below
<1>9. ASSUME NEW m \in 1..Len(Denotes(r))
      PROVE  below[m] \in Leaves /\ Denotes(r)[m] = r.fn[below[m]] /\ m \in DOMAIN below
             /\ below[m] \in Int
  BY <1>2, <1>3, <1>5, <1>8
<1> QED BY <1>1, <1>4, <1>6, <1>7, <1>9 DEF below

\* One that has kept its value is settled.
LEMMA MapSettled ==
  ASSUME Unfolded, NEW r \in Parts, r.kind = "map", Sound(r.of), NEW i, NEW mk, NEW n,
         Stands(r, i, mk, n), n <= Len(Denotes(r)), i.current # 0
  PROVE  LET d == Dereferenced(r, i, mk) IN
         Settled(r, i, mk, d.val) /\ Means(r, d.val, Denotes(r)[n], mk)
<1> DEFINE d == Dereferenced(r, i, mk)
<1>1. d.it = i /\ d.made = mk /\ d.val = IF Copies(r) THEN i.current ELSE mk[i.current].val
  BY MapReadsKept
<1>2. Settled(r, i, mk, d.val)
  BY <1>1 DEF Settled
<1>3. Stands(r.of, i.it, mk, n) /\ Keeping(r, i, mk, n)
  BY MapStands
<1>4. i.current \in DOMAIN mk /\ mk[i.current].val = r.fn[Denotes(r.of)[n]]
  BY <1>3 DEF Keeping, Call
<1>5. n \in 1..Len(Denotes(r))
  BY <1>3, SoundPlace, MapDenotes
<1>6. mk[i.current].val = Denotes(r)[n]
  BY <1>4, <1>5, MapDenotes
<1> HIDE DEF d
<1>7. Means(r, d.val, Denotes(r)[n], mk)
  BY <1>1, <1>4, <1>6, Zenon DEF Means
<1> QED BY <1>2, <1>7 DEF d

LEMMA MapReadsAt ==
  ASSUME Unfolded, NEW r \in Parts, r.kind = "map", Sound(r.of), NEW i, NEW mk, NEW n,
         Stands(r, i, mk, n), n <= Len(Denotes(r))
  PROVE  ReadsAt(r, i, mk, n) /\ (i.current = 0 => Dereferenced(r, i, mk).it # i)
<1>0. PICK d : d = Dereferenced(r, i, mk)
  OBVIOUS
<1>1. /\ Stands(r.of, i.it, mk, n) /\ Keeping(r, i, mk, n) /\ mk \in Made
      /\ n \in 1..Len(Denotes(r)) /\ n <= Len(Denotes(r.of))
  BY MapStands, SoundPlace, MapDenotes
<1>2. CASE i.current # 0
  <2>1. Settled(r, i, mk, d.val) /\ Means(r, d.val, Denotes(r)[n], mk)
    BY <1>0, <1>2, MapSettled
  <2>2. d.it = i /\ d.made = mk /\ IsPrefix(mk, mk)
    BY <1>0, <1>1, <2>1, PrefixOrder DEF Settled
  <2> QED BY <1>0, <1>2, <2>1, <2>2 DEF ReadsAt
<1>3. CASE i.current = 0
  <2>1a. PICK inner : inner = Dereferenced(r.of, i.it, mk)
    OBVIOUS
  <2>1b. PICK e : e = Call(r, inner.val)
    OBVIOUS
  <2>1c. PICK more : more = Append(inner.made, e)
    OBVIOUS
  <2>1. /\ Means(r.of, inner.val, Denotes(r.of)[n], inner.made)
        /\ Stands(r.of, inner.it, inner.made, n)
        /\ IsPrefix(mk, inner.made) /\ inner.made \in Made
    BY <1>1, <2>1a, SoundReads
  <2>2. inner.val = Denotes(r.of)[n] /\ inner.val \in Leaves /\ inner.val \in Int
        /\ r.fn[inner.val] = Denotes(r)[n]
    BY <1>1, <2>1, MapDenotes DEF Means
  <2>3. /\ d.it.it = inner.it /\ d.it.current = Len(more) /\ d.made = more
        /\ Copies(r) => d.val = Len(more)
        /\ ~Copies(r) => d.val = more[Len(more)].val
    BY <1>0, <1>3, <2>1a, <2>1b, <2>1c, MapReadsNew, SMTT(30)
  <2>4. e \in Results
    <3>1. r \in Maps
      BY DEF Maps
    <3>2. inner.val \in Int /\ r.fn[inner.val] \in Int
      BY <2>2, MapDenotes
    <3> QED BY <2>1b, <3>1, <3>2 DEF Call, Results
  <2>5. /\ e.val = Denotes(r)[n] /\ e.arg = Denotes(r.of)[n]
        /\ e = Call(r, Denotes(r.of)[n])
    BY <2>2, <2>1b DEF Call
  <2>6. /\ more \in Made /\ IsPrefix(inner.made, more)
        /\ Len(more) = Len(inner.made) + 1 /\ Len(inner.made) \in Nat
        /\ more[Len(inner.made) + 1] = e
        /\ Len(inner.made) + 1 \in DOMAIN more
    BY <2>1, <2>4, <2>1c, MadeMore
  <2>7. Len(more) # 0 /\ more[Len(more)] = e /\ Len(more) \in DOMAIN more
    BY <2>6
  <2>8. IsPrefix(mk, more)
    BY <1>1, <2>1, <2>6, PrefixOrder
  <2>9. Stands(r.of, inner.it, more, n)
    BY <2>1, <2>6, SoundLasts
  <2>11. n \in DOMAIN Denotes(r.of)
    BY <1>1, MapDenotes
  <2>12. Keeping(r, d.it, more, n)
    BY <2>5, <2>7, <2>3, <2>11 DEF Keeping
  <2>13. Stands(r, d.it, more, n)
    BY <2>9, <2>3, <2>12, MapStands
  <2>14. /\ Settled(r, d.it, more, Dereferenced(r, d.it, more).val)
         /\ Dereferenced(r, d.it, more).val =
              IF Copies(r) THEN d.it.current ELSE more[d.it.current].val
    <3>1. d.it.current # 0
      BY <2>3, <2>7
    <3> QED BY <2>13, <3>1, MapSettled, MapReadsKept
  <2>15. Dereferenced(r, d.it, more).val = d.val
    BY <2>3, <2>14
  <2>16. Means(r, d.val, Denotes(r)[n], more)
    BY <2>3, <2>5, <2>7, Zenon DEF Means
  <2>17. ReadsAt(r, i, mk, n)
    BY <2>3, <2>8, <2>13, <2>14, <2>15, <2>16, <1>0 DEF ReadsAt
  <2>18. d.it # i
    BY <1>3, <2>3, <2>7
  <2> QED BY <1>0, <2>17, <2>18
<1> QED BY <1>2, <1>3

LEMMA MapSoundAt ==
  ASSUME Unfolded, NEW r \in Parts, r.kind = "map", Sound(r.of), NEW i, NEW mk, NEW n,
         Stands(r, i, mk, n)
  PROVE  SoundAt(r, i, mk, n)
<1>1. /\ Stands(r.of, i.it, mk, n) /\ mk \in Made
      /\ n \in 1..Len(Denotes(r)) + 1 /\ Len(Denotes(r)) = Len(Denotes(r.of))
      /\ AtEnd(r.of, i.it) <=> n = Len(Denotes(r)) + 1
  BY MapStands, SoundPlace, MapDenotes
<1>2. EndOf(r).it = EndOf(r.of) /\ (Equal(r, i, EndOf(r)) <=> Equal(r.of, i.it, EndOf(r).it))
  BY MapIs
<1>3. AtEnd(r, i) <=> AtEnd(r.of, i.it)
  BY <1>2 DEF AtEnd
<1>4. ASSUME n <= Len(Denotes(r)) PROVE StepsAt(r, i, mk, n)
  <2> DEFINE s == Incremented(r.of, i.it, mk)
             t == Incremented(r, i, mk)
  <2>1. t = [it |-> [it |-> s.it, current |-> 0], made |-> s.made]
    BY MapIs
  <2>2. Stands(r.of, s.it, s.made, n + 1) /\ IsPrefix(mk, s.made)
    BY <1>1, <1>4, SoundSteps
  <2>3. t.it.it = s.it /\ t.it.current = 0 /\ t.made = s.made
    BY <2>1
  <2> HIDE DEF s, t
  <2>4. Stands(r, t.it, t.made, n + 1)
    BY <2>2, <2>3, MapStands DEF Keeping
  <2> QED BY <2>2, <2>3, <2>4 DEF StepsAt, t
<1> QED BY <1>1, <1>3, <1>4, MapReadsAt DEF SoundAt

LEMMA MapLastsAt ==
  ASSUME Unfolded, NEW r \in Parts, r.kind = "map", Sound(r.of), NEW i, NEW mk, NEW n,
         Stands(r, i, mk, n)
  PROVE  LastsAt(r, i, mk, n)
<1>1. Stands(r.of, i.it, mk, n) /\ Keeping(r, i, mk, n) /\ mk \in Made
  BY MapStands, SoundPlace
<1>2. ASSUME NEW more \in Made, IsPrefix(mk, more)
      PROVE  /\ Stands(r, i, more, n)
             /\ n <= Len(Denotes(r)) => \A v : Settled(r, i, mk, v) => Settled(r, i, more, v)
  <2>1. Stands(r.of, i.it, more, n)
    BY <1>1, <1>2, SoundLasts
  <2>2. \A c \in DOMAIN mk : c \in DOMAIN more /\ more[c] = mk[c]
    BY <1>1, <1>2, MadeKeeps
  <2>3. Keeping(r, i, more, n)
    BY <1>1, <2>2 DEF Keeping
  <2>4. Stands(r, i, more, n)
    BY <2>1, <2>3, MapStands
  <2>5. ASSUME n <= Len(Denotes(r)), NEW v, Settled(r, i, mk, v)
        PROVE  Settled(r, i, more, v)
    <3>1. i.current # 0
      BY <2>5, MapReadsAt DEF Settled
    <3>2. i.current \in DOMAIN mk
      BY <1>1, <3>1 DEF Keeping
    <3>3. v = IF Copies(r) THEN i.current ELSE mk[i.current].val
      BY <2>5, <3>1, MapReadsKept DEF Settled
    <3>4. more[i.current] = mk[i.current]
      BY <2>2, <3>2, Zenon
    <3>5. v = IF Copies(r) THEN i.current ELSE more[i.current].val
      BY <3>3, <3>4, Zenon
    <3> QED BY <3>1, <3>5, MapReadsKept DEF Settled
  <2> QED BY <2>4, <2>5
<1> QED BY <1>2 DEF LastsAt

LEMMA MapSound ==
  ASSUME Unfolded, NEW r \in Parts, r.kind = "map", Sound(r.of)
  PROVE  Sound(r)
<1>1. ASSUME NEW mk \in Made PROVE Opens(r, mk)
  <2> DEFINE a == BeginOf(r.of, mk)
             b == BeginOf(r, mk)
  <2>1. /\ Stands(r.of, a.it, a.made, 1) /\ IsPrefix(mk, a.made)
        /\ Stands(r.of, EndOf(r.of), mk, Len(Denotes(r)) + 1)
    BY SoundOpens, MapDenotes
  <2>2. b.it.it = a.it /\ b.it.current = 0 /\ b.made = a.made
    BY MapIs
  <2>3. EndOf(r).it = EndOf(r.of) /\ EndOf(r).current = 0
    BY MapIs
  <2> HIDE DEF a, b
  <2>4. Stands(r, b.it, b.made, 1)
    BY <2>1, <2>2, MapStands DEF Keeping
  <2>5. Stands(r, EndOf(r), mk, Len(Denotes(r)) + 1)
    BY <2>1, <2>3, MapStands DEF Keeping
  <2> QED BY <2>1, <2>2, <2>4, <2>5 DEF Opens, b
<1>2. ASSUME NEW i, NEW mk, NEW n, Stands(r, i, mk, n), NEW j, NEW m, Stands(r, j, mk, m), ~Owns(r)
      PROVE  Equal(r, i, j) <=> n = m
  <2>1. Stands(r.of, i.it, mk, n) /\ Stands(r.of, j.it, mk, m) /\ ~Owns(r.of)
    BY <1>2, MapStands, MapDenotes
  <2>2. Equal(r.of, i.it, j.it) <=> n = m
    BY <2>1, SoundCompares
  <2> QED BY <2>2, MapIs
<1>3. \A i, mk, n : Stands(r, i, mk, n) =>
        \A j, m : Stands(r, j, mk, m) => Comparable(r, i, n, j, m)
  BY <1>2 DEF Comparable
<1>4. \A i, mk, n : Stands(r, i, mk, n) => SoundAt(r, i, mk, n) /\ LastsAt(r, i, mk, n)
  BY MapSoundAt, MapLastsAt
<1> QED BY <1>1, <1>3, <1>4, Zenon DEF Sound
-----------------------------------------------------------------------------
(* Filter and flatten: the places that their elements come from. *)

LEMMA OriginIs ==
  ASSUME NEW r \in Parts, r.kind \in {"filter", "flatten"}
  PROVE  Origin(r) \in [DOMAIN Denotes(r) -> Origins(r)] /\ ComeFrom(r, Origin(r))
<1>1. \E at \in [DOMAIN Denotes(r) -> Origins(r)] : ComeFrom(r, at)
  BY Kinds DEF IsDenoted
<1> QED BY <1>1, Zenon DEF Origin

LEMMA HeldSeq ==
  ASSUME NEW r \in Parts, r.kind \in {"filter", "flatten"}, NEW m \in DOMAIN Denotes(r.of)
  PROVE  /\ Held(r, m) \in Seq(Int) /\ Len(Held(r, m)) \in Nat
         /\ DOMAIN Held(r, m) = 1..Len(Held(r, m))
<1>1. r.of \in Parts /\ IsOver(r)
  BY Kinds
<1>2. Denotes(r.of) \in Seq(Int) /\ Denotes(r.of)[m] \in Int
  BY <1>1, Kinds
<1>3. CASE r.kind = "filter"
  <2>1. Held(r, m) = IF Denotes(r.of)[m] \in r.pred THEN <<Denotes(r.of)[m]>> ELSE <<>>
    BY <1>3 DEF Held
  <2>2. <<Denotes(r.of)[m]>> \in Seq(Int) /\ <<>> \in Seq(Int)
    BY <1>2
  <2>3. Held(r, m) \in Seq(Int)
    BY <2>1, <2>2, Zenon
  <2> QED BY <2>3
<1>4. CASE r.kind = "flatten"
  <2>1. Held(r, m) = Store[-Denotes(r.of)[m]]
    BY <1>4 DEF Held
  <2>2. Denotes(r.of)[m] \in ToSet(Denotes(r.of))
    BY <1>2 DEF ToSet
  <2>3. -Denotes(r.of)[m] \in DOMAIN Store
    BY <1>1, <1>4, <2>2 DEF IsOver
  <2>4. Store \in Seq(Seq(Int))
    BY PartsAssumption
  <2>5. Held(r, m) \in Seq(Int)
    BY <2>1, <2>3, <2>4
  <2> QED BY <2>5
<1> QED BY <1>3, <1>4

LEMMA PlaceOf ==
  ASSUME NEW r \in Parts, r.kind \in {"filter", "flatten"}
  PROVE  /\ \A m, k : <<m, k>> \in Origins(r) <=>
              m \in 1..Len(Denotes(r.of)) /\ k \in 1..Len(Held(r, m))
         /\ \A p \in Origins(r) : p = <<p[1], p[2]>>
<1>1. DOMAIN Denotes(r.of) = 1..Len(Denotes(r.of))
  BY Kinds
<1>2. \A m \in 1..Len(Denotes(r.of)) : DOMAIN Held(r, m) = 1..Len(Held(r, m))
  BY <1>1, HeldSeq
<1>3. \A p : p \in Origins(r) <=> \E m \in 1..Len(Denotes(r.of)) : p \in {m} \X DOMAIN Held(r, m)
  BY <1>1, Zenon DEF Origins
<1>4. ASSUME NEW p \in Origins(r) PROVE p = <<p[1], p[2]>>
  <2>1. PICK m : p \in {m} \X DOMAIN Held(r, m)
    BY <1>3
  <2> QED BY <2>1
<1>5. ASSUME NEW m, NEW k
      PROVE  <<m, k>> \in Origins(r) <=>
               m \in 1..Len(Denotes(r.of)) /\ k \in 1..Len(Held(r, m))
  <2>1. \A x : <<m, k>> \in {x} \X DOMAIN Held(r, x) <=> x = m /\ k \in DOMAIN Held(r, x)
    OBVIOUS
  <2>2. <<m, k>> \in Origins(r) <=> m \in 1..Len(Denotes(r.of)) /\ k \in DOMAIN Held(r, m)
    BY <1>3, <2>1, Zenon
  <2> QED BY <1>2, <2>2, Zenon
<1> QED BY <1>4, <1>5

\* The n-th element comes from its place, after those of the elements before it.
LEMMA ElementOf ==
  ASSUME NEW r \in Parts, r.kind \in {"filter", "flatten"}, NEW n \in DOMAIN Denotes(r)
  PROVE  /\ Origin(r)[n] = <<Origin(r)[n][1], Origin(r)[n][2]>> /\ Origin(r)[n] \in Origins(r)
         /\ Origin(r)[n][1] \in 1..Len(Denotes(r.of)) /\ Origin(r)[n][1] \in Nat
         /\ Origin(r)[n][2] \in 1..Len(Held(r, Origin(r)[n][1])) /\ Origin(r)[n][2] \in Nat
         /\ Denotes(r)[n] = Held(r, Origin(r)[n][1])[Origin(r)[n][2]]
<1>1. PICK m, k : m = Origin(r)[n][1] /\ k = Origin(r)[n][2]
  OBVIOUS
<1>2. Origin(r)[n] \in Origins(r) /\ Denotes(r)[n] = Held(r, m)[k]
  BY <1>1, OriginIs DEF ComeFrom
<1>3. Origin(r)[n] = <<m, k>>
  BY <1>1, <1>2, PlaceOf
<1>4. m \in 1..Len(Denotes(r.of)) /\ k \in 1..Len(Held(r, m))
  BY <1>2, <1>3, PlaceOf
<1>5. m \in Nat /\ k \in Nat
  BY <1>4
<1> QED BY <1>1, <1>2, <1>3, <1>4, <1>5

LEMMA SamePlace ==
  ASSUME NEW r \in Parts, r.kind \in {"filter", "flatten"},
         NEW n \in DOMAIN Denotes(r), NEW m \in DOMAIN Denotes(r), Origin(r)[n] = Origin(r)[m]
  PROVE  n = m
<1>1. DOMAIN Denotes(r) = 1..Len(Denotes(r)) /\ Len(Denotes(r)) \in Nat
  BY Kinds
<1>2. n < m => Before(Origin(r)[n], Origin(r)[m])
  BY OriginIs DEF ComeFrom
<1>3. m < n => Before(Origin(r)[m], Origin(r)[n])
  BY OriginIs DEF ComeFrom
<1>4. Origin(r)[n][1] \in Nat /\ Origin(r)[n][2] \in Nat
  BY ElementOf
<1>5. ~Before(Origin(r)[n], Origin(r)[n])
  BY <1>4 DEF Before
<1> QED BY <1>1, <1>2, <1>3, <1>5

\* n is one more than there are elements before the place <<m, k>>.
Counts(r, n, m, k) ==
  /\ n \in 1..Len(Denotes(r)) + 1
  /\ \A j \in DOMAIN Denotes(r) : j < n <=> Before(Origin(r)[j], <<m, k>>)

LEMMA CountsFirst ==
  ASSUME NEW r \in Parts, r.kind \in {"filter", "flatten"} PROVE Counts(r, 1, 1, 1)
<1>1. Len(Denotes(r)) \in Nat /\ DOMAIN Denotes(r) = 1..Len(Denotes(r))
  BY Kinds
<1>2. ASSUME NEW j \in DOMAIN Denotes(r) PROVE ~(j < 1) /\ ~Before(Origin(r)[j], <<1, 1>>)
  <2>1. /\ Origin(r)[j][1] \in 1..Len(Denotes(r.of))
        /\ Origin(r)[j][2] \in 1..Len(Held(r, Origin(r)[j][1]))
    BY ElementOf
  <2> QED BY <1>1, <2>1 DEF Before
<1> QED BY <1>1, <1>2 DEF Counts

LEMMA CountsAt ==
  ASSUME NEW r \in Parts, r.kind \in {"filter", "flatten"},
         NEW m, NEW k, <<m, k>> \in Origins(r), NEW n, Counts(r, n, m, k)
  PROVE  n \in DOMAIN Denotes(r) /\ Origin(r)[n] = <<m, k>>
<1>1. Len(Denotes(r)) \in Nat /\ DOMAIN Denotes(r) = 1..Len(Denotes(r))
  BY Kinds
<1>2. PICK j \in DOMAIN Denotes(r) : Origin(r)[j] = <<m, k>>
  BY OriginIs DEF ComeFrom
<1>3. m \in Nat /\ k \in Nat
  BY <1>2, ElementOf
<1>4. ~(j < n)
  BY <1>2, <1>3 DEF Counts, Before
<1>5. ASSUME n < j PROVE FALSE
  <2>1. n \in DOMAIN Denotes(r)
    BY <1>1, <1>5 DEF Counts
  <2>2. Before(Origin(r)[n], Origin(r)[j])
    BY <1>5, <2>1, OriginIs DEF ComeFrom
  <2>3. n < n
    BY <1>2, <2>1, <2>2 DEF Counts
  <2> QED BY <1>1, <2>1, <2>3
<1>6. n = j
  BY <1>1, <1>4, <1>5 DEF Counts
<1> QED BY <1>2, <1>6

LEMMA CountsAll ==
  ASSUME NEW r \in Parts, r.kind \in {"filter", "flatten"},
         NEW n, Counts(r, n, Len(Denotes(r.of)) + 1, 1)
  PROVE  n = Len(Denotes(r)) + 1
<1>1. /\ Len(Denotes(r)) \in Nat /\ DOMAIN Denotes(r) = 1..Len(Denotes(r))
      /\ Len(Denotes(r.of)) \in Nat
  BY Kinds
<1>2. ASSUME n \in DOMAIN Denotes(r) PROVE FALSE
  <2>1. Origin(r)[n][1] \in 1..Len(Denotes(r.of))
    BY <1>2, ElementOf
  <2>2. Before(Origin(r)[n], <<Len(Denotes(r.of)) + 1, 1>>)
    BY <1>1, <2>1 DEF Before
  <2> QED BY <1>1, <1>2, <2>2 DEF Counts
<1> QED BY <1>1, <1>2 DEF Counts

\* Past the last element that is made of the m-th, the count is that of the next.
LEMMA CountsOver ==
  ASSUME NEW r \in Parts, r.kind \in {"filter", "flatten"}, NEW m \in DOMAIN Denotes(r.of),
         NEW n, Counts(r, n, m, Len(Held(r, m)) + 1)
  PROVE  Counts(r, n, m + 1, 1)
<1>1. DOMAIN Denotes(r.of) = 1..Len(Denotes(r.of)) /\ Len(Denotes(r.of)) \in Nat
  BY Kinds
<1>2. m \in Nat /\ Len(Held(r, m)) \in Nat
  BY <1>1, HeldSeq
<1>3. ASSUME NEW j \in DOMAIN Denotes(r)
      PROVE  Before(Origin(r)[j], <<m, Len(Held(r, m)) + 1>>) <=>
               Before(Origin(r)[j], <<m + 1, 1>>)
  <2> DEFINE p == Origin(r)[j][1]
             q == Origin(r)[j][2]
  <2>1. p \in Nat /\ q \in Nat /\ q \in 1..Len(Held(r, p))
    BY ElementOf
  <2>2. q >= 1 /\ (p = m => q <= Len(Held(r, m)))
    BY <2>1
  <2>3. Before(Origin(r)[j], <<m, Len(Held(r, m)) + 1>>) <=>
          p < m \/ (p = m /\ q < Len(Held(r, m)) + 1)
    BY DEF Before
  <2>4. Before(Origin(r)[j], <<m + 1, 1>>) <=> p < m + 1 \/ (p = m + 1 /\ q < 1)
    BY DEF Before
  <2> HIDE DEF p, q
  <2> QED BY <1>2, <2>1, <2>2, <2>3, <2>4
<1> QED BY <1>3, Zenon DEF Counts

LEMMA CountsNext ==
  ASSUME NEW r \in Parts, r.kind \in {"filter", "flatten"}, NEW n \in DOMAIN Denotes(r),
         NEW m, NEW k, Origin(r)[n] = <<m, k>>
  PROVE  Counts(r, n + 1, m, k + 1)
<1>1. Len(Denotes(r)) \in Nat /\ DOMAIN Denotes(r) = 1..Len(Denotes(r))
  BY Kinds
<1>2. m \in Nat /\ k \in Nat
  <2>1. Origin(r)[n][1] \in Nat /\ Origin(r)[n][2] \in Nat
    BY ElementOf
  <2> QED BY <2>1
<1>3. ASSUME NEW j \in DOMAIN Denotes(r)
      PROVE  j < n + 1 <=> Before(Origin(r)[j], <<m, k + 1>>)
  <2> DEFINE p == Origin(r)[j][1]
             q == Origin(r)[j][2]
  <2>1. p \in Nat /\ q \in Nat
    BY ElementOf
  <2>2. j < n => Before(Origin(r)[j], Origin(r)[n])
    BY OriginIs DEF ComeFrom
  <2>3. n < j => Before(Origin(r)[n], Origin(r)[j])
    BY OriginIs DEF ComeFrom
  <2>4. j < n => p < m \/ (p = m /\ q < k)
    BY <2>2 DEF Before
  <2>5. n < j => m < p \/ (m = p /\ k < q)
    BY <2>3 DEF Before
  <2>6. j = n => p = m /\ q = k
    OBVIOUS
  <2>7. Before(Origin(r)[j], <<m, k + 1>>) <=> p < m \/ (p = m /\ q < k + 1)
    BY DEF Before
  <2>8. n \in Nat /\ j \in Nat
    BY <1>1
  <2> HIDE DEF p, q
  <2>9. j < n \/ j = n \/ n < j
    BY <2>8
  <2> QED BY <1>2, <2>1, <2>4, <2>5, <2>6, <2>7, <2>8, <2>9
<1>4. n + 1 \in 1..Len(Denotes(r)) + 1
  BY <1>1
<1> QED BY <1>3, <1>4 DEF Counts

\* n and m fit together: the n-th element is made of the m-th below.
AtPlace(r, m, n) ==
  IF m \notin DOMAIN Denotes(r.of) THEN n = Len(Denotes(r)) + 1
  ELSE n \in DOMAIN Denotes(r) /\ Origin(r)[n][1] = m

LEMMA PlaceAt ==
  ASSUME NEW r \in Parts, r.kind \in {"filter", "flatten"},
         NEW m \in 1..Len(Denotes(r.of)) + 1, NEW n, AtPlace(r, m, n)
  PROVE  /\ n \in 1..Len(Denotes(r)) + 1 /\ (n <= Len(Denotes(r)) <=> n \in DOMAIN Denotes(r))
         /\ n = Len(Denotes(r)) + 1 <=> m = Len(Denotes(r.of)) + 1
         /\ n <= Len(Denotes(r)) => m <= Len(Denotes(r.of)) /\ m \in DOMAIN Denotes(r.of)
                                    /\ Origin(r)[n][1] = m
<1>1. /\ Len(Denotes(r)) \in Nat /\ DOMAIN Denotes(r) = 1..Len(Denotes(r))
      /\ Len(Denotes(r.of)) \in Nat /\ DOMAIN Denotes(r.of) = 1..Len(Denotes(r.of))
  BY Kinds
<1>2. CASE m \in DOMAIN Denotes(r.of)
  BY <1>1, <1>2 DEF AtPlace
<1>3. CASE m \notin DOMAIN Denotes(r.of)
  BY <1>1, <1>3 DEF AtPlace
<1> QED BY <1>2, <1>3

\* An iterator that a bump may be given: it is in front of the k-th element
\* that is made of the m-th, or of where there is none.
Enters(r, i, mk, k) ==
  LET d == Dereferenced(r.of, i.it, mk)
  IN  i = [it |-> d.it, sub |-> <<d.val, k>>] /\ d.made = mk

ReadyAt(r, i, mk, m, k) ==
  /\ Stands(r.of, i.it, mk, m)
  /\ IF r.kind = "filter" \/ m \notin DOMAIN Denotes(r.of) THEN k = 1
     ELSE Enters(r, i, mk, k) /\ k \in 1..Len(Held(r, m)) + 1
  /\ r.kind = "filter" => i = [it |-> i.it]

\* The bump finds the element that is next.
Bumps(r, i, mk, m, k) ==
  \A n : Counts(r, n, m, k) =>
    LET b == BumpedOf(r, i, mk) IN Stands(r, b.it, b.made, n) /\ IsPrefix(mk, b.made)

LEMMA BumpsAll ==
  ASSUME NEW r \in Parts, r.kind \in {"filter", "flatten"}, Sound(r.of),
         \A i, mk, m, k :
           /\ ReadyAt(r, i, mk, m, k)
           /\ \A j, more, l : ReadyAt(r, j, more, m + 1, l) => Bumps(r, j, more, m + 1, l)
           => Bumps(r, i, mk, m, k)
  PROVE  \A i, mk, m, k : ReadyAt(r, i, mk, m, k) => Bumps(r, i, mk, m, k)
<1> DEFINE last == Len(Denotes(r.of)) + 1
           Bad(m) == \E i, mk, k : ReadyAt(r, i, mk, m, k) /\ ~Bumps(r, i, mk, m, k)
           S == {m \in 1..last : Bad(m)}
<1>1. ASSUME NEW m, Bad(m) PROVE m \in 1..last
  <2>1. PICK i, mk, k : ReadyAt(r, i, mk, m, k)
    BY <1>1
  <2>2. Stands(r.of, i.it, mk, m)
    BY <2>1 DEF ReadyAt
  <2> QED BY <2>2, SoundPlace
<1>2. ASSUME NEW m, Bad(m) PROVE Bad(m + 1)
  <2>1. PICK i, mk, k : ReadyAt(r, i, mk, m, k) /\ ~Bumps(r, i, mk, m, k)
    BY <1>2
  <2> QED BY <2>1, Zenon
<1> HIDE DEF Bad
<1>3. S = {}
  <2>1. \A m \in S : m + 1 \in S
    BY <1>1, <1>2
  <2>2. S \subseteq 1..last
    OBVIOUS
  <2>3. last \in Int
    BY Kinds
  <2> HIDE DEF S, last
  <2> QED BY <2>1, <2>2, <2>3, NoneUpward
<1>4. ASSUME NEW m, Bad(m) PROVE FALSE
  BY <1>1, <1>3, <1>4
<1> QED BY <1>4, Zenon DEF Bad
-----------------------------------------------------------------------------
(* Filter. *)

LEMMA FilterIs ==
  ASSUME Unfolded, NEW r \in Parts, r.kind = "filter"
  PROVE  /\ EndOf(r) = [it |-> EndOf(r.of)]
         /\ \A i, j : Equal(r, i, j) <=> Equal(r.of, i.it, j.it)
         /\ \A i, mk : LET s == Incremented(r.of, i.it, mk) IN
              Incremented(r, i, mk) = BumpedOf(r, [it |-> s.it], s.made)
         /\ \A mk : LET b == BeginOf(r.of, mk) IN
              BeginOf(r, mk) = BumpedOf(r, [it |-> b.it], b.made)
         /\ \A i, mk : LET d == Dereferenced(r.of, i.it, mk) IN
              Dereferenced(r, i, mk) = [it |-> [it |-> d.it], val |-> d.val, made |-> d.made]
<1>1. EndOf(r) = [it |-> EndOf(r.of)]
  BY Zenon DEF Unfolded, Unfolds, End
<1>2. \A i, j : Equal(r, i, j) <=> Equal(r.of, i.it, j.it)
  BY DEF Unfolded, Unfolds, Same
<1>3. \A i, mk : LET s == Incremented(r.of, i.it, mk) IN
        Incremented(r, i, mk) = BumpedOf(r, [it |-> s.it], s.made)
  BY Zenon DEF Unfolded, Unfolds, Step
<1>4. \A mk : LET b == BeginOf(r.of, mk) IN
        BeginOf(r, mk) = BumpedOf(r, [it |-> b.it], b.made)
  BY Zenon DEF Unfolded, Unfolds, Begin
<1>5. \A i, mk : LET d == Dereferenced(r.of, i.it, mk) IN
        Dereferenced(r, i, mk) = [it |-> [it |-> d.it], val |-> d.val, made |-> d.made]
  BY Zenon DEF Unfolded, Unfolds, Deref
<1> QED BY <1>1, <1>2, <1>3, <1>4, <1>5

LEMMA FilterBump ==
  ASSUME Unfolded, NEW r \in Parts, r.kind = "filter", NEW i, NEW mk,
         NEW d, d = Dereferenced(r.of, i.it, mk),
         NEW s, s = Incremented(r.of, d.it, d.made)
  PROVE  BumpedOf(r, i, mk) =
           IF AtEnd(r.of, i.it) THEN [it |-> i, made |-> mk]
           ELSE IF d.val \in r.pred THEN [it |-> [it |-> d.it], made |-> d.made]
           ELSE BumpedOf(r, [it |-> s.it], s.made)
<1>1. BumpedOf(r, i, mk) = Bumped(r, i, mk)
  BY DEF Unfolded, Unfolds
<1> QED BY <1>1, Zenon DEF Bumped, Passed

LEMMA FilterStands ==
  ASSUME Unfolded, NEW r \in Parts, r.kind = "filter", NEW i, NEW mk, NEW n
  PROVE  Stands(r, i, mk, n) <=>
           \E m \in 1..Len(Denotes(r.of)) + 1 : Stands(r.of, i.it, mk, m) /\ AtPlace(r, m, n)
<1>1. Stands(r, i, mk, n) <=> StandsAt(r, i, mk, n)
  BY DEF Unfolded, Unfolds
<1> QED BY <1>1 DEF StandsAt, AtPlace

\* A filter makes one element of another, itself, or none.
LEMMA FilterHeld ==
  ASSUME NEW r \in Parts, r.kind = "filter", NEW m \in DOMAIN Denotes(r.of)
  PROVE  /\ Denotes(r.of)[m] \in r.pred => /\ Len(Held(r, m)) = 1 /\ <<m, 1>> \in Origins(r)
                                           /\ Held(r, m)[1] = Denotes(r.of)[m]
         /\ Denotes(r.of)[m] \notin r.pred => Len(Held(r, m)) = 0
<1>1. Held(r, m) = IF Denotes(r.of)[m] \in r.pred THEN <<Denotes(r.of)[m]>> ELSE <<>>
  BY DEF Held
<1>2. DOMAIN Denotes(r.of) = 1..Len(Denotes(r.of))
  BY Kinds
<1>3. \A k : <<m, k>> \in Origins(r) <=>
               m \in 1..Len(Denotes(r.of)) /\ k \in 1..Len(Held(r, m))
  BY PlaceOf
<1> QED BY <1>1, <1>2, <1>3

LEMMA FilterElement ==
  ASSUME NEW r \in Parts, r.kind = "filter", NEW n \in DOMAIN Denotes(r),
         NEW m, m = Origin(r)[n][1]
  PROVE  /\ m \in DOMAIN Denotes(r.of) /\ Origin(r)[n] = <<m, 1>>
         /\ Denotes(r)[n] = Denotes(r.of)[m] /\ Denotes(r.of)[m] \in r.pred
<1>1. PICK k : k = Origin(r)[n][2]
  OBVIOUS
<1>2. /\ Origin(r)[n] = <<m, k>> /\ m \in 1..Len(Denotes(r.of)) /\ k \in 1..Len(Held(r, m))
      /\ Denotes(r)[n] = Held(r, m)[k]
  <2>1. r.kind \in {"filter", "flatten"}
    OBVIOUS
  <2>2. Origin(r)[n] = <<m, k>>
    BY <1>1, <2>1, ElementOf
  <2>3. m \in 1..Len(Denotes(r.of))
    BY <2>1, ElementOf
  <2>4. k \in 1..Len(Held(r, m))
    BY <1>1, <2>1, ElementOf
  <2>5. Denotes(r)[n] = Held(r, m)[k]
    BY <1>1, <2>1, ElementOf
  <2> QED BY <2>2, <2>3, <2>4, <2>5
<1>3. m \in DOMAIN Denotes(r.of)
  BY <1>2, Kinds
<1>4. Denotes(r.of)[m] \in r.pred /\ k = 1
  <2>1. Denotes(r.of)[m] \in r.pred => Len(Held(r, m)) = 1
    BY <1>3, FilterHeld
  <2>2. Denotes(r.of)[m] \notin r.pred => Len(Held(r, m)) = 0
    BY <1>3, FilterHeld
  <2> QED BY <1>2, <2>1, <2>2
<1>5. Held(r, m)[1] = Denotes(r.of)[m]
  BY <1>3, <1>4, FilterHeld
<1> QED BY <1>2, <1>3, <1>4, <1>5

LEMMA FilterBumps ==
  ASSUME Unfolded, NEW r \in Parts, r.kind = "filter", Sound(r.of)
  PROVE  \A i, mk, m, k : ReadyAt(r, i, mk, m, k) => Bumps(r, i, mk, m, k)
<1> DEFINE last == Len(Denotes(r.of)) + 1
<1>1. ASSUME NEW i, NEW mk, NEW m, NEW k, ReadyAt(r, i, mk, m, k),
             \A j, more, l : ReadyAt(r, j, more, m + 1, l) => Bumps(r, j, more, m + 1, l),
             NEW n, Counts(r, n, m, k), NEW b, b = BumpedOf(r, i, mk)
      PROVE  Stands(r, b.it, b.made, n) /\ IsPrefix(mk, b.made)
  <2>1. Stands(r.of, i.it, mk, m) /\ k = 1 /\ i = [it |-> i.it]
    BY <1>1 DEF ReadyAt
  <2>2. /\ m \in 1..last /\ mk \in Made /\ (AtEnd(r.of, i.it) <=> m = last)
        /\ IsPrefix(mk, mk)
    BY <2>1, SoundPlace, PrefixOrder
  <2>3. last - 1 \in Nat /\ DOMAIN Denotes(r.of) = 1..last - 1
    BY Kinds
  <2>4. PICK d : d = Dereferenced(r.of, i.it, mk)
    OBVIOUS
  <2>5. PICK s : s = Incremented(r.of, d.it, d.made)
    OBVIOUS
  <2>6. b = IF AtEnd(r.of, i.it) THEN [it |-> i, made |-> mk]
            ELSE IF d.val \in r.pred THEN [it |-> [it |-> d.it], made |-> d.made]
            ELSE BumpedOf(r, [it |-> s.it], s.made)
    BY <1>1, <2>4, <2>5, FilterBump
  <2>7. CASE m = last
    <3>1. b.it = i /\ b.made = mk
      BY <2>2, <2>6, <2>7
    <3>2. n = Len(Denotes(r)) + 1
      BY <1>1, <2>1, <2>7, CountsAll
    <3>3. AtPlace(r, m, n)
      BY <2>3, <2>7, <3>2 DEF AtPlace
    <3> QED BY <2>1, <2>2, <3>1, <3>3, FilterStands
  <2>8. CASE m # last
    <3>1. m \in DOMAIN Denotes(r.of) /\ m \in 1..last - 1 /\ ~AtEnd(r.of, i.it)
      BY <2>2, <2>3, <2>8
    <3>2. /\ Means(r.of, d.val, Denotes(r.of)[m], d.made) /\ Stands(r.of, d.it, d.made, m)
          /\ IsPrefix(mk, d.made) /\ d.made \in Made
      BY <2>1, <2>3, <2>4, <3>1, SoundReads
    <3>3. d.val = Denotes(r.of)[m]
      <4>1. IsOver(r)
        BY Kinds
      <4> QED BY <3>2, <4>1 DEF IsOver, Means
    <3>4. CASE d.val \in r.pred
      <4>1. b.it.it = d.it /\ b.made = d.made
        BY <2>6, <3>1, <3>4
      <4>2. <<m, 1>> \in Origins(r)
        BY <3>1, <3>3, <3>4, FilterHeld
      <4>3. n \in DOMAIN Denotes(r) /\ Origin(r)[n] = <<m, 1>>
        BY <1>1, <2>1, <4>2, CountsAt
      <4>4. AtPlace(r, m, n)
        BY <3>1, <4>3 DEF AtPlace
      <4> QED BY <2>2, <3>2, <4>1, <4>4, FilterStands
    <3>5. CASE d.val \notin r.pred
      <4>1. b = BumpedOf(r, [it |-> s.it], s.made)
        BY <2>6, <3>1, <3>5
      <4>2. Stands(r.of, s.it, s.made, m + 1) /\ IsPrefix(d.made, s.made) /\ s.made \in Made
        BY <2>3, <2>5, <3>1, <3>2, SoundSteps
      <4>3. ReadyAt(r, [it |-> s.it], s.made, m + 1, 1)
        BY <4>2 DEF ReadyAt
      <4>4. Bumps(r, [it |-> s.it], s.made, m + 1, 1)
        BY <1>1, <4>3, Zenon
      <4>5. Len(Held(r, m)) + 1 = 1
        <5>1. Len(Held(r, m)) = 0
          BY <3>1, <3>3, <3>5, FilterHeld
        <5> QED BY <5>1
      <4>6. Counts(r, n, m + 1, 1)
        BY <1>1, <2>1, <3>1, <4>5, CountsOver
      <4>7. Stands(r, b.it, b.made, n) /\ IsPrefix(s.made, b.made)
        BY <4>1, <4>4, <4>6 DEF Bumps
      <4>8. b.made \in Made
        <5>1. PICK l : Stands(r.of, b.it.it, b.made, l)
          BY <4>7, FilterStands
        <5> QED BY <5>1, SoundPlace
      <4>9. IsPrefix(mk, s.made)
        BY <2>2, <3>2, <4>2, PrefixOrder
      <4> QED BY <2>2, <4>2, <4>7, <4>8, <4>9, PrefixOrder
    <3> QED BY <3>4, <3>5
  <2> QED BY <2>7, <2>8
<1>2. \A i, mk, m, k :
           /\ ReadyAt(r, i, mk, m, k)
           /\ \A j, more, l : ReadyAt(r, j, more, m + 1, l) => Bumps(r, j, more, m + 1, l)
           => Bumps(r, i, mk, m, k)
  BY <1>1, Zenon DEF Bumps
<1> QED BY <1>2, BumpsAll, Zenon

LEMMA FilterStandsAt ==
  ASSUME Unfolded, NEW r \in Parts, r.kind = "filter", Sound(r.of), NEW i, NEW mk, NEW n,
         Stands(r, i, mk, n)
  PROVE  /\ \E m \in 1..Len(Denotes(r.of)) + 1 :
              /\ Stands(r.of, i.it, mk, m) /\ AtPlace(r, m, n)
              /\ AtEnd(r.of, i.it) <=> n = Len(Denotes(r)) + 1
              /\ n <= Len(Denotes(r)) =>
                   /\ n \in DOMAIN Denotes(r) /\ m <= Len(Denotes(r.of))
                   /\ Origin(r)[n] = <<m, 1>> /\ Denotes(r)[n] = Denotes(r.of)[m]
                   /\ m \in DOMAIN Denotes(r.of) /\ Denotes(r.of)[m] \in r.pred
         /\ mk \in Made /\ n \in 1..Len(Denotes(r)) + 1
<1>1. PICK m \in 1..Len(Denotes(r.of)) + 1 : Stands(r.of, i.it, mk, m) /\ AtPlace(r, m, n)
  BY FilterStands
<1>2. mk \in Made /\ (AtEnd(r.of, i.it) <=> m = Len(Denotes(r.of)) + 1)
  BY <1>1, SoundPlace
<1>3. /\ n \in 1..Len(Denotes(r)) + 1 /\ (n <= Len(Denotes(r)) <=> n \in DOMAIN Denotes(r))
      /\ n = Len(Denotes(r)) + 1 <=> m = Len(Denotes(r.of)) + 1
      /\ n <= Len(Denotes(r)) => m <= Len(Denotes(r.of)) /\ m \in DOMAIN Denotes(r.of)
                                 /\ Origin(r)[n][1] = m
  BY <1>1, PlaceAt
<1>4. ASSUME n <= Len(Denotes(r))
      PROVE  /\ Origin(r)[n] = <<m, 1>> /\ Denotes(r)[n] = Denotes(r.of)[m]
             /\ Denotes(r.of)[m] \in r.pred
  BY <1>3, <1>4, FilterElement
<1> QED BY <1>1, <1>2, <1>3, <1>4, Zenon

LEMMA FilterSoundAt ==
  ASSUME Unfolded, NEW r \in Parts, r.kind = "filter", Sound(r.of), NEW i, NEW mk, NEW n,
         Stands(r, i, mk, n)
  PROVE  SoundAt(r, i, mk, n) /\ LastsAt(r, i, mk, n)
<1>1. PICK m \in 1..Len(Denotes(r.of)) + 1 :
        /\ Stands(r.of, i.it, mk, m) /\ AtPlace(r, m, n)
        /\ AtEnd(r.of, i.it) <=> n = Len(Denotes(r)) + 1
        /\ n <= Len(Denotes(r)) =>
             /\ n \in DOMAIN Denotes(r) /\ m <= Len(Denotes(r.of))
             /\ Origin(r)[n] = <<m, 1>> /\ Denotes(r)[n] = Denotes(r.of)[m]
             /\ m \in DOMAIN Denotes(r.of) /\ Denotes(r.of)[m] \in r.pred
  BY FilterStandsAt
<1>2. mk \in Made /\ n \in 1..Len(Denotes(r)) + 1
  BY FilterStandsAt
<1>3. ~Copies(r) /\ ~Copies(r.of)
  <2>1. IsOver(r)
    BY Kinds
  <2> QED BY <2>1 DEF IsOver, Copies
<1>4. AtEnd(r, i) <=> AtEnd(r.of, i.it)
  <2>1. EndOf(r).it = EndOf(r.of) /\ (Equal(r, i, EndOf(r)) <=> Equal(r.of, i.it, EndOf(r).it))
    BY FilterIs
  <2> QED BY <2>1 DEF AtEnd
<1>5. ASSUME n <= Len(Denotes(r)) PROVE ReadsAt(r, i, mk, n)
  <2>1. PICK d : d = Dereferenced(r.of, i.it, mk)
    OBVIOUS
  <2>2. PICK e : e = Dereferenced(r, i, mk)
    OBVIOUS
  <2>3. PICK f : f = Dereferenced(r, e.it, e.made)
    OBVIOUS
  <2>4. /\ Means(r.of, d.val, Denotes(r.of)[m], d.made) /\ Stands(r.of, d.it, d.made, m)
        /\ IsPrefix(mk, d.made) /\ Settled(r.of, d.it, d.made, d.val)
    BY <1>1, <1>5, <2>1, SoundReads
  <2>5. e.it = [it |-> d.it] /\ e.val = d.val /\ e.made = d.made /\ e.it.it = d.it
    BY <2>1, <2>2, FilterIs
  <2>6. e.val = Denotes(r)[n]
    BY <1>1, <1>3, <1>5, <2>4, <2>5 DEF Means
  <2>7. Stands(r, e.it, e.made, n)
    BY <1>1, <2>4, <2>5, FilterStands
  <2>8. PICK g : g = Dereferenced(r.of, d.it, d.made)
    OBVIOUS
  <2>9. g.it = d.it /\ g.val = d.val /\ g.made = d.made
    BY <2>4, <2>8 DEF Settled
  <2>10. f = [it |-> [it |-> g.it], val |-> g.val, made |-> g.made]
    BY <2>3, <2>5, <2>8, FilterIs
  <2>11. f.it = e.it /\ f.val = e.val /\ f.made = e.made
    BY <2>5, <2>9, <2>10
  <2> QED BY <1>3, <2>2, <2>3, <2>4, <2>5, <2>6, <2>7, <2>11 DEF ReadsAt, Means, Settled
<1>6. ASSUME n <= Len(Denotes(r)) PROVE StepsAt(r, i, mk, n)
  <2>1. PICK s : s = Incremented(r.of, i.it, mk)
    OBVIOUS
  <2>2. PICK b : b = BumpedOf(r, [it |-> s.it], s.made)
    OBVIOUS
  <2>3. Incremented(r, i, mk) = b
    BY <2>1, <2>2, FilterIs
  <2>4. Stands(r.of, s.it, s.made, m + 1) /\ IsPrefix(mk, s.made) /\ s.made \in Made
    BY <1>1, <1>6, <2>1, SoundSteps
  <2>5. ReadyAt(r, [it |-> s.it], s.made, m + 1, 1)
    BY <2>4 DEF ReadyAt
  <2>6. Counts(r, n + 1, m, 1 + 1)
    BY <1>1, <1>6, CountsNext
  <2>7. Len(Held(r, m)) = 1
    BY <1>1, <1>6, FilterHeld
  <2>8. Counts(r, n + 1, m + 1, 1)
    BY <1>1, <1>6, <2>6, <2>7, CountsOver
  <2>9. Bumps(r, [it |-> s.it], s.made, m + 1, 1)
    BY <2>5, FilterBumps, Zenon
  <2>10. Stands(r, b.it, b.made, n + 1) /\ IsPrefix(s.made, b.made)
    BY <2>2, <2>8, <2>9 DEF Bumps
  <2>11. b.made \in Made
    BY <2>10, FilterStandsAt
  <2>12. IsPrefix(mk, b.made)
    BY <1>2, <2>4, <2>10, <2>11, PrefixOrder
  <2> QED BY <2>3, <2>10, <2>12 DEF StepsAt
<1>7. ASSUME NEW more \in Made, IsPrefix(mk, more)
      PROVE  /\ Stands(r, i, more, n)
             /\ n <= Len(Denotes(r)) => \A v : Settled(r, i, mk, v) => Settled(r, i, more, v)
  <2>1. /\ Stands(r.of, i.it, more, m)
        /\ m <= Len(Denotes(r.of)) =>
             \A v : Settled(r.of, i.it, mk, v) => Settled(r.of, i.it, more, v)
    BY <1>1, <1>7, SoundLasts
  <2>2. Stands(r, i, more, n)
    BY <1>1, <2>1, FilterStands
  <2>3. ASSUME n <= Len(Denotes(r)), NEW v, Settled(r, i, mk, v) PROVE Settled(r, i, more, v)
    <3>1. PICK d : d = Dereferenced(r.of, i.it, mk)
      OBVIOUS
    <3>2. Dereferenced(r, i, mk) = [it |-> [it |-> d.it], val |-> d.val, made |-> d.made]
      BY <3>1, FilterIs
    <3>3. i = [it |-> d.it] /\ v = d.val /\ mk = d.made /\ i.it = d.it
      BY <2>3, <3>2 DEF Settled
    <3>4. Settled(r.of, i.it, mk, v)
      BY <3>1, <3>3 DEF Settled
    <3>5. Settled(r.of, i.it, more, v)
      BY <1>1, <2>1, <2>3, <3>4
    <3>6. PICK e : e = Dereferenced(r.of, i.it, more)
      OBVIOUS
    <3>7. e.it = i.it /\ e.val = v /\ e.made = more
      BY <3>5, <3>6 DEF Settled
    <3>8. Dereferenced(r, i, more) = [it |-> [it |-> e.it], val |-> e.val, made |-> e.made]
      BY <3>6, FilterIs
    <3> QED BY <3>3, <3>7, <3>8 DEF Settled
  <2> QED BY <2>2, <2>3
<1> QED BY <1>1, <1>2, <1>4, <1>5, <1>6, <1>7 DEF SoundAt, LastsAt

LEMMA FilterSound ==
  ASSUME Unfolded, NEW r \in Parts, r.kind = "filter", Sound(r.of)
  PROVE  Sound(r)
<1>1. ASSUME NEW mk \in Made PROVE Opens(r, mk)
  <2>1. PICK a : a = BeginOf(r.of, mk)
    OBVIOUS
  <2>2. PICK b : b = BumpedOf(r, [it |-> a.it], a.made)
    OBVIOUS
  <2>3. BeginOf(r, mk) = b
    BY <2>1, <2>2, FilterIs
  <2>4. /\ Stands(r.of, a.it, a.made, 1) /\ IsPrefix(mk, a.made) /\ a.made \in Made
        /\ Stands(r.of, EndOf(r.of), mk, Len(Denotes(r.of)) + 1)
    BY <2>1, SoundOpens
  <2>5. ReadyAt(r, [it |-> a.it], a.made, 1, 1)
    BY <2>4 DEF ReadyAt
  <2>6. Bumps(r, [it |-> a.it], a.made, 1, 1)
    BY <2>5, FilterBumps, Zenon
  <2>7. Stands(r, b.it, b.made, 1) /\ IsPrefix(a.made, b.made)
    BY <2>2, <2>6, CountsFirst DEF Bumps
  <2>8. b.made \in Made
    BY <2>7, FilterStandsAt
  <2>9. IsPrefix(mk, b.made)
    BY <2>4, <2>7, <2>8, PrefixOrder
  <2>10. Stands(r, EndOf(r), mk, Len(Denotes(r)) + 1)
    <3>1. EndOf(r).it = EndOf(r.of)
      BY FilterIs
    <3>2. Len(Denotes(r.of)) \in Nat /\ DOMAIN Denotes(r.of) = 1..Len(Denotes(r.of))
      BY Kinds
    <3>3. AtPlace(r, Len(Denotes(r.of)) + 1, Len(Denotes(r)) + 1)
      BY <3>2 DEF AtPlace
    <3> QED BY <2>4, <3>1, <3>2, <3>3, FilterStands
  <2> QED BY <2>3, <2>7, <2>9, <2>10 DEF Opens
<1>2. ASSUME NEW i, NEW mk, NEW n, Stands(r, i, mk, n), NEW j, NEW m, Stands(r, j, mk, m), ~Owns(r)
      PROVE  Equal(r, i, j) <=> n = m
  <2>1. PICK x \in 1..Len(Denotes(r.of)) + 1 : Stands(r.of, i.it, mk, x) /\ AtPlace(r, x, n)
    BY <1>2, FilterStands
  <2>2. PICK y \in 1..Len(Denotes(r.of)) + 1 : Stands(r.of, j.it, mk, y) /\ AtPlace(r, y, m)
    BY <1>2, FilterStands
  <2>3. ~Owns(r.of)
    BY <1>2, Kinds
  <2>4. Equal(r, i, j) <=> x = y
    BY <2>1, <2>2, <2>3, SoundCompares, FilterIs
  <2>5. ASSUME n = m PROVE x = y
    <3>1. /\ n \in 1..Len(Denotes(r)) + 1 /\ Len(Denotes(r)) \in Nat
          /\ n = Len(Denotes(r)) + 1 <=> x = Len(Denotes(r.of)) + 1
          /\ n <= Len(Denotes(r)) => Origin(r)[n][1] = x
      BY <2>1, PlaceAt, Kinds
    <3>2. /\ n = Len(Denotes(r)) + 1 <=> y = Len(Denotes(r.of)) + 1
          /\ n <= Len(Denotes(r)) => Origin(r)[n][1] = y
      BY <2>2, <2>5, PlaceAt
    <3> QED BY <3>1, <3>2
  <2>6. ASSUME x = y PROVE n = m
    <3>1. CASE x \notin DOMAIN Denotes(r.of)
      BY <2>1, <2>2, <2>6, <3>1 DEF AtPlace
    <3>2. CASE x \in DOMAIN Denotes(r.of)
      <4>1. /\ n \in DOMAIN Denotes(r) /\ Origin(r)[n][1] = x
            /\ m \in DOMAIN Denotes(r) /\ Origin(r)[m][1] = x
        BY <2>1, <2>2, <2>6, <3>2 DEF AtPlace
      <4>2. Origin(r)[n] = <<x, 1>> /\ Origin(r)[m] = <<x, 1>>
        BY <4>1, FilterElement
      <4> QED BY <4>1, <4>2, SamePlace
    <3> QED BY <3>1, <3>2
  <2> QED BY <2>4, <2>5, <2>6
<1>3. \A i, mk, n : Stands(r, i, mk, n) =>
        \A j, m : Stands(r, j, mk, m) => Comparable(r, i, n, j, m)
  BY <1>2 DEF Comparable
<1>4. \A i, mk, n : Stands(r, i, mk, n) => SoundAt(r, i, mk, n) /\ LastsAt(r, i, mk, n)
  BY FilterSoundAt
<1> QED BY <1>1, <1>3, <1>4, Zenon DEF Sound
-----------------------------------------------------------------------------
(* Flatten. *)

LEMMA FlattenIs ==
  ASSUME Unfolded, NEW r \in Parts, r.kind = "flatten"
  PROVE  /\ EndOf(r) = [it |-> EndOf(r.of), sub |-> Unset]
         /\ \A i, j : Equal(r, i, j) <=> \/ AtEnd(r.of, i.it) /\ AtEnd(r.of, j.it)
                                         \/ Equal(r.of, i.it, j.it) /\ i.sub = j.sub
         /\ \A i, mk : Dereferenced(r, i, mk) =
              [it |-> i, val |-> Elems(i.sub[1], mk)[i.sub[2]], made |-> mk]
         /\ \A mk : LET b == BeginOf(r.of, mk)
                        e == Entered(r, [it |-> b.it, sub |-> Unset], b.made)
                    IN  BeginOf(r, mk) = BumpedOf(r, e.it, e.made)
<1>1. EndOf(r) = [it |-> EndOf(r.of), sub |-> Unset]
  BY Zenon DEF Unfolded, Unfolds, End
<1>2. \A i, j : Equal(r, i, j) <=> \/ AtEnd(r.of, i.it) /\ AtEnd(r.of, j.it)
                                   \/ Equal(r.of, i.it, j.it) /\ i.sub = j.sub
  <2>1. r.kind \notin {"range", "split"} /\ r.kind \notin {"map", "filter"}
    OBVIOUS
  <2>2. \A i, j : Same(r, i, j) <=> \/ AtEnd(r.of, i.it) /\ AtEnd(r.of, j.it)
                                    \/ Equal(r.of, i.it, j.it) /\ i.sub = j.sub
    BY <2>1, Zenon DEF Same
  <2>3. \A i, j : Equal(r, i, j) = Same(r, i, j)
    BY Zenon DEF Unfolded, Unfolds
  <2> QED BY <2>2, <2>3
<1>3. \A i, mk : Dereferenced(r, i, mk) =
        [it |-> i, val |-> Elems(i.sub[1], mk)[i.sub[2]], made |-> mk]
  BY Zenon DEF Unfolded, Unfolds, Deref
<1>4. \A mk : LET b == BeginOf(r.of, mk)
                  e == Entered(r, [it |-> b.it, sub |-> Unset], b.made)
              IN  BeginOf(r, mk) = BumpedOf(r, e.it, e.made)
  BY Zenon DEF Unfolded, Unfolds, Begin
<1> QED BY <1>1, <1>2, <1>3, <1>4, Zenon

LEMMA FlattenIncrement ==
  ASSUME Unfolded, NEW r \in Parts, r.kind = "flatten", NEW i, NEW mk
  PROVE  Incremented(r, i, mk) =
           BumpedOf(r, [i EXCEPT !.sub = <<i.sub[1], i.sub[2] + 1>>], mk)
BY Zenon DEF Unfolded, Unfolds, Step

LEMMA FlattenBump ==
  ASSUME Unfolded, NEW r \in Parts, r.kind = "flatten", NEW i, NEW mk,
         NEW d, d = Dereferenced(r.of, i.it, mk),
         NEW s, s = Incremented(r.of, d.it, d.made)
  PROVE  BumpedOf(r, i, mk) =
           IF AtEnd(r.of, i.it) THEN [it |-> i, made |-> mk]
           ELSE IF Exhausted(i, d)
                THEN Beyond(r, [it |-> [it |-> s.it, sub |-> i.sub], made |-> s.made])
           ELSE [it |-> [it |-> d.it, sub |-> i.sub], made |-> d.made]
<1>1. BumpedOf(r, i, mk) = Bumped(r, i, mk) /\ r.kind # "filter"
  BY DEF Unfolded, Unfolds
<1> QED BY <1>1, Zenon DEF Bumped

LEMMA FlattenStands ==
  ASSUME Unfolded, NEW r \in Parts, r.kind = "flatten", NEW i, NEW mk, NEW n
  PROVE  Stands(r, i, mk, n) <=>
           \E m \in 1..Len(Denotes(r.of)) + 1 :
             /\ Stands(r.of, i.it, mk, m) /\ AtPlace(r, m, n)
             /\ m \in DOMAIN Denotes(r.of) => Enters(r, i, mk, Origin(r)[n][2])
<1>1. Stands(r, i, mk, n) <=> StandsAt(r, i, mk, n)
  BY DEF Unfolded, Unfolds
<1> QED BY <1>1 DEF StandsAt, AtPlace, Enters

\* The collection that is entered is the one that is held.
LEMMA ElemsAre ==
  ASSUME NEW r \in Parts, r.kind = "flatten", NEW m \in DOMAIN Denotes(r.of),
         NEW mk \in Made, NEW v, Means(r.of, v, Denotes(r.of)[m], mk)
  PROVE  Elems(v, mk) = Held(r, m)
<1>1. Held(r, m) = Store[-Denotes(r.of)[m]]
  BY DEF Held
<1>2. CASE Copies(r.of)
  <2>1. v \in DOMAIN mk /\ mk[v].val = Denotes(r.of)[m]
    BY <1>2 DEF Means
  <2>2. v \in Nat /\ v > 0
    BY <2>1, MadeKeeps, PrefixOrder
  <2> QED BY <1>1, <2>1, <2>2 DEF Elems
<1>3. CASE ~Copies(r.of)
  <2>1. IsOver(r) /\ Denotes(r.of) \in Seq(Int)
    BY Kinds
  <2>2. Denotes(r.of)[m] \in ToSet(Denotes(r.of)) /\ Denotes(r.of)[m] \in Int
    BY <2>1 DEF ToSet
  <2>3. Denotes(r.of)[m] < 0
    BY <2>1, <2>2 DEF IsOver
  <2>4. v = Denotes(r.of)[m]
    BY <1>3 DEF Means
  <2>5. ~(v > 0)
    BY <2>2, <2>3, <2>4
  <2> QED BY <1>1, <2>4, <2>5 DEF Elems
<1> QED BY <1>2, <1>3

LEMMA EnteredReady ==
  ASSUME NEW r \in Parts, r.kind = "flatten", Sound(r.of), NEW i, NEW mk, NEW m,
         Stands(r.of, i.it, mk, m), NEW e, e = Entered(r, i, mk)
  PROVE  ReadyAt(r, e.it, e.made, m, 1) /\ IsPrefix(mk, e.made) /\ e.made \in Made
<1>1. /\ m \in 1..Len(Denotes(r.of)) + 1 /\ mk \in Made /\ IsPrefix(mk, mk)
      /\ AtEnd(r.of, i.it) <=> m = Len(Denotes(r.of)) + 1
  BY SoundPlace, PrefixOrder
<1>2. Len(Denotes(r.of)) \in Nat /\ DOMAIN Denotes(r.of) = 1..Len(Denotes(r.of))
  BY Kinds
<1>3. CASE AtEnd(r.of, i.it)
  <2>1. e.it = i /\ e.made = mk
    BY <1>3 DEF Entered
  <2>2. m \notin DOMAIN Denotes(r.of)
    BY <1>1, <1>2, <1>3
  <2> QED BY <1>1, <2>1, <2>2 DEF ReadyAt
<1>4. CASE ~AtEnd(r.of, i.it)
  <2>1. PICK d : d = Dereferenced(r.of, i.it, mk)
    OBVIOUS
  <2>2. e = [it |-> [it |-> d.it, sub |-> <<d.val, 1>>], made |-> d.made]
    BY <1>4, <2>1 DEF Entered
  <2>3. e.it = [it |-> d.it, sub |-> <<d.val, 1>>] /\ e.made = d.made /\ e.it.it = d.it
    BY <2>2
  <2>4. m \in DOMAIN Denotes(r.of) /\ m <= Len(Denotes(r.of))
    BY <1>1, <1>2, <1>4
  <2>5. /\ Stands(r.of, d.it, d.made, m) /\ IsPrefix(mk, d.made) /\ d.made \in Made
        /\ Settled(r.of, d.it, d.made, d.val)
    BY <2>1, <2>4, SoundReads
  <2>6. PICK f : f = Dereferenced(r.of, e.it.it, e.made)
    OBVIOUS
  <2>7. f.it = d.it /\ f.val = d.val /\ f.made = d.made
    BY <2>3, <2>5, <2>6 DEF Settled
  <2>8. Enters(r, e.it, e.made, 1)
    BY <2>3, <2>6, <2>7 DEF Enters
  <2>9. 1 \in 1..Len(Held(r, m)) + 1
    BY <2>4, HeldSeq
  <2> QED BY <2>3, <2>5, <2>8, <2>9 DEF ReadyAt
<1> QED BY <1>3, <1>4

LEMMA FlattenBumps ==
  ASSUME Unfolded, NEW r \in Parts, r.kind = "flatten", Sound(r.of)
  PROVE  \A i, mk, m, k : ReadyAt(r, i, mk, m, k) => Bumps(r, i, mk, m, k)
<1> DEFINE last == Len(Denotes(r.of)) + 1
<1>1. ASSUME NEW i, NEW mk, NEW m, NEW k, ReadyAt(r, i, mk, m, k),
             \A j, more, l : ReadyAt(r, j, more, m + 1, l) => Bumps(r, j, more, m + 1, l),
             NEW n, Counts(r, n, m, k), NEW b, b = BumpedOf(r, i, mk)
      PROVE  Stands(r, b.it, b.made, n) /\ IsPrefix(mk, b.made)
  <2>1. Stands(r.of, i.it, mk, m)
    BY <1>1 DEF ReadyAt
  <2>2. /\ m \in 1..last /\ mk \in Made /\ (AtEnd(r.of, i.it) <=> m = last)
        /\ IsPrefix(mk, mk)
    BY <2>1, SoundPlace, PrefixOrder
  <2>3. last - 1 \in Nat /\ DOMAIN Denotes(r.of) = 1..last - 1
    BY Kinds
  <2>4. PICK d : d = Dereferenced(r.of, i.it, mk)
    OBVIOUS
  <2>5. PICK s : s = Incremented(r.of, d.it, d.made)
    OBVIOUS
  <2>6. b = IF AtEnd(r.of, i.it) THEN [it |-> i, made |-> mk]
            ELSE IF Exhausted(i, d)
                 THEN Beyond(r, [it |-> [it |-> s.it, sub |-> i.sub], made |-> s.made])
            ELSE [it |-> [it |-> d.it, sub |-> i.sub], made |-> d.made]
    BY <1>1, <2>4, <2>5, FlattenBump
  <2>7. CASE m = last
    <3>1. b.it = i /\ b.made = mk
      BY <2>2, <2>6, <2>7
    <3>2. m \notin DOMAIN Denotes(r.of)
      BY <2>3, <2>7
    <3>3. k = 1
      BY <1>1, <3>2 DEF ReadyAt
    <3>4. n = Len(Denotes(r)) + 1
      BY <1>1, <2>7, <3>3, CountsAll
    <3>5. AtPlace(r, m, n)
      BY <3>2, <3>4 DEF AtPlace
    <3> QED BY <2>1, <2>2, <3>1, <3>2, <3>5, FlattenStands
  <2>8. CASE m # last
    <3>1. m \in DOMAIN Denotes(r.of) /\ m \in 1..last - 1 /\ ~AtEnd(r.of, i.it)
          /\ m <= Len(Denotes(r.of))
      BY <2>2, <2>3, <2>8
    <3>2. Enters(r, i, mk, k) /\ k \in 1..Len(Held(r, m)) + 1
      BY <1>1, <3>1 DEF ReadyAt
    <3>3. i = [it |-> d.it, sub |-> <<d.val, k>>] /\ d.made = mk /\ i.sub = <<d.val, k>>
          /\ i.it = d.it
      BY <2>4, <3>2 DEF Enters
    <3>4. Means(r.of, d.val, Denotes(r.of)[m], mk)
      BY <2>1, <2>4, <3>1, <3>3, SoundReads
    <3>5. Elems(d.val, mk) = Held(r, m)
      BY <2>2, <3>1, <3>4, ElemsAre
    <3>6. Exhausted(i, d) <=> k = Len(Held(r, m)) + 1
      BY <3>3, <3>5 DEF Exhausted
    <3>7. Len(Held(r, m)) \in Nat
      BY <3>1, HeldSeq
    <3>8. CASE k = Len(Held(r, m)) + 1
      <4>1. PICK a : a = [it |-> s.it, sub |-> i.sub]
        OBVIOUS
      <4>2. PICK e : e = Entered(r, a, s.made)
        OBVIOUS
      <4>3. b = BumpedOf(r, e.it, e.made)
        <5>1. b = Beyond(r, [it |-> a, made |-> s.made])
          BY <2>6, <3>1, <3>6, <3>8, <4>1
        <5> QED BY <4>2, <5>1 DEF Beyond
      <4>4. Stands(r.of, s.it, s.made, m + 1) /\ IsPrefix(mk, s.made) /\ s.made \in Made
        BY <2>1, <2>5, <3>1, <3>3, SoundSteps
      <4>5. Stands(r.of, a.it, s.made, m + 1)
        BY <4>1, <4>4
      <4>6. ReadyAt(r, e.it, e.made, m + 1, 1) /\ IsPrefix(s.made, e.made) /\ e.made \in Made
        BY <4>2, <4>5, EnteredReady
      <4>7. Bumps(r, e.it, e.made, m + 1, 1)
        BY <1>1, <4>6, Zenon
      <4>8. Counts(r, n, m + 1, 1)
        BY <1>1, <3>1, <3>8, CountsOver
      <4>9. Stands(r, b.it, b.made, n) /\ IsPrefix(e.made, b.made)
        BY <4>3, <4>7, <4>8 DEF Bumps
      <4>10. b.made \in Made
        <5>1. PICK l : Stands(r.of, b.it.it, b.made, l)
          BY <4>9, FlattenStands
        <5> QED BY <5>1, SoundPlace
      <4>11. IsPrefix(mk, e.made)
        BY <2>2, <4>4, <4>6, PrefixOrder
      <4> QED BY <2>2, <4>6, <4>9, <4>10, <4>11, PrefixOrder
    <3>9. CASE k # Len(Held(r, m)) + 1
      <4>1. b.it = i /\ b.made = mk
        BY <2>6, <3>1, <3>3, <3>6, <3>9
      <4>2. <<m, k>> \in Origins(r)
        <5>1. k \in 1..Len(Held(r, m)) /\ m \in 1..Len(Denotes(r.of))
          BY <2>3, <3>1, <3>2, <3>7, <3>9
        <5> QED BY <5>1, PlaceOf
      <4>3. n \in DOMAIN Denotes(r) /\ Origin(r)[n] = <<m, k>>
        BY <1>1, <4>2, CountsAt
      <4>4. AtPlace(r, m, n) /\ Origin(r)[n][2] = k
        BY <3>1, <4>3 DEF AtPlace
      <4> QED BY <2>1, <2>2, <3>2, <4>1, <4>4, FlattenStands
    <3> QED BY <3>8, <3>9
  <2> QED BY <2>7, <2>8
<1>2. \A i, mk, m, k :
           /\ ReadyAt(r, i, mk, m, k)
           /\ \A j, more, l : ReadyAt(r, j, more, m + 1, l) => Bumps(r, j, more, m + 1, l)
           => Bumps(r, i, mk, m, k)
  BY <1>1, Zenon DEF Bumps
<1> QED BY <1>2, BumpsAll, Zenon

\* Where a Flatten iterator is at an element.
Inside(r, i, mk, n, m, k) ==
  /\ n \in DOMAIN Denotes(r) /\ m \in DOMAIN Denotes(r.of) /\ m <= Len(Denotes(r.of))
  /\ Origin(r)[n] = <<m, k>> /\ k \in 1..Len(Held(r, m)) /\ Denotes(r)[n] = Held(r, m)[k]
  /\ Enters(r, i, mk, k)

LEMMA FlattenStandsAt ==
  ASSUME Unfolded, NEW r \in Parts, r.kind = "flatten", Sound(r.of), NEW i, NEW mk, NEW n,
         Stands(r, i, mk, n)
  PROVE  /\ \E m \in 1..Len(Denotes(r.of)) + 1 :
              /\ Stands(r.of, i.it, mk, m) /\ AtPlace(r, m, n)
              /\ AtEnd(r.of, i.it) <=> n = Len(Denotes(r)) + 1
              /\ n <= Len(Denotes(r)) => \E k : Inside(r, i, mk, n, m, k)
         /\ mk \in Made /\ n \in 1..Len(Denotes(r)) + 1
<1>1. PICK m \in 1..Len(Denotes(r.of)) + 1 :
        /\ Stands(r.of, i.it, mk, m) /\ AtPlace(r, m, n)
        /\ m \in DOMAIN Denotes(r.of) => Enters(r, i, mk, Origin(r)[n][2])
  BY FlattenStands
<1>2. mk \in Made /\ (AtEnd(r.of, i.it) <=> m = Len(Denotes(r.of)) + 1)
  BY <1>1, SoundPlace
<1>3. /\ n \in 1..Len(Denotes(r)) + 1 /\ (n <= Len(Denotes(r)) <=> n \in DOMAIN Denotes(r))
      /\ n = Len(Denotes(r)) + 1 <=> m = Len(Denotes(r.of)) + 1
      /\ n <= Len(Denotes(r)) => m <= Len(Denotes(r.of)) /\ m \in DOMAIN Denotes(r.of)
                                 /\ Origin(r)[n][1] = m
  <2>1. AtPlace(r, m, n) /\ r.kind \in {"filter", "flatten"}
    BY <1>1
  <2> QED BY <2>1, PlaceAt
<1>4. ASSUME n <= Len(Denotes(r)) PROVE \E k : Inside(r, i, mk, n, m, k)
  <2>1. PICK k : k = Origin(r)[n][2]
    OBVIOUS
  <2>2. /\ Origin(r)[n] = <<m, k>> /\ k \in 1..Len(Held(r, m)) /\ Denotes(r)[n] = Held(r, m)[k]
    BY <1>3, <1>4, <2>1, ElementOf
  <2>3. Inside(r, i, mk, n, m, k)
    BY <1>1, <1>3, <1>4, <2>1, <2>2 DEF Inside
  <2> QED BY <2>3
<1> QED BY <1>1, <1>2, <1>3, <1>4, Zenon

LEMMA FlattenReads ==
  ASSUME Unfolded, NEW r \in Parts, r.kind = "flatten", Sound(r.of), NEW i, NEW mk, NEW n,
         NEW m, NEW k, Stands(r.of, i.it, mk, m), Inside(r, i, mk, n, m, k), mk \in Made,
         NEW d, d = Dereferenced(r.of, i.it, mk)
  PROVE  /\ i = [it |-> d.it, sub |-> <<d.val, k>>] /\ d.made = mk
         /\ i.it = d.it /\ i.sub[1] = d.val /\ i.sub[2] = k
         /\ Settled(r.of, i.it, mk, d.val) /\ Means(r.of, d.val, Denotes(r.of)[m], mk)
         /\ Elems(i.sub[1], mk)[i.sub[2]] = Denotes(r)[n]
<1>1. /\ i = [it |-> d.it, sub |-> <<d.val, k>>] /\ d.made = mk
      /\ m <= Len(Denotes(r.of)) /\ m \in DOMAIN Denotes(r.of) /\ Denotes(r)[n] = Held(r, m)[k]
  BY DEF Inside, Enters
<1>2. i.it = d.it /\ i.sub[1] = d.val /\ i.sub[2] = k
  BY <1>1
<1>3. Means(r.of, d.val, Denotes(r.of)[m], mk)
  BY <1>1, SoundReads
<1>4. Settled(r.of, i.it, mk, d.val)
  BY <1>1, <1>2 DEF Settled
<1>5. Elems(d.val, mk) = Held(r, m)
  BY <1>1, <1>3, ElemsAre
<1> QED BY <1>1, <1>2, <1>3, <1>4, <1>5

LEMMA FlattenSoundAt ==
  ASSUME Unfolded, NEW r \in Parts, r.kind = "flatten", Sound(r.of), NEW i, NEW mk, NEW n,
         Stands(r, i, mk, n)
  PROVE  SoundAt(r, i, mk, n) /\ LastsAt(r, i, mk, n)
<1>1. PICK m \in 1..Len(Denotes(r.of)) + 1 :
        /\ Stands(r.of, i.it, mk, m) /\ AtPlace(r, m, n)
        /\ AtEnd(r.of, i.it) <=> n = Len(Denotes(r)) + 1
        /\ n <= Len(Denotes(r)) => \E k : Inside(r, i, mk, n, m, k)
  BY FlattenStandsAt
<1>2. mk \in Made /\ n \in 1..Len(Denotes(r)) + 1
  BY FlattenStandsAt
<1>3. \A x, more : Settled(r, i, more, x) <=> x = Elems(i.sub[1], more)[i.sub[2]]
  BY FlattenIs DEF Settled
<1>4. AtEnd(r, i) <=> AtEnd(r.of, i.it)
  <2>1. Stands(r.of, EndOf(r.of), mk, Len(Denotes(r.of)) + 1)
    BY <1>2, SoundOpens
  <2>2. EndOf(r).it = EndOf(r.of) /\ AtEnd(r.of, EndOf(r.of))
    BY <2>1, SoundPlace, FlattenIs
  <2>3. PICK e : e = EndOf(r)
    OBVIOUS
  <2>4. Equal(r, i, e) <=> \/ AtEnd(r.of, i.it) /\ AtEnd(r.of, e.it)
                           \/ Equal(r.of, i.it, e.it) /\ i.sub = e.sub
    BY FlattenIs
  <2>5. Equal(r.of, i.it, EndOf(r.of)) <=> AtEnd(r.of, i.it)
    BY DEF AtEnd
  <2> QED BY <2>2, <2>3, <2>4, <2>5 DEF AtEnd
<1>5. ASSUME n <= Len(Denotes(r)) PROVE ReadsAt(r, i, mk, n)
  <2>1. PICK e : e = Dereferenced(r, i, mk)
    OBVIOUS
  <2>2. PICK k : Inside(r, i, mk, n, m, k)
    BY <1>1, <1>5
  <2>3. Elems(i.sub[1], mk)[i.sub[2]] = Denotes(r)[n]
    BY <1>1, <1>2, <2>2, FlattenReads
  <2>4. e.it = i /\ e.made = mk /\ e.val = Denotes(r)[n]
    BY <2>1, <2>3, FlattenIs
  <2>5. Settled(r, i, mk, e.val)
    BY <2>1, <2>4 DEF Settled
  <2>6. ~Copies(r) /\ IsPrefix(mk, mk)
    BY <1>2, PrefixOrder DEF Copies
  <2> QED BY <2>1, <2>4, <2>5, <2>6 DEF ReadsAt, Means
<1>6. ASSUME n <= Len(Denotes(r)) PROVE StepsAt(r, i, mk, n)
  <2>1. PICK k : Inside(r, i, mk, n, m, k)
    BY <1>1, <1>6
  <2>2. PICK d : d = Dereferenced(r.of, i.it, mk)
    OBVIOUS
  <2>3. PICK j : j = [i EXCEPT !.sub = <<i.sub[1], i.sub[2] + 1>>]
    OBVIOUS
  <2>4. PICK b : b = BumpedOf(r, j, mk)
    OBVIOUS
  <2>5. Incremented(r, i, mk) = b
    <3>1. Incremented(r, i, mk) = BumpedOf(r, [i EXCEPT !.sub = <<i.sub[1], i.sub[2] + 1>>], mk)
      BY FlattenIncrement, Zenon
    <3> QED BY <2>3, <2>4, <3>1, Zenon
  <2>6. i = [it |-> d.it, sub |-> <<d.val, k>>] /\ i.it = d.it /\ d.made = mk
    BY <1>1, <1>2, <2>1, <2>2, FlattenReads
  <2>7. j = [it |-> d.it, sub |-> <<d.val, k + 1>>] /\ j.it = d.it
    BY <2>3, <2>6
  <2>8. Enters(r, j, mk, k + 1)
    BY <2>2, <2>6, <2>7 DEF Enters
  <2>9. /\ n \in DOMAIN Denotes(r) /\ Origin(r)[n] = <<m, k>> /\ k \in 1..Len(Held(r, m))
        /\ m \in DOMAIN Denotes(r.of)
    BY <2>1 DEF Inside
  <2>10. k + 1 \in 1..Len(Held(r, m)) + 1
    <3>1. Len(Held(r, m)) \in Nat
      BY <2>9, HeldSeq
    <3> QED BY <2>9, <3>1
  <2>11. ReadyAt(r, j, mk, m, k + 1)
    BY <1>1, <2>6, <2>7, <2>8, <2>9, <2>10 DEF ReadyAt
  <2>12. Bumps(r, j, mk, m, k + 1)
    BY <2>11, FlattenBumps, Zenon
  <2>13. Counts(r, n + 1, m, k + 1)
    BY <2>9, CountsNext
  <2>14. Stands(r, b.it, b.made, n + 1) /\ IsPrefix(mk, b.made)
    BY <2>4, <2>12, <2>13 DEF Bumps
  <2> QED BY <2>5, <2>14 DEF StepsAt
<1>7. ASSUME NEW more \in Made, IsPrefix(mk, more)
      PROVE  /\ Stands(r, i, more, n)
             /\ n <= Len(Denotes(r)) => \A v : Settled(r, i, mk, v) => Settled(r, i, more, v)
  <2>1. /\ Stands(r.of, i.it, more, m)
        /\ m <= Len(Denotes(r.of)) =>
             \A v : Settled(r.of, i.it, mk, v) => Settled(r.of, i.it, more, v)
    BY <1>1, <1>7, SoundLasts
  <2>2. CASE n <= Len(Denotes(r))
    <3>1. PICK k : Inside(r, i, mk, n, m, k)
      BY <1>1, <2>2
    <3>2. PICK d : d = Dereferenced(r.of, i.it, mk)
      OBVIOUS
    <3>3. PICK e : e = Dereferenced(r.of, i.it, more)
      OBVIOUS
    <3>4. /\ i = [it |-> d.it, sub |-> <<d.val, k>>] /\ i.it = d.it
          /\ Settled(r.of, i.it, mk, d.val)
          /\ Elems(i.sub[1], mk)[i.sub[2]] = Denotes(r)[n]
      BY <1>1, <1>2, <3>1, <3>2, FlattenReads
    <3>5. m <= Len(Denotes(r.of)) /\ m \in DOMAIN Denotes(r.of) /\ Origin(r)[n] = <<m, k>>
      BY <3>1 DEF Inside
    <3>6. Settled(r.of, i.it, more, d.val)
      BY <2>1, <3>4, <3>5
    <3>7. e.it = i.it /\ e.val = d.val /\ e.made = more
      BY <3>3, <3>6 DEF Settled
    <3>8. Enters(r, i, more, k)
      BY <3>3, <3>4, <3>7 DEF Enters
    <3>9. Inside(r, i, more, n, m, k)
      BY <3>1, <3>8 DEF Inside
    <3>10. Stands(r, i, more, n)
      <4>1. Origin(r)[n][2] = k
        BY <3>5
      <4> QED BY <1>1, <2>1, <3>8, <4>1, FlattenStands
    <3>11. Elems(i.sub[1], more)[i.sub[2]] = Denotes(r)[n]
      BY <1>7, <2>1, <3>3, <3>9, FlattenReads
    <3> QED BY <1>3, <3>4, <3>10, <3>11, Zenon
  <2>3. CASE ~(n <= Len(Denotes(r)))
    <3>1. m \notin DOMAIN Denotes(r.of)
      <4>1. m \in DOMAIN Denotes(r.of) => n \in DOMAIN Denotes(r)
        BY <1>1 DEF AtPlace
      <4>2. DOMAIN Denotes(r) = 1..Len(Denotes(r))
        BY Kinds
      <4> QED BY <2>3, <4>1, <4>2
    <3>2. Stands(r, i, more, n)
      BY <1>1, <2>1, <3>1, FlattenStands
    <3> QED BY <2>3, <3>2
  <2> QED BY <2>2, <2>3
<1> QED BY <1>1, <1>2, <1>4, <1>5, <1>6, <1>7 DEF SoundAt, LastsAt

LEMMA FlattenCompares ==
  ASSUME Unfolded, NEW r \in Parts, r.kind = "flatten", Sound(r.of), ~Owns(r), NEW mk,
         NEW i, NEW n, Stands(r, i, mk, n), NEW j, NEW m, Stands(r, j, mk, m)
  PROVE  Equal(r, i, j) <=> n = m
<1>1. PICK x \in 1..Len(Denotes(r.of)) + 1 :
        /\ Stands(r.of, i.it, mk, x) /\ AtPlace(r, x, n)
        /\ AtEnd(r.of, i.it) <=> n = Len(Denotes(r)) + 1
        /\ n <= Len(Denotes(r)) => \E k : Inside(r, i, mk, n, x, k)
  BY FlattenStandsAt
<1>2. PICK y \in 1..Len(Denotes(r.of)) + 1 :
        /\ Stands(r.of, j.it, mk, y) /\ AtPlace(r, y, m)
        /\ AtEnd(r.of, j.it) <=> m = Len(Denotes(r)) + 1
        /\ m <= Len(Denotes(r)) => \E k : Inside(r, j, mk, m, y, k)
  BY FlattenStandsAt
<1>3. /\ mk \in Made /\ n \in 1..Len(Denotes(r)) + 1 /\ m \in 1..Len(Denotes(r)) + 1
      /\ Len(Denotes(r)) \in Nat
  BY FlattenStandsAt, Kinds
<1>4. ~Owns(r.of) /\ ~Copies(r.of)
  <2>1. ~Owns(r.of) /\ r.of \in Parts
    BY Kinds
  <2>2. Owns(r.of) <=> r.of.kind # "range" /\ (Copies(r.of) \/ Owns(r.of.of))
    BY <2>1, Kinds
  <2> QED BY <2>1, <2>2 DEF Copies
<1>5. Equal(r, i, j) <=> \/ AtEnd(r.of, i.it) /\ AtEnd(r.of, j.it)
                         \/ Equal(r.of, i.it, j.it) /\ i.sub = j.sub
  BY FlattenIs
<1>6. Equal(r.of, i.it, j.it) <=> x = y
  BY <1>1, <1>2, <1>4, SoundCompares
<1>7. /\ n = Len(Denotes(r)) + 1 <=> x = Len(Denotes(r.of)) + 1
      /\ m = Len(Denotes(r)) + 1 <=> y = Len(Denotes(r.of)) + 1
  <2>1. AtPlace(r, x, n) /\ AtPlace(r, y, m)
    BY <1>1, <1>2
  <2> QED BY <2>1, PlaceAt
<1>8. CASE n = Len(Denotes(r)) + 1 \/ m = Len(Denotes(r)) + 1
  BY <1>1, <1>2, <1>5, <1>6, <1>7, <1>8
<1>9. CASE n # Len(Denotes(r)) + 1 /\ m # Len(Denotes(r)) + 1
  <2>1. n <= Len(Denotes(r)) /\ m <= Len(Denotes(r))
    BY <1>3, <1>9
  <2>2. PICK k : Inside(r, i, mk, n, x, k)
    BY <1>1, <2>1
  <2>3. PICK l : Inside(r, j, mk, m, y, l)
    BY <1>2, <2>1
  <2>4. PICK d : d = Dereferenced(r.of, i.it, mk)
    OBVIOUS
  <2>5. PICK e : e = Dereferenced(r.of, j.it, mk)
    OBVIOUS
  <2>6. i = [it |-> d.it, sub |-> <<d.val, k>>] /\ Means(r.of, d.val, Denotes(r.of)[x], mk)
    BY <1>1, <1>3, <2>2, <2>4, FlattenReads
  <2>7. j = [it |-> e.it, sub |-> <<e.val, l>>] /\ Means(r.of, e.val, Denotes(r.of)[y], mk)
    BY <1>2, <1>3, <2>3, <2>5, FlattenReads
  <2>8. i.sub = <<Denotes(r.of)[x], k>> /\ j.sub = <<Denotes(r.of)[y], l>>
    BY <1>4, <2>6, <2>7 DEF Means
  <2>9. /\ n \in DOMAIN Denotes(r) /\ Origin(r)[n] = <<x, k>>
        /\ m \in DOMAIN Denotes(r) /\ Origin(r)[m] = <<y, l>>
    BY <2>2, <2>3 DEF Inside
  <2>10. Origin(r)[n] = Origin(r)[m] => n = m
    BY <2>9, SamePlace
  <2>11. x = y /\ i.sub = j.sub <=> n = m
    BY <2>8, <2>9, <2>10
  <2> QED BY <1>1, <1>5, <1>6, <1>9, <2>11
<1> QED BY <1>8, <1>9

LEMMA FlattenSound ==
  ASSUME Unfolded, NEW r \in Parts, r.kind = "flatten", Sound(r.of)
  PROVE  Sound(r)
<1>1. ASSUME NEW mk \in Made PROVE Opens(r, mk)
  <2>1. PICK a : a = BeginOf(r.of, mk)
    OBVIOUS
  <2>2. PICK j : j = [it |-> a.it, sub |-> Unset]
    OBVIOUS
  <2>3. PICK e : e = Entered(r, j, a.made)
    OBVIOUS
  <2>4. PICK b : b = BumpedOf(r, e.it, e.made)
    OBVIOUS
  <2>5. BeginOf(r, mk) = b
    BY <2>1, <2>2, <2>3, <2>4, FlattenIs
  <2>6. /\ Stands(r.of, a.it, a.made, 1) /\ IsPrefix(mk, a.made) /\ a.made \in Made
        /\ Stands(r.of, EndOf(r.of), mk, Len(Denotes(r.of)) + 1)
    BY <2>1, SoundOpens
  <2>7. Stands(r.of, j.it, a.made, 1)
    BY <2>2, <2>6
  <2>8. ReadyAt(r, e.it, e.made, 1, 1) /\ IsPrefix(a.made, e.made) /\ e.made \in Made
    BY <2>3, <2>7, EnteredReady
  <2>9. Bumps(r, e.it, e.made, 1, 1)
    BY <2>8, FlattenBumps, Zenon
  <2>10. Stands(r, b.it, b.made, 1) /\ IsPrefix(e.made, b.made)
    BY <2>4, <2>9, CountsFirst DEF Bumps
  <2>11. b.made \in Made
    BY <2>10, FlattenStandsAt
  <2>12. IsPrefix(mk, e.made)
    BY <2>6, <2>8, PrefixOrder
  <2>13. IsPrefix(mk, b.made)
    BY <2>8, <2>10, <2>11, <2>12, PrefixOrder
  <2>14. Stands(r, EndOf(r), mk, Len(Denotes(r)) + 1)
    <3>1. EndOf(r).it = EndOf(r.of)
      BY FlattenIs
    <3>2. Len(Denotes(r.of)) \in Nat /\ DOMAIN Denotes(r.of) = 1..Len(Denotes(r.of))
      BY Kinds
    <3>3. Len(Denotes(r.of)) + 1 \notin DOMAIN Denotes(r.of)
      BY <3>2
    <3>4. AtPlace(r, Len(Denotes(r.of)) + 1, Len(Denotes(r)) + 1)
      BY <3>3 DEF AtPlace
    <3> QED BY <2>6, <3>1, <3>2, <3>3, <3>4, FlattenStands
  <2> QED BY <2>5, <2>10, <2>13, <2>14 DEF Opens
<1>2. \A i, mk, n : Stands(r, i, mk, n) =>
        \A j, m : Stands(r, j, mk, m) => Comparable(r, i, n, j, m)
  BY FlattenCompares DEF Comparable
<1>3. \A i, mk, n : Stands(r, i, mk, n) => SoundAt(r, i, mk, n) /\ LastsAt(r, i, mk, n)
  BY FlattenSoundAt
<1> QED BY <1>1, <1>2, <1>3, Zenon DEF Sound
-----------------------------------------------------------------------------
(* All ranges, the lower ones first. *)

LEMMA AllSound == ASSUME Unfolded PROVE \A r \in Parts : Sound(r)
<1> DEFINE S == {h \in Nat : \E r \in Parts : Height(r) = h /\ r.kind # "range" /\ ~Sound(r)}
<1>1. \A r \in Parts : r.kind = "range" => Sound(r)
  BY RangeSound
<1>2. ASSUME S # {} PROVE FALSE
  <2>1. PICK h \in S : \A y \in S : h <= y
    BY <1>2, MinLeast
  <2>2. PICK r \in Parts : Height(r) = h /\ r.kind # "range" /\ ~Sound(r)
    BY <2>1
  <2>3. /\ r.of \in Parts /\ Height(r.of) \in Nat /\ Height(r.of) < h /\ h \in Nat
        /\ r.kind \in {"map", "filter", "flatten"}
    <3>1. IsOver(r) /\ r.kind \in {"range", "map", "filter", "flatten"}
      BY <2>2, Kinds
    <3> QED BY <2>2, <3>1 DEF IsOver
  <2>4. Height(r.of) \notin S
    BY <2>1, <2>3
  <2>5. Sound(r.of)
    BY <1>1, <2>3, <2>4
  <2>6. Sound(r)
    BY <2>2, <2>3, <2>5, MapSound, FilterSound, FlattenSound
  <2> QED BY <2>2, <2>6
<1>3. ASSUME NEW r \in Parts, r.kind # "range" PROVE Sound(r)
  <2>1. Height(r) \in Nat
    BY <1>3, Kinds DEF IsOver
  <2> QED BY <1>2, <1>3, <2>1
<1> QED BY <1>1, <1>3

LEMMA ReadsAlike ==
  ASSUME NEW r, Sound(r), ~Copies(r), NEW i, NEW mk, NEW n, Stands(r, i, mk, n)
  PROVE  KeepsContract(r, i, mk, n)
<1>1. /\ mk \in Made /\ n \in 1..Len(Denotes(r)) + 1
      /\ AtEnd(r, i) <=> n = Len(Denotes(r)) + 1
  BY SoundPlace
<1>2. ASSUME n <= Len(Denotes(r)), NEW d, d = Dereferenced(r, i, mk),
             NEW s, s = Incremented(r, i, mk)
      PROVE  /\ d.val = Denotes(r)[n]
             /\ Stands(r, d.it, d.made, n) /\ IsPrefix(mk, d.made)
             /\ Dereferenced(r, d.it, d.made).made = d.made
             /\ Stands(r, s.it, s.made, n + 1) /\ IsPrefix(mk, s.made)
  <2>1. /\ Means(r, d.val, Denotes(r)[n], d.made) /\ Stands(r, d.it, d.made, n)
        /\ IsPrefix(mk, d.made) /\ Settled(r, d.it, d.made, d.val)
    BY <1>2, SoundReads
  <2>2. Stands(r, s.it, s.made, n + 1) /\ IsPrefix(mk, s.made)
    BY <1>2, SoundSteps
  <2> QED BY <2>1, <2>2 DEF Means, Settled
<1> QED BY <1>1, <1>2, Zenon DEF KeepsContract

\* Every range that map, filter and flatten build keeps the contract: its
\* iterators read what it denotes, in order, past empty collections and
\* rejected elements, and make no value again (query.hpp:255-574).
THEOREM RangesAreLawful == ASSUME Unfolded PROVE Lawful
<1>1. <<>> \in Made
  BY DEF Made
<1>2. ASSUME NEW r \in Pipelines, r.kind # "split"
      PROVE  /\ Denotes(r) \in Seq(Int) /\ Sound(r) /\ ~Copies(r)
  <2>1. r \in Parts /\ ~Copies(r)
    BY <1>2, PipelinesAssumption
  <2> QED BY <2>1, Kinds, AllSound
<1>3. ASSUME NEW r \in Pipelines, r.kind # "split"
      PROVE  /\ \A mk \in Made : Opens(r, mk)
             /\ \A i, mk, n : Stands(r, i, mk, n) =>
                  /\ KeepsContract(r, i, mk, n)
                  /\ \A more \in Made : IsPrefix(mk, more) => Stands(r, i, more, n)
                  /\ \A j, m : Stands(r, j, mk, m) => Comparable(r, i, n, j, m)
  <2>1. Sound(r) /\ ~Copies(r)
    BY <1>2, <1>3
  <2>2. \A i, mk, n : Stands(r, i, mk, n) => KeepsContract(r, i, mk, n)
    BY <2>1, ReadsAlike
  <2>3. \A i, mk, n : Stands(r, i, mk, n) =>
          \A more \in Made : IsPrefix(mk, more) => Stands(r, i, more, n)
    BY <2>1, SoundLasts
  <2>4. /\ \A mk \in Made : Opens(r, mk)
        /\ \A i, mk, n : Stands(r, i, mk, n) =>
             \A j, m : Stands(r, j, mk, m) => Comparable(r, i, n, j, m)
    BY <2>1, Zenon DEF Sound
  <2> QED BY <2>2, <2>3, <2>4, Zenon
<1> QED BY <1>1, <1>2, <1>3, Zenon DEF Lawful
-----------------------------------------------------------------------------
(* The contract, for one iterator of a range that is queried. *)

\* What the range of the Query denotes.
D == Denotes(range)

LEMMA Contract ==
  ASSUME Lawful, NEW r \in Pipelines, r.kind # "split",
         NEW i, NEW mk, NEW n, Stands(r, i, mk, n)
  PROVE  KeepsContract(r, i, mk, n)
BY Zenon DEF Lawful

LEMMA DenotesSeq ==
  ASSUME Lawful, NEW r \in Pipelines, r.kind # "split"
  PROVE  Denotes(r) \in Seq(Int) /\ Len(Denotes(r)) \in Nat
<1>1. Denotes(r) \in Seq(Int)
  BY Zenon DEF Lawful
<1> QED BY <1>1

LEMMA Standing ==
  ASSUME Lawful, NEW r \in Pipelines, r.kind # "split",
         NEW i, NEW mk, NEW n, Stands(r, i, mk, n)
  PROVE  /\ mk \in Made /\ n \in 1..Len(Denotes(r)) + 1
         /\ AtEnd(r, i) <=> n = Len(Denotes(r)) + 1
<1>1. KeepsContract(r, i, mk, n)
  BY Contract
<1> QED BY <1>1 DEF KeepsContract

\* Values made later change nothing about where an iterator stands.
LEMMA StandsOn ==
  ASSUME Lawful, NEW r \in Pipelines, r.kind # "split",
         NEW i, NEW mk, NEW n, Stands(r, i, mk, n),
         NEW more \in Made, IsPrefix(mk, more)
  PROVE  Stands(r, i, more, n)
BY Zenon DEF Lawful

LEMMA Compared ==
  ASSUME Lawful, NEW r \in Pipelines, r.kind # "split", ~Owns(r),
         NEW mk, NEW i, NEW n, Stands(r, i, mk, n), NEW j, NEW m, Stands(r, j, mk, m)
  PROVE  Equal(r, i, j) <=> n = m
<1>1. Comparable(r, i, n, j, m)
  BY Zenon DEF Lawful
<1> QED BY <1>1 DEF Comparable

\* Reading an iterator that is not at the end.
ReadsAs(r, i, mk, n, d) ==
  /\ n \in 1..Len(Denotes(r)) /\ d.val = Denotes(r)[n]
  /\ Stands(r, d.it, d.made, n) /\ d.made \in Made /\ IsPrefix(mk, d.made)
  /\ ~AtEnd(r, d.it) /\ Dereferenced(r, d.it, d.made).made = d.made
  /\ Stands(r, i, d.made, n)

LEMMA ReadsThere ==
  ASSUME Lawful, NEW r \in Pipelines, r.kind # "split",
         NEW i, NEW mk, NEW n, Stands(r, i, mk, n), ~AtEnd(r, i)
  PROVE  ReadsAs(r, i, mk, n, Dereferenced(r, i, mk))
<1> DEFINE d == Dereferenced(r, i, mk)
<1>1. n \in 1..Len(Denotes(r))
  BY Standing, DenotesSeq
<1>2. KeepsContract(r, i, mk, n) /\ n <= Len(Denotes(r))
  BY <1>1, Contract, DenotesSeq
<1>3. /\ d.val = Denotes(r)[n] /\ Stands(r, d.it, d.made, n) /\ IsPrefix(mk, d.made)
      /\ Dereferenced(r, d.it, d.made).made = d.made
  BY <1>2, Zenon DEF KeepsContract
<1> HIDE DEF d
<1>4. d.made \in Made /\ ~AtEnd(r, d.it)
  BY <1>1, <1>3, Standing, DenotesSeq
<1>5. Stands(r, i, d.made, n)
  BY <1>3, <1>4, StandsOn
<1>6. ReadsAs(r, i, mk, n, d)
  BY <1>1, <1>3, <1>4, <1>5, Zenon DEF ReadsAs
<1> QED BY <1>6 DEF d

\* Incrementing one.
LEMMA StepsOn ==
  ASSUME Lawful, NEW r \in Pipelines, r.kind # "split",
         NEW i, NEW mk, NEW n, Stands(r, i, mk, n), ~AtEnd(r, i),
         NEW s, s = Incremented(r, i, mk)
  PROVE  Stands(r, s.it, s.made, n + 1) /\ s.made \in Made /\ IsPrefix(mk, s.made)
<1>1. KeepsContract(r, i, mk, n) /\ n <= Len(Denotes(r))
  BY Contract, Standing, DenotesSeq
<1>2. Stands(r, s.it, s.made, n + 1) /\ IsPrefix(mk, s.made)
  BY <1>1, Zenon DEF KeepsContract
<1> QED BY <1>2, Standing

LEMMA OpensThere ==
  ASSUME Lawful, NEW r \in Pipelines, r.kind # "split", NEW mk \in Made,
         NEW b, b = BeginOf(r, mk)
  PROVE  /\ Stands(r, b.it, b.made, 1) /\ b.made \in Made /\ IsPrefix(mk, b.made)
         /\ Stands(r, EndOf(r), mk, Len(Denotes(r)) + 1)
         /\ Stands(r, EndOf(r), b.made, Len(Denotes(r)) + 1)
<1>1. Opens(r, mk)
  BY Zenon DEF Lawful
<1>2. /\ Stands(r, b.it, b.made, 1) /\ IsPrefix(mk, b.made)
      /\ Stands(r, EndOf(r), mk, Len(Denotes(r)) + 1)
  BY <1>1, Zenon DEF Opens
<1>3. b.made \in Made
  BY <1>2, Standing
<1> QED BY <1>2, <1>3, StandsOn
-----------------------------------------------------------------------------
(* Where the iterator of a walk stands. *)

\* findBefore walks to its bound, all other walks to the end.
ToBound == query.op = "findBefore" /\ phase = "again"

Placed ==
  /\ range \in Pipelines /\ Asks(query, range)
  /\ ~IsSplit =>
       /\ phase \in {"start", "walk", "again", "done", "crashed"}
       /\ pos \in Nat /\ made \in Made
       /\ phase = "again" => query.op \in Measured \cup {"findBefore"}
       /\ Walking => Stands(range, it, made, pos + 1)
       /\ Walking /\ ~ToBound => stop = EndOf(range)

LEMMA PlacedInit == ASSUME Lawful, Init PROVE Placed
<1>1. range \in Pipelines /\ Asks(query, range) /\ phase = "start" /\ pos = 0 /\ made = <<>>
  BY DEF Init
<1>2. <<>> \in Made
  BY DEF Lawful
<1> QED BY <1>1, <1>2 DEF Placed, Walking

\* A round reads the element at the iterator, where it reads one.
LEMMA ReadsHere ==
  ASSUME Lawful, Placed, ~IsSplit, NEW ops, Reading(ops)
  PROVE  /\ Walking /\ query.op \in ops /\ ~AtEnd(range, it) /\ ~Equal(range, it, stop)
         /\ pos \in Nat /\ pos + 1 \in 1..Len(D) /\ D \in Seq(Int) /\ Len(D) \in Nat
         /\ Stands(range, it, made, pos + 1) /\ made \in Made
         /\ Here.val = D[pos + 1]
         /\ Stands(range, Here.it, Here.made, pos + 1)
         /\ Here.made \in Made /\ IsPrefix(made, Here.made)
         /\ ~AtEnd(range, Here.it) /\ Dereferenced(range, Here.it, Here.made).made = Here.made
         /\ Stands(range, it, Here.made, pos + 1)
<1>1. range \in Pipelines /\ range.kind # "split"
  BY DEF Placed, IsSplit
<1>2. Walking /\ query.op \in ops /\ ~AtEnd(range, it) /\ ~Equal(range, it, stop)
  BY DEF Reading
<1>3. Stands(range, it, made, pos + 1) /\ pos \in Nat /\ made \in Made
  BY <1>2, Zenon DEF Placed, IsSplit
<1>4. ReadsAs(range, it, made, pos + 1, Here)
  BY <1>1, <1>2, <1>3, ReadsThere, Zenon DEF Here
<1>5. D \in Seq(Int) /\ Len(D) \in Nat
  BY <1>1, DenotesSeq, Zenon DEF D
<1> QED BY <1>2, <1>3, <1>4, <1>5, Zenon DEF D, ReadsAs

\* A round that ends with ++ of an iterator that stands where the walk does.
LEMMA AdvancePlaced ==
  ASSUME Lawful, Placed, ~IsSplit, Walking,
         NEW i, NEW mk, Stands(range, i, mk, pos + 1), ~AtEnd(range, i), AdvanceFrom(i, mk)
  PROVE  /\ Placed' /\ pos' = pos + 1 /\ IsPrefix(mk, made') /\ made' \in Made
         /\ Stands(range, it', made', pos + 2)
         /\ UNCHANGED <<range, query, phase, stop, found, pass>>
<1>1. range \in Pipelines /\ range.kind # "split" /\ pos \in Nat
  BY DEF Placed, IsSplit
<1>2. PICK s : s = Incremented(range, i, mk) /\ it' = s.it /\ made' = s.made
  BY Zenon DEF AdvanceFrom
<1>3. pos' = pos + 1 /\ UNCHANGED <<range, query, phase, stop, found, pass>>
  BY DEF AdvanceFrom
<1>4. Stands(range, it', made', pos + 1 + 1) /\ made' \in Made /\ IsPrefix(mk, made')
  BY <1>1, <1>2, StepsOn, Zenon
<1>5. pos + 1 + 1 = pos + 2 /\ pos' \in Nat /\ pos' + 1 = pos + 2
  BY <1>1, <1>3
<1>6. Stands(range, it', made', pos + 2)
  BY <1>4, <1>5, Zenon
<1>7. Placed'
  BY <1>3, <1>4, <1>5, <1>6 DEF Placed, IsSplit, Asks, Walking, ToBound
<1> QED BY <1>3, <1>4, <1>6, <1>7

\* A walk that begins.
LEMMA WalkPlaced ==
  ASSUME Placed, ~IsSplit, NEW i, NEW mk \in Made, Stands(range, i, mk, 1),
         NEW old, NEW e, NEW next \in {"walk", "again"}, Walk(i, mk, old, e, next),
         next = "again" => query.op \in Measured \cup {"findBefore"},
         e = EndOf(range) \/ (query.op = "findBefore" /\ next = "again")
  PROVE  /\ Placed' /\ pos' = 0 /\ phase' = next /\ made' = mk /\ it' = i /\ stop' = e
         /\ UNCHANGED <<range, query, out, acc, found>>
<1>1. /\ pos' = 0 /\ phase' = next /\ made' = mk /\ it' = i /\ stop' = e
      /\ UNCHANGED <<range, query, out, acc, found>>
  BY DEF Walk
<1>2. 0 + 1 = 1
  OBVIOUS
<1>3. Stands(range', it', made', pos' + 1)
  BY <1>1, <1>2
<1>4. Placed'
  BY <1>1, <1>3 DEF Placed, IsSplit, Asks, Walking, ToBound
<1> QED BY <1>1, <1>4

\* freezeAs and unstableUnique keep where they began to measure.
Kept == ~IsSplit /\ query.op \in Measured /\ phase = "walk" => Stands(range, saved, made, 1)

LEMMA SameQuery == ASSUME [Next]_vars PROVE UNCHANGED <<range, query>>
<1>1. CASE UNCHANGED vars
  BY <1>1 DEF vars
<1>2. CASE Start \/ Crash \/ Copy \/ Count \/ Fold \/ Group \/ Miss \/ Seize \/ Compete
  BY <1>2 DEF Start, Crash, Copy, Count, Fold, Group, Miss, Seize, Compete, Walk, AdvanceFrom
<1>3. CASE Hit \/ Finish \/ Singleton \/ Extremum \/ Name
  BY <1>3 DEF Hit, Finish, Singleton, Extremum, Name, Ends, Walk, Answer
<1> QED BY <1>1, <1>2, <1>3 DEF Next

LEMMA StartPlaced ==
  ASSUME Lawful, Placed, ~IsSplit, Start
  PROVE  /\ Placed' /\ Kept' /\ phase = "start" /\ phase' = "walk" /\ pos' = 0
         /\ stop' = EndOf(range) /\ saved' = it' /\ made' \in Made
         /\ Stands(range, it', made', 1)
         /\ UNCHANGED <<range, query, out, acc, found>>
<1>1. range \in Pipelines /\ range.kind # "split" /\ made \in Made /\ phase = "start"
  BY DEF Placed, IsSplit, Start
<1>2. PICK b : /\ b = BeginOf(range, made)
               /\ Walk(b.it, b.made, made, EndOf(range), "walk") /\ saved' = b.it
  BY Zenon DEF Start
<1>3. Stands(range, b.it, b.made, 1) /\ b.made \in Made
  BY <1>1, <1>2, OpensThere, Zenon
<1>4. /\ Placed' /\ pos' = 0 /\ phase' = "walk" /\ made' = b.made /\ it' = b.it
      /\ stop' = EndOf(range) /\ UNCHANGED <<range, query, out, acc, found>>
  BY <1>2, <1>3, WalkPlaced
<1>5. Stands(range, it', made', 1) /\ saved' = it'
  BY <1>2, <1>3, <1>4
<1>6. Kept'
  BY <1>4, <1>5 DEF Kept
<1> QED BY <1>1, <1>3, <1>4, <1>5, <1>6

\* A walk that ends at i.
LEMMA EndsPlaced ==
  ASSUME Lawful, Placed, Kept, ~IsSplit, Walking, NEW hit \in BOOLEAN, NEW i, NEW mk \in Made,
         mk = made \/ IsPrefix(made, mk), Ends(hit, i, mk)
  PROVE  Placed' /\ Kept' /\ UNCHANGED <<range, query>>
<1>1. range \in Pipelines /\ range.kind # "split" /\ pos \in Nat
  BY DEF Placed, IsSplit
<1>2. CASE query.op = "findBefore" /\ phase = "walk"
  <2>1. PICK b : b = BeginOf(range, mk) /\ Walk(b.it, b.made, mk, Bound(hit, i), "again")
    BY <1>2, Zenon DEF Ends
  <2>2. Stands(range, b.it, b.made, 1) /\ b.made \in Made
    BY <1>1, <2>1, OpensThere, Zenon
  <2>3. Placed' /\ phase' = "again" /\ UNCHANGED <<range, query>>
    BY <1>2, <2>1, <2>2, WalkPlaced
  <2> QED BY <2>3 DEF Kept
<1>3. CASE query.op \in Measured /\ phase = "walk"
  <2>1. Walk(saved, mk, mk, stop, "again")
    BY <1>3 DEF Ends, Measured
  <2>2. Stands(range, saved, made, 1) /\ stop = EndOf(range)
    BY <1>3 DEF Kept, Placed, Walking, ToBound
  <2>3. Stands(range, saved, mk, 1)
    BY <1>1, <2>2, StandsOn
  <2>4. Placed' /\ phase' = "again" /\ UNCHANGED <<range, query>>
    BY <1>3, <2>1, <2>2, <2>3, WalkPlaced
  <2> QED BY <2>4 DEF Kept
<1>4. CASE Answer(hit, i, mk)
  <2>1. phase' = "done" /\ made' = mk /\ UNCHANGED <<range, query, pos, stop>>
    BY <1>4 DEF Answer
  <2> QED BY <1>1, <2>1 DEF Placed, Kept, Walking, IsSplit, Asks
<1> QED BY <1>2, <1>3, <1>4 DEF Ends

\* The best element of those before the iterator, and where it is.
Beaten(w) == w \in 1..pos /\ \A k \in 1..pos : ~Beats(D[k], D[w])

Leading ==
  ~IsSplit /\ query.op \in Extrema /\ Walking =>
    IF pos = 0 THEN Stands(range, saved, made, 1)
    ELSE \E w \in 1..pos : Beaten(w) /\ Stands(range, saved, made, w)

LEMMA SeizeLeads ==
  ASSUME Lawful, Placed, ~IsSplit, Seize
  PROVE  Placed' /\ Leading' /\ pos' = pos + 1 /\ Walking /\ UNCHANGED <<range, query, phase>>
<1>1. Reading(Extrema) /\ pos = 0 /\ saved' = it /\ AdvanceFrom(it, made)
  BY DEF Seize
<1>2. /\ Walking /\ ~AtEnd(range, it) /\ Stands(range, it, made, pos + 1)
      /\ query.op \in Extrema /\ D \in Seq(Int) /\ pos + 1 \in 1..Len(D)
  BY <1>1, ReadsHere
<1>3. /\ Placed' /\ pos' = pos + 1 /\ IsPrefix(made, made') /\ made' \in Made
      /\ UNCHANGED <<range, query, phase>>
  BY <1>1, <1>2, AdvancePlaced
<1>4. range \in Pipelines /\ range.kind # "split"
  BY DEF Placed, IsSplit
<1>5. Stands(range, saved', made', 1)
  <2>1. pos + 1 = 1
    BY <1>1
  <2>2. Stands(range, it, made, 1)
    BY <1>2, <2>1
  <2> QED BY <1>1, <1>3, <1>4, <2>2, StandsOn
<1>6. D' = D /\ D[1] \in Int /\ pos' = 1
  BY <1>1, <1>2, <1>3 DEF D
<1>7. Beaten(1)'
  BY <1>3, <1>6 DEF Beaten, Beats
<1>8. Leading'
  BY <1>3, <1>5, <1>6, <1>7 DEF Leading
<1> QED BY <1>2, <1>3, <1>8

LEMMA CompeteLeads ==
  ASSUME Lawful, Placed, Leading, ~IsSplit, Compete
  PROVE  Placed' /\ Leading' /\ pos' = pos + 1 /\ Walking /\ UNCHANGED <<range, query, phase>>
<1>1. Reading(Extrema) /\ pos > 0
  BY DEF Compete
<1>2. /\ Walking /\ ~AtEnd(range, it) /\ query.op \in Extrema /\ D \in Seq(Int)
      /\ Len(D) \in Nat /\ pos \in Nat /\ pos + 1 \in 1..Len(D)
      /\ Here.val = D[pos + 1] /\ Here.made \in Made /\ IsPrefix(made, Here.made)
      /\ Stands(range, it, Here.made, pos + 1)
  BY <1>1, ReadsHere
<1>3. range \in Pipelines /\ range.kind # "split"
  BY DEF Placed, IsSplit
<1>4. PICK w \in 1..pos : Beaten(w) /\ Stands(range, saved, made, w)
  BY <1>1, <1>2 DEF Leading
<1>5. Stands(range, saved, Here.made, w)
  BY <1>2, <1>3, <1>4, StandsOn
<1>6. PICK best : /\ best = Dereferenced(range, saved, Here.made)
                  /\ saved' = IF Beats(Here.val, best.val) THEN it ELSE saved
                  /\ AdvanceFrom(it, best.made)
  BY Zenon DEF Compete
<1>7. ~AtEnd(range, saved)
  BY <1>2, <1>3, <1>4, Standing DEF D
<1>8. ReadsAs(range, saved, Here.made, w, best)
  BY <1>3, <1>5, <1>6, <1>7, ReadsThere
<1>9. best.val = D[w] /\ best.made \in Made /\ IsPrefix(Here.made, best.made)
  BY <1>8 DEF ReadsAs, D
<1>10. Stands(range, it, best.made, pos + 1) /\ Stands(range, saved, best.made, w)
  BY <1>2, <1>3, <1>5, <1>9, StandsOn
<1>11. /\ Placed' /\ pos' = pos + 1 /\ IsPrefix(best.made, made') /\ made' \in Made
       /\ UNCHANGED <<range, query, phase>>
  BY <1>2, <1>6, <1>10, AdvancePlaced
<1>12. Stands(range, it, made', pos + 1) /\ Stands(range, saved, made', w)
  BY <1>3, <1>10, <1>11, StandsOn
<1>13. D' = D /\ \A k \in 1..pos + 1 : D[k] \in Int
  BY <1>2, <1>11 DEF D
<1>14. CASE Beats(D[pos + 1], D[w])
  <2>1. saved' = it
    BY <1>2, <1>6, <1>9, <1>14
  <2>2. PICK n \in Nat : n = pos + 1
    BY <1>2
  <2>3. Beaten(n)'
    <3>1. n \in 1..pos' /\ query' = query
      BY <1>2, <1>11, <2>2
    <3>2. ASSUME NEW k \in 1..pos' PROVE ~Beats(D[k], D[n])
      <4>1. CASE k = n
        BY <1>2, <1>13, <2>2, <4>1 DEF Beats
      <4>2. CASE k \in 1..pos
        <5>1. ~Beats(D[k], D[w]) /\ Beats(D[n], D[w])
          BY <1>4, <1>14, <2>2, <4>2 DEF Beaten
        <5>2. D[k] \in Int /\ D[w] \in Int /\ D[n] \in Int
          BY <1>2, <1>4, <1>13, <2>2, <4>2
        <5> QED BY <5>1, <5>2 DEF Beats
      <4> QED BY <1>2, <1>11, <2>2, <4>1, <4>2
    <3> QED BY <1>13, <3>1, <3>2 DEF Beaten, Beats
  <2> QED BY <1>2, <1>11, <1>12, <2>1, <2>2, <2>3 DEF Leading
<1>15. CASE ~Beats(D[pos + 1], D[w])
  <2>1. saved' = saved
    BY <1>2, <1>6, <1>9, <1>15
  <2>2. Beaten(w)'
    BY <1>2, <1>4, <1>11, <1>13, <1>15 DEF Beaten, Beats
  <2> QED BY <1>2, <1>11, <1>12, <2>1, <2>2 DEF Leading
<1> QED BY <1>2, <1>11, <1>14, <1>15

\* Rounds that go on, whether they read a copy or their own iterator.
LEMMA RoundPlaced ==
  ASSUME Lawful, Placed, Kept, Leading, ~IsSplit,
         Copy \/ Count \/ Fold \/ Group \/ Miss \/ Seize \/ Compete
  PROVE  /\ Placed' /\ Kept' /\ Leading' /\ pos' = pos + 1 /\ Walking
         /\ UNCHANGED <<range, query, phase>>
<1> DEFINE Goal == Placed' /\ pos' = pos + 1 /\ UNCHANGED <<range, query, phase>>
<1>1. CASE Copy \/ Fold \/ Group
  <2>1. PICK ops : Reading(ops)
    BY <1>1 DEF Copy, Fold, Group
  <2>2. AdvanceFrom(Here.it, Here.made)
    BY <1>1 DEF Copy, Fold, Group
  <2>3. Goal /\ Walking
    BY <2>1, <2>2, ReadsHere, AdvancePlaced
  <2>4. ~(query.op \in Measured /\ phase = "walk")
    BY <1>1 DEF Copy, Fold, Group, Reading, Measured
  <2>5. query.op \notin Extrema
    BY <1>1 DEF Copy, Fold, Group, Reading, Measured, Extrema
  <2> QED BY <2>3, <2>4, <2>5 DEF Kept, Leading
<1>2. CASE Count
  <2>1. Reading({"size"} \cup Measured) /\ AdvanceFrom(it, made) /\ saved' = saved
    BY <1>2 DEF Count
  <2>2. /\ Walking /\ Goal /\ IsPrefix(made, made') /\ made' \in Made
        /\ range \in Pipelines /\ range.kind # "split"
    BY <2>1, ReadsHere, AdvancePlaced DEF Placed, IsSplit
  <2>3. Kept'
    BY <2>1, <2>2, StandsOn DEF Kept
  <2>4. query.op \notin Extrema
    BY <2>1 DEF Reading, Measured, Extrema
  <2> QED BY <2>2, <2>3, <2>4 DEF Leading
<1>3. CASE Miss
  <2>1. Reading(Seeking)
    BY <1>3 DEF Miss
  <2>2. \E i \in {it, Here.it} : AdvanceFrom(i, Here.made)
    BY <1>3 DEF Miss
  <2>3. Goal /\ Walking
    BY <2>1, <2>2, ReadsHere, AdvancePlaced
  <2>4. query.op \notin Extrema \cup Measured
    BY <2>1 DEF Reading, Measured, Seeking, Quantifiers, Extrema
  <2> QED BY <2>3, <2>4 DEF Kept, Leading
<1>4. CASE Seize
  BY <1>4, SeizeLeads DEF Kept, Seize, Reading, Measured, Extrema
<1>5. CASE Compete
  BY <1>5, CompeteLeads DEF Kept, Compete, Reading, Measured, Extrema
<1> QED BY <1>1, <1>2, <1>3, <1>4, <1>5

LEMMA EndPlaced ==
  ASSUME Lawful, Placed, Kept, ~IsSplit, Hit \/ Finish
  PROVE  Placed' /\ Kept' /\ Leading'
<1>1. CASE Hit
  <2>1. Reading(Seeking) /\ \E i \in {it, Here.it} : Ends(TRUE, i, Here.made)
    BY <1>1 DEF Hit
  <2>2. Walking /\ Here.made \in Made /\ IsPrefix(made, Here.made)
    BY <2>1, ReadsHere
  <2>3. Placed' /\ Kept' /\ UNCHANGED <<range, query>>
    BY <2>1, <2>2, EndsPlaced
  <2>4. query.op \notin Extrema
    BY <2>1 DEF Reading, Seeking, Quantifiers, Extrema
  <2> QED BY <2>3, <2>4 DEF Leading
<1>2. CASE Finish
  <2>1. Walking /\ query.op \notin Extrema /\ Ends(FALSE, it, made)
    BY <1>2 DEF Finish
  <2>2. made \in Made
    BY DEF Placed
  <2>3. Placed' /\ Kept' /\ UNCHANGED <<range, query>>
    BY <2>1, <2>2, EndsPlaced
  <2> QED BY <2>1, <2>3 DEF Leading
<1> QED BY <1>1, <1>2

\* singleton, with what it has found out.
LEMMA SingletonPlaced ==
  ASSUME Lawful, Placed, ~IsSplit, Singleton
  PROVE  /\ Placed' /\ phase' = "done" /\ UNCHANGED <<range, query>>
         /\ found' <=> Len(D) = 1
         /\ found' => Stands(range, it', made', 1)
<1>1. range \in Pipelines /\ range.kind # "split" /\ made \in Made /\ query.op = "singleton"
  BY DEF Placed, IsSplit, Singleton
<1>2. PICK empty, next :
        /\ empty = BeginOf(range, made) /\ next = BeginOf(range, empty.made)
        /\ \E again \in {IF AtEnd(range, empty.it) THEN empty.made
                         ELSE Incremented(range, next.it, next.made).made} :
             \E b \in {BeginOf(range, again)} :
               LET one == IsOne(range, empty)
               IN  Answer(one, b.it, IF one THEN b.made ELSE again)
  BY Zenon DEF Singleton
<1>3. PICK again, b :
        /\ again = IF AtEnd(range, empty.it) THEN empty.made
                   ELSE Incremented(range, next.it, next.made).made
        /\ b = BeginOf(range, again)
        /\ Answer(IsOne(range, empty), b.it, IF IsOne(range, empty) THEN b.made ELSE again)
  BY <1>2, Zenon
<1>4. Stands(range, empty.it, empty.made, 1) /\ empty.made \in Made
  BY <1>1, <1>2, OpensThere, Zenon
<1>5. Stands(range, next.it, next.made, 1) /\ next.made \in Made
  BY <1>1, <1>2, <1>4, OpensThere, Zenon
<1>6. AtEnd(range, empty.it) <=> Len(D) = 0
  BY <1>1, <1>4, Standing, DenotesSeq DEF D
<1>7. AtEnd(range, next.it) <=> Len(D) = 0
  BY <1>1, <1>5, Standing, DenotesSeq DEF D
<1>8. again \in Made
  BY <1>1, <1>3, <1>4, <1>5, <1>6, <1>7, StepsOn
<1>9. Stands(range, b.it, b.made, 1) /\ b.made \in Made
  BY <1>1, <1>3, <1>8, OpensThere, Zenon
<1>10. IsOne(range, empty) <=> Len(D) = 1
  <2>1. CASE AtEnd(range, empty.it)
    BY <1>6, <2>1 DEF IsOne
  <2>2. CASE ~AtEnd(range, empty.it)
    <3>1. PICK s : s = Incremented(range, empty.it, empty.made)
      OBVIOUS
    <3>2. Stands(range, s.it, s.made, 1 + 1)
      BY <1>1, <1>4, <2>2, <3>1, StepsOn, Zenon
    <3>3. AtEnd(range, s.it) <=> 1 + 1 = Len(Denotes(range)) + 1
      BY <1>1, <3>2, Standing, Zenon
    <3>4. Len(D) \in Nat
      BY <1>1, DenotesSeq, Zenon DEF D
    <3>5. \A n \in Nat : 1 + 1 = n + 1 <=> n = 1
      OBVIOUS
    <3>6. AtEnd(range, s.it) <=> Len(D) = 1
      BY <3>3, <3>4, <3>5, Zenon DEF D
    <3> QED BY <2>2, <3>1, <3>6, Zenon DEF IsOne
  <2> QED BY <2>1, <2>2
<1>11. /\ phase' = "done" /\ UNCHANGED <<range, query, pos, stop>>
       /\ found' = IsOne(range, empty) /\ made' = IF IsOne(range, empty) THEN b.made ELSE again
       /\ IsOne(range, empty) => it' = b.it
  BY <1>1, <1>3 DEF Answer
<1>12. Placed'
  BY <1>8, <1>9, <1>11 DEF Placed, Walking, IsSplit, Asks
<1> QED BY <1>9, <1>10, <1>11, <1>12

LEMMA StepPlaced ==
  ASSUME Lawful, Placed, Kept, Leading, [Next]_vars
  PROVE  Placed' /\ Kept' /\ Leading'
<1>0. UNCHANGED <<range, query>>
  BY SameQuery
<1>1. CASE IsSplit
  BY <1>0, <1>1 DEF Placed, Kept, Leading, IsSplit, Asks
<1>2. CASE ~IsSplit /\ UNCHANGED vars
  BY <1>2 DEF vars, Placed, Kept, Leading, Beaten, Beats, D, IsSplit, Asks, Walking, ToBound
<1>3. CASE ~IsSplit /\ Start
  <2>1. Placed' /\ Kept' /\ pos' = 0 /\ Stands(range, saved', made', 1)
    BY <1>3, StartPlaced
  <2> QED BY <1>0, <2>1 DEF Leading
<1>4. CASE ~IsSplit /\ (Copy \/ Count \/ Fold \/ Group \/ Miss \/ Seize \/ Compete)
  BY <1>4, RoundPlaced
<1>5. CASE ~IsSplit /\ (Hit \/ Finish)
  BY <1>5, EndPlaced
<1>6. CASE ~IsSplit /\ Singleton
  BY <1>6, SingletonPlaced DEF Kept, Leading, Walking
<1>7. CASE ~IsSplit /\ (Crash \/ Name)
  <2>1. phase' \in {"done", "crashed"} /\ UNCHANGED <<pos, made, stop>>
    BY <1>7 DEF Crash, Name
  <2> QED BY <1>0, <2>1 DEF Placed, Kept, Leading, Walking, IsSplit, Asks
<1>8. CASE ~IsSplit /\ Extremum
  <2>1. phase' \in {"done", "crashed"} /\ UNCHANGED <<pos, stop>>
    BY <1>8 DEF Extremum
  <2>2. made' \in Made
    <3>1. Walking /\ query.op \in Extrema /\ Equal(range, it, stop)
      BY <1>8 DEF Extremum
    <3>2. \E w : Stands(range, saved, made, w)
      BY <1>8, <3>1 DEF Leading
    <3>3. range \in Pipelines /\ range.kind # "split" /\ made \in Made
      BY <1>8 DEF Placed, IsSplit
    <3>4. ~AtEnd(range, saved) => Dereferenced(range, saved, made).made \in Made
      BY <3>2, <3>3, ReadsThere DEF ReadsAs
    <3>5. made' = made \/ (~AtEnd(range, saved) /\ made' = Dereferenced(range, saved, made).made)
      BY <1>8 DEF Extremum
    <3> QED BY <3>3, <3>4, <3>5
  <2> QED BY <1>0, <2>1, <2>2 DEF Placed, Kept, Leading, Walking, IsSplit, Asks
<1> QED BY <1>1, <1>2, <1>3, <1>4, <1>5, <1>6, <1>7, <1>8 DEF Next
-----------------------------------------------------------------------------
(* What has been copied of the elements before the iterator. *)

\* One element more.
LEMMA Grown ==
  ASSUME NEW s \in Seq(Int), NEW n \in Nat, n + 1 \in 1..Len(s)
  PROVE  SubSeq(s, 1, n + 1) = Append(SubSeq(s, 1, n), s[n + 1])
<1>1. Len(s) \in Nat /\ 1..n \subseteq DOMAIN s
  OBVIOUS
<1>2. SubSeq(s, 1, n) \in Seq(Int) /\ Len(SubSeq(s, 1, n)) = n
  BY <1>1
<1> QED BY <1>1, <1>2

LEMMA Nothing == ASSUME NEW s \in Seq(Int) PROVE SubSeq(s, 1, 0) = <<>>
OBVIOUS

LEMMA Everything == ASSUME NEW s \in Seq(Int) PROVE SubSeq(s, 1, Len(s)) = s
OBVIOUS

\* Only the walk of findBefore to its bound can miss where it ends.
LEMMA CrashBound == ASSUME Placed, ~IsSplit, Crash PROVE ToBound
BY DEF Placed, Crash, AtEnd

\* Any other is at the end where it stops.
LEMMA AtLast ==
  ASSUME Lawful, Placed, ~IsSplit, Walking, ~ToBound, Equal(range, it, stop)
  PROVE  pos = Len(D) /\ D \in Seq(Int)
<1>1. /\ range \in Pipelines /\ range.kind # "split" /\ pos \in Nat
      /\ Stands(range, it, made, pos + 1) /\ stop = EndOf(range)
  BY DEF Placed, IsSplit
<1>2. AtEnd(range, it)
  BY <1>1 DEF AtEnd
<1>3. pos + 1 = Len(Denotes(range)) + 1
  BY <1>1, <1>2, Standing, Zenon
<1>4. Denotes(range) \in Seq(Int) /\ Len(Denotes(range)) \in Nat
  BY <1>1, DenotesSeq, Zenon
<1> QED BY <1>1, <1>3, <1>4 DEF D

LEMMA PosInD ==
  ASSUME Lawful, Placed, ~IsSplit
  PROVE  /\ D \in Seq(Int) /\ Len(D) \in Nat /\ pos \in Nat
         /\ Walking => pos <= Len(D)
<1>1. range \in Pipelines /\ range.kind # "split" /\ pos \in Nat
  BY DEF Placed, IsSplit
<1>2. Denotes(range) \in Seq(Int) /\ Len(Denotes(range)) \in Nat
  BY <1>1, DenotesSeq, Zenon
<1>3. Walking => pos + 1 \in 1..Len(Denotes(range)) + 1
  BY <1>1, Standing, Zenon DEF Placed
<1> QED BY <1>1, <1>2, <1>3 DEF D

\* What out holds of the first n elements.
Gathered(n) ==
  IF query.op = "unstableUnique"
  THEN out \in Seq(Int) /\ IsInjective(out) /\ ToSet(out) = {D[k] : k \in 1..n}
  ELSE out = SubSeq(D, 1, n)

Copied ==
  ~IsSplit /\ query.op \in {"freeze", "each"} \cup Measured =>
    /\ phase # "crashed"
    /\ phase = "start" => out = <<>> /\ acc = 0
    /\ query.op \in Measured /\ phase = "walk" => out = <<>> /\ acc = pos
    /\ query.op \in Measured /\ phase = "again" => acc = Len(D) /\ Gathered(pos)
    /\ query.op \notin Measured /\ phase = "walk" => Gathered(pos)
    /\ phase = "done" => Gathered(Len(D))

LEMMA GatheredNone == ASSUME D \in Seq(Int), out = <<>> PROVE Gathered(0)
<1>1. SubSeq(D, 1, 0) = <<>>
  BY Nothing
<1>2. IsInjective(out) /\ ToSet(out) = {} /\ out \in Seq(Int)
  BY DEF IsInjective, ToSet
<1> QED BY <1>1, <1>2 DEF Gathered

LEMMA CopyGathers ==
  ASSUME Lawful, Placed, ~IsSplit, Copy, Gathered(pos)
  PROVE  Gathered(pos)'
<1>1. PICK ops : Reading(ops)
  BY DEF Copy
<1>2. /\ pos \in Nat /\ pos + 1 \in 1..Len(D) /\ D \in Seq(Int) /\ Len(D) \in Nat
      /\ Here.val = D[pos + 1]
  BY <1>1, ReadsHere
<1>3. PICK x : x = D[pos + 1]
  OBVIOUS
<1>4. /\ out' = IF query.op = "unstableUnique" /\ x \in ToSet(out) THEN out ELSE Append(out, x)
      /\ pos' = pos + 1 /\ UNCHANGED <<range, query>>
  <2>1. /\ out' = IF query.op = "unstableUnique" /\ Here.val \in ToSet(out)
                  THEN out ELSE Append(out, Here.val)
        /\ AdvanceFrom(Here.it, Here.made)
    BY DEF Copy
  <2> QED BY <1>2, <1>3, <2>1 DEF AdvanceFrom
<1>5. D' = D
  BY <1>4 DEF D
<1>6. CASE query.op # "unstableUnique"
  <2>1. out = SubSeq(D, 1, pos) /\ out' = Append(out, x)
    BY <1>4, <1>6 DEF Gathered
  <2>2. SubSeq(D, 1, pos + 1) = Append(SubSeq(D, 1, pos), D[pos + 1])
    BY <1>2, Grown
  <2>3. out' = SubSeq(D, 1, pos')
    BY <1>3, <1>4, <2>1, <2>2
  <2> QED BY <1>4, <1>5, <1>6, <2>3 DEF Gathered
<1>7. CASE query.op = "unstableUnique"
  <2>1. out \in Seq(Int) /\ IsInjective(out) /\ ToSet(out) = {D[k] : k \in 1..pos} /\ x \in Int
    <3>1. x \in Int
      BY <1>2, <1>3
    <3> QED BY <1>7, <3>1, Zenon DEF Gathered
  <2>2. {D[k] : k \in 1..pos + 1} = {D[k] : k \in 1..pos} \cup {x}
    <3>1. \A k : k \in 1..pos + 1 <=> k \in 1..pos \/ k = pos + 1
      BY <1>2
    <3> QED BY <1>3, <3>1, Zenon
  <2>3. CASE x \in ToSet(out)
    <3>1. out' = out /\ {D[k] : k \in 1..pos + 1} = ToSet(out)
      BY <1>4, <1>7, <2>1, <2>2, <2>3
    <3> QED BY <1>4, <1>5, <1>7, <2>1, <3>1 DEF Gathered
  <2>4. CASE x \notin ToSet(out)
    <3>1. out' = Append(out, x) /\ out' \in Seq(Int) /\ Len(out) \in Nat
      BY <1>4, <1>7, <2>1, <2>4
    <3>2. \A i \in 1..Len(out) : out'[i] = out[i] /\ out[i] # x
      BY <2>1, <2>4, <3>1 DEF ToSet
    <3>3. DOMAIN out' = 1..Len(out) + 1 /\ out'[Len(out) + 1] = x
      BY <2>1, <3>1
    <3>4. IsInjective(out')
      BY <2>1, <3>1, <3>2, <3>3 DEF IsInjective
    <3>5. ToSet(out') = ToSet(out) \cup {x}
      BY <2>1, <3>1, <3>2, <3>3 DEF ToSet
    <3> QED BY <1>4, <1>5, <1>7, <2>1, <2>2, <3>1, <3>4, <3>5 DEF Gathered
  <2> QED BY <2>3, <2>4
<1> QED BY <1>6, <1>7

LEMMA CopiedStep ==
  ASSUME Lawful, Placed, Kept, Leading, Copied, [Next]_vars PROVE Copied'
<1>0. UNCHANGED <<range, query>> /\ D' = D /\ (IsSplit' <=> IsSplit)
  BY SameQuery DEF D, IsSplit
<1>1. SUFFICES ASSUME ~IsSplit, query.op \in {"freeze", "each"} \cup Measured PROVE Copied'
  BY <1>0 DEF Copied
<1>2. ~ToBound /\ ~Crash
  BY <1>1, CrashBound DEF ToBound, Measured
<1>3. D \in Seq(Int) /\ Len(D) \in Nat /\ pos \in Nat /\ (Walking => pos <= Len(D))
  BY <1>1, PosInD
<1>4. CASE UNCHANGED vars
  BY <1>0, <1>4 DEF vars, Copied, Gathered
<1>5. CASE Start
  <2>1. phase = "start" /\ phase' = "walk" /\ pos' = 0 /\ UNCHANGED <<out, acc>>
    BY <1>1, <1>5, StartPlaced
  <2>2. out = <<>> /\ acc = 0
    BY <1>1, <2>1 DEF Copied
  <2>3. Gathered(0)
    BY <1>3, <2>2, GatheredNone
  <2>4. Gathered(pos)'
    BY <1>0, <2>1, <2>3 DEF Gathered
  <2> QED BY <1>0, <2>1, <2>2, <2>4 DEF Copied, Measured
<1>6. CASE Copy
  <2>1. Walking /\ (query.op \in Measured => phase = "again") /\ UNCHANGED acc
    BY <1>6 DEF Copy, Reading
  <2>2. Gathered(pos)
    BY <1>1, <2>1 DEF Copied, Walking, Placed, Measured
  <2>3. Gathered(pos)' /\ phase' = phase
    BY <1>1, <1>6, <2>2, CopyGathers, RoundPlaced
  <2> QED BY <1>0, <1>1, <2>1, <2>3 DEF Copied, Walking
<1>7. CASE Count
  <2>1. phase = "walk" /\ query.op \in Measured /\ acc' = acc + 1 /\ out' = out
    BY <1>1, <1>7 DEF Count, Reading, Measured
  <2>2. pos' = pos + 1 /\ phase' = phase
    BY <1>1, <1>7, RoundPlaced
  <2> QED BY <1>0, <1>1, <2>1, <2>2 DEF Copied
<1>8. CASE Finish
  <2>1. Walking /\ Equal(range, it, stop) /\ Ends(FALSE, it, made)
    BY <1>8 DEF Finish
  <2>2. pos = Len(D)
    BY <1>1, <1>2, <2>1, AtLast
  <2>3. CASE query.op \in Measured /\ phase = "walk"
    <3>1. Walk(saved, made, made, stop, "again") /\ out = <<>> /\ acc = Len(D)
      BY <1>1, <2>1, <2>2, <2>3 DEF Ends, Copied, Measured
    <3>2. phase' = "again" /\ pos' = 0 /\ UNCHANGED <<out, acc>>
      BY <3>1 DEF Walk
    <3>3. Gathered(0)
      BY <1>3, <3>1, GatheredNone
    <3>4. Gathered(pos)'
      BY <1>0, <3>2, <3>3 DEF Gathered
    <3> QED BY <1>0, <2>3, <3>1, <3>2, <3>4 DEF Copied
  <2>4. CASE ~(query.op \in Measured /\ phase = "walk")
    <3>1. phase' = "done" /\ UNCHANGED <<out, acc>>
      BY <1>1, <2>1, <2>4 DEF Ends, Answer, Measured
    <3>2. Gathered(Len(D))
      BY <1>1, <2>1, <2>2, <2>4 DEF Copied, Walking, Placed
    <3>3. Gathered(Len(D))'
      BY <1>0, <3>1, <3>2 DEF Gathered
    <3> QED BY <1>0, <3>1, <3>3 DEF Copied
  <2> QED BY <2>3, <2>4
<1>9. ~(Fold \/ Group \/ Miss \/ Hit \/ Singleton \/ Seize \/ Compete \/ Extremum \/ Name)
  BY <1>1 DEF Fold, Group, Miss, Hit, Singleton, Seize, Compete, Extremum, Name, Reading,
              Seeking, Quantifiers, Extrema, Measured
<1> QED BY <1>2, <1>4, <1>5, <1>6, <1>7, <1>8, <1>9 DEF Next
-----------------------------------------------------------------------------
(* What has been counted, folded and parted of the elements before it. *)

LEMMA TakenNone == ASSUME NEW whole PROVE TakenFrom(<<>>, whole, {})
<1> DEFINE at == [i \in DOMAIN <<>> |-> 0]
<1>1. at \in [DOMAIN <<>> -> {}] /\ DOMAIN <<>> = {}
  OBVIOUS
<1> HIDE DEF at
<1> QED BY <1>1 DEF TakenFrom

LEMMA TakenMore ==
  ASSUME NEW part \in Seq(Int), NEW whole, NEW p \in Nat, NEW places \in SUBSET Nat,
         \A q \in places : q < p, TakenFrom(part, whole, places)
  PROVE  TakenFrom(Append(part, whole[p]), whole, places \cup {p})
<1>1. PICK at \in [DOMAIN part -> places] :
        /\ \A i, j \in DOMAIN part : i < j => at[i] < at[j]
        /\ \A q \in places : \E i \in DOMAIN part : at[i] = q
        /\ \A i \in DOMAIN part : part[i] = whole[at[i]]
  BY DEF TakenFrom
<1> DEFINE l    == Len(part)
           more == Append(part, whole[p])
           to   == [i \in 1..l + 1 |-> IF i = l + 1 THEN p ELSE at[i]]
<1>2. l \in Nat /\ DOMAIN part = 1..l /\ DOMAIN more = 1..l + 1 /\ more[l + 1] = whole[p]
  OBVIOUS
<1>3. \A i \in 1..l : more[i] = part[i] /\ at[i] \in places /\ at[i] < p /\ at[i] \in Nat
  <2>1. \A i \in 1..l : more[i] = part[i]
    BY <1>2
  <2>2. \A i \in DOMAIN part : at[i] \in places
    BY <1>1
  <2> QED BY <1>2, <2>1, <2>2
<1> HIDE DEF l, more
<1>4. to \in [DOMAIN more -> places \cup {p}]
  BY <1>2, <1>3
<1>5. to[l + 1] = p /\ \A i \in 1..l : to[i] = at[i]
  BY <1>2
<1> HIDE DEF to
<1>6. \A i, j \in DOMAIN more : i < j => to[i] < to[j]
  <2> SUFFICES ASSUME NEW i \in 1..l + 1, NEW j \in 1..l + 1, i < j PROVE to[i] < to[j]
    BY <1>2
  <2>1. i \in 1..l
    BY <1>2
  <2>2. CASE j = l + 1
    BY <1>3, <1>5, <2>1, <2>2
  <2>3. CASE j \in 1..l
    BY <1>1, <1>2, <1>5, <2>1, <2>3
  <2> QED BY <1>2, <2>2, <2>3
<1>7. \A q \in places \cup {p} : \E i \in DOMAIN more : to[i] = q
  <2>1. l + 1 \in DOMAIN more /\ \A i \in 1..l : i \in DOMAIN more
    BY <1>2
  <2> QED BY <1>1, <1>2, <1>5, <2>1
<1>8. \A i \in DOMAIN more : more[i] = whole[to[i]]
  <2>1. \A i \in 1..l : more[i] = whole[to[i]]
    BY <1>1, <1>2, <1>3, <1>5
  <2>2. more[l + 1] = whole[to[l + 1]]
    BY <1>2, <1>5
  <2> QED BY <1>2, <2>1, <2>2
<1>9. TakenFrom(more, whole, places \cup {p})
  BY <1>4, <1>6, <1>7, <1>8, Zenon DEF TakenFrom
<1> QED BY <1>9 DEF more

\* The places before n of the elements with a key.
Keyed(k, n) == {i \in 1..n : Key(D[i]) = k}

Parted(n) ==
  /\ DOMAIN out = {Key(D[k]) : k \in 1..n}
  /\ \A k \in DOMAIN out : out[k] \in Seq(Int) /\ TakenFrom(out[k], D, Keyed(k, n))

Tallied(n) ==
  /\ query.op = "size" => acc = n
  /\ query.op = "fold" => acc = SubSeq(D, 1, n)
  /\ query.op = "groupBy" => Parted(n)

LEMMA GroupParts ==
  ASSUME Lawful, Placed, ~IsSplit, Group, Parted(pos)
  PROVE  Parted(pos)'
<1>1. Reading({"groupBy"}) /\ AdvanceFrom(Here.it, Here.made)
      /\ out' = Grouped(out, Key(Here.val), Here.val)
  BY DEF Group
<1>2. /\ pos \in Nat /\ pos + 1 \in 1..Len(D) /\ D \in Seq(Int) /\ Here.val = D[pos + 1]
  BY <1>1, ReadsHere
<1>3. PICK x, key, n : x = D[pos + 1] /\ key = Key(x) /\ n = pos + 1
  OBVIOUS
<1>4. out' = Grouped(out, key, x) /\ pos' = n /\ x \in Int /\ D' = D
  BY <1>1, <1>2, <1>3 DEF AdvanceFrom, D
<1>5. Parted(pos)' <=> /\ DOMAIN out' = {Key(D[k]) : k \in 1..n}
                       /\ \A k \in DOMAIN out' : /\ out'[k] \in Seq(Int)
                                                 /\ TakenFrom(out'[k], D, Keyed(k, n))
  BY <1>4 DEF Parted, Keyed
<1>6. DOMAIN out' = DOMAIN out \cup {key}
  BY <1>4 DEF Grouped
<1>7. {Key(D[k]) : k \in 1..n} = {Key(D[k]) : k \in 1..pos} \cup {key}
  BY <1>2, <1>3
<1>8. DOMAIN out = {Key(D[k]) : k \in 1..pos}
  BY DEF Parted
<1>9. ASSUME NEW k \in DOMAIN out'
      PROVE  out'[k] \in Seq(Int) /\ TakenFrom(out'[k], D, Keyed(k, n))
  <2>1. CASE k # key
    <3>1. k \in DOMAIN out /\ out'[k] = out[k]
      BY <1>4, <1>6, <2>1 DEF Grouped
    <3>2. Keyed(k, n) = Keyed(k, pos)
      BY <1>2, <1>3, <2>1 DEF Keyed
    <3> QED BY <3>1, <3>2 DEF Parted
  <2>2. CASE k = key /\ key \in DOMAIN out
    <3>1. out'[k] = Append(out[k], D[n])
      BY <1>3, <1>4, <1>6, <2>2 DEF Grouped
    <3>2. out[k] \in Seq(Int) /\ TakenFrom(out[k], D, Keyed(k, pos))
      BY <2>2 DEF Parted
    <3>3. /\ Keyed(k, n) = Keyed(k, pos) \cup {n} /\ Keyed(k, pos) \in SUBSET Nat /\ n \in Nat
          /\ \A q \in Keyed(k, pos) : q < n
      BY <1>2, <1>3, <2>2 DEF Keyed
    <3>4. TakenFrom(Append(out[k], D[n]), D, Keyed(k, pos) \cup {n})
      BY <3>2, <3>3, TakenMore, Zenon
    <3>5. \A s \in Seq(Int), y \in Int : Append(s, y) \in Seq(Int)
      OBVIOUS
    <3>6. D[n] \in Int
      BY <1>3, <1>4
    <3>7. Append(out[k], D[n]) \in Seq(Int)
      BY <3>2, <3>5, <3>6, Zenon
    <3> QED BY <3>1, <3>3, <3>4, <3>7, Zenon
  <2>3. CASE k = key /\ key \notin DOMAIN out
    <3>1. out'[k] = Append(<<>>, D[n])
      BY <1>3, <1>4, <1>6, <2>3 DEF Grouped
    <3>2. Keyed(k, pos) = {}
      BY <1>8, <2>3 DEF Keyed
    <3>3. Keyed(k, n) = {} \cup {n} /\ n \in Nat
      BY <1>2, <1>3, <2>3, <3>2 DEF Keyed
    <3>4. <<>> \in Seq(Int) /\ {} \in SUBSET Nat /\ (\A q \in {} : q < n)
      OBVIOUS
    <3>5. TakenFrom(Append(<<>>, D[n]), D, {} \cup {n})
      BY <3>3, <3>4, TakenNone, TakenMore, Zenon
    <3> QED BY <1>3, <1>4, <3>1, <3>3, <3>5
  <2> QED BY <2>1, <2>2, <2>3
<1> QED BY <1>5, <1>6, <1>7, <1>8, <1>9

Counted ==
  ~IsSplit /\ query.op \in {"size", "fold", "groupBy"} =>
    /\ phase = "start" => out = <<>> /\ acc = IF query.op = "fold" THEN <<>> ELSE 0
    /\ Walking => Tallied(pos)
    /\ phase = "done" => Tallied(Len(D))

LEMMA CountedStep ==
  ASSUME Lawful, Placed, Kept, Leading, Counted, [Next]_vars PROVE Counted'
<1>0. UNCHANGED <<range, query>> /\ D' = D /\ (IsSplit' <=> IsSplit)
  BY SameQuery DEF D, IsSplit
<1>1. SUFFICES ASSUME ~IsSplit, query.op \in {"size", "fold", "groupBy"} PROVE Counted'
  BY <1>0 DEF Counted
<1>2. ~ToBound /\ ~Crash
  BY <1>1, CrashBound DEF ToBound
<1>3. D \in Seq(Int) /\ Len(D) \in Nat /\ pos \in Nat
  BY <1>1, PosInD
<1>4. CASE UNCHANGED vars
  BY <1>0, <1>4 DEF vars, Counted, Tallied, Parted, Keyed, Walking
<1>5. CASE Start
  <2>1. phase = "start" /\ phase' = "walk" /\ pos' = 0 /\ UNCHANGED <<out, acc>>
    BY <1>1, <1>5, StartPlaced
  <2>2. out = <<>> /\ acc = IF query.op = "fold" THEN <<>> ELSE 0
    BY <1>1, <2>1 DEF Counted
  <2>3. SubSeq(D, 1, 0) = <<>>
    BY <1>3, Nothing
  <2>4. Parted(0)
    BY <2>2 DEF Parted
  <2>5. Tallied(pos)'
    BY <1>0, <2>1, <2>2, <2>3, <2>4 DEF Tallied, Parted, Keyed
  <2> QED BY <1>0, <2>1, <2>5 DEF Counted
<1>6. CASE Group
  <2>1. Walking /\ query.op = "groupBy"
    BY <1>6 DEF Group, Reading
  <2>2. Parted(pos)
    BY <1>1, <2>1 DEF Counted, Tallied
  <2>3. Parted(pos)' /\ phase' = phase
    BY <1>1, <1>6, <2>2, GroupParts, RoundPlaced
  <2> QED BY <1>0, <2>1, <2>3 DEF Counted, Tallied, Walking
<1>7. CASE Count
  <2>1. Walking /\ query.op = "size" /\ acc' = acc + 1
    BY <1>1, <1>7 DEF Count, Reading, Measured
  <2>2. pos' = pos + 1 /\ phase' = phase
    BY <1>1, <1>7, RoundPlaced
  <2> QED BY <1>0, <1>1, <2>1, <2>2 DEF Counted, Tallied, Walking
<1>8. CASE Fold
  <2>1. Reading({"fold"}) /\ acc' = Append(acc, Here.val)
    BY <1>8 DEF Fold, Combined
  <2>2. Walking /\ query.op = "fold" /\ Here.val = D[pos + 1] /\ pos + 1 \in 1..Len(D)
    BY <1>1, <2>1, ReadsHere
  <2>3. acc = SubSeq(D, 1, pos)
    BY <1>1, <2>2 DEF Counted, Tallied
  <2>4. acc' = SubSeq(D, 1, pos + 1)
    BY <1>3, <2>1, <2>2, <2>3, Grown
  <2>5. pos' = pos + 1 /\ phase' = phase
    BY <1>1, <1>8, RoundPlaced
  <2> QED BY <1>0, <2>2, <2>4, <2>5 DEF Counted, Tallied, Walking
<1>9. CASE Finish
  <2>1. Walking /\ Equal(range, it, stop) /\ Ends(FALSE, it, made)
    BY <1>9 DEF Finish
  <2>2. pos = Len(D)
    BY <1>1, <1>2, <2>1, AtLast
  <2>3. phase' = "done" /\ UNCHANGED <<out, acc>>
    BY <1>1, <2>1 DEF Ends, Answer, Measured
  <2>4. Tallied(Len(D))
    BY <1>1, <2>1, <2>2 DEF Counted
  <2>5. Tallied(Len(D))'
    BY <1>0, <2>3, <2>4 DEF Tallied, Parted, Keyed
  <2> QED BY <1>0, <2>3, <2>5 DEF Counted, Walking
<1>10. ~(Copy \/ Miss \/ Hit \/ Singleton \/ Seize \/ Compete \/ Extremum \/ Name)
  BY <1>1 DEF Copy, Miss, Hit, Singleton, Seize, Compete, Extremum, Name, Reading,
              Seeking, Quantifiers, Extrema, Measured
<1> QED BY <1>2, <1>4, <1>5, <1>6, <1>7, <1>8, <1>9, <1>10 DEF Next
-----------------------------------------------------------------------------
(* What has been looked at, and missed. *)

Missed(n) == \A k \in 1..n : ~Sought(D[k])

\* find and findBefore have found an element that can be read.
Landed ==
  /\ pos \in Nat /\ pos + 1 \in 1..Len(D)
  /\ Here.val = D[pos + 1] /\ Here.made = made

\* The search has ended at a hit, or at the end of the range.
HitThere  == pos \in Nat /\ pos + 1 \in 1..Len(D) /\ Missed(pos) /\ Sought(D[pos + 1])

Searched ==
  ~IsSplit /\ query.op \in {"find"} \cup Quantifiers =>
    /\ phase # "crashed"
    /\ Walking => Missed(pos)
    /\ phase = "done" =>
         \/ HitThere /\ (found <=> query.op \in {"find", "any"}) /\ (query.op = "find" => Landed)
         \/ Missed(Len(D)) /\ (found <=> query.op \notin {"find", "any"})

LEMMA MissMisses ==
  ASSUME Lawful, Placed, Kept, Leading, ~IsSplit, Miss, Missed(pos) PROVE Missed(pos)'
<1>1. Reading(Seeking) /\ ~Sought(Here.val)
  BY DEF Miss
<1>2. pos \in Nat /\ pos + 1 \in 1..Len(D) /\ Here.val = D[pos + 1]
  BY <1>1, ReadsHere
<1>3. pos' = pos + 1 /\ UNCHANGED <<range, query, phase>>
  BY RoundPlaced
<1>4. \A k \in 1..pos + 1 : ~Sought(D[k])
  BY <1>1, <1>2 DEF Missed
<1> QED BY <1>3, <1>4 DEF Missed, Sought, D

\* A hit: what Ends is given.
LEMMA HitEnds ==
  ASSUME Lawful, Placed, ~IsSplit, Hit, Missed(pos)
  PROVE  /\ Walking /\ query.op \in Seeking /\ HitThere
         /\ \E i : /\ Ends(TRUE, i, Here.made)
                   /\ Stands(range, i, Here.made, pos + 1)
                   /\ query.op \notin Quantifiers =>
                        /\ Dereferenced(range, i, Here.made).made = Here.made
                        /\ Dereferenced(range, i, Here.made).val = D[pos + 1]
<1>1. Reading(Seeking) /\ Sought(Here.val)
  BY DEF Hit
<1>2. PICK i : /\ i = IF query.op \in Quantifiers THEN it ELSE Here.it
               /\ Ends(TRUE, i, Here.made)
  BY DEF Hit
<1>3. /\ Walking /\ query.op \in Seeking /\ pos \in Nat /\ pos + 1 \in 1..Len(D)
      /\ Here.val = D[pos + 1]
      /\ Stands(range, Here.it, Here.made, pos + 1) /\ Stands(range, it, Here.made, pos + 1)
      /\ ~AtEnd(range, Here.it) /\ Dereferenced(range, Here.it, Here.made).made = Here.made
  BY <1>1, ReadsHere
<1>4. range \in Pipelines /\ range.kind # "split"
  BY DEF Placed, IsSplit
<1>5. ReadsAs(range, Here.it, Here.made, pos + 1, Dereferenced(range, Here.it, Here.made))
  BY <1>3, <1>4, ReadsThere, Zenon
<1>6. Dereferenced(range, Here.it, Here.made).val = D[pos + 1]
  BY <1>5, Zenon DEF ReadsAs, D
<1> QED BY <1>1, <1>2, <1>3, <1>6 DEF HitThere

\* find and the quantifiers answer.
LEMMA AnswerHit ==
  ASSUME Lawful, Placed, ~IsSplit, query.op \in Seeking, HitThere,
         NEW i, Answer(TRUE, i, Here.made),
         query.op \notin Quantifiers =>
           /\ Dereferenced(range, i, Here.made).made = Here.made
           /\ Dereferenced(range, i, Here.made).val = D[pos + 1]
  PROVE  /\ phase' = "done" /\ UNCHANGED <<range, query, pos, stop>>
         /\ found' <=> query.op \notin {"all", "none"}
         /\ query.op \notin Quantifiers => Landed'
<1>1. /\ phase' = "done" /\ UNCHANGED <<range, query, pos, stop>>
      /\ it' = i /\ made' = Here.made
      /\ found' <=> query.op \notin {"all", "none"}
  BY DEF Answer
<1>2. query.op \notin Quantifiers => Here'.made = made' /\ Here'.val = D[pos + 1]
  BY <1>1 DEF Here
<1> QED BY <1>1, <1>2 DEF Landed, HitThere, D

LEMMA SearchedStep ==
  ASSUME Lawful, Placed, Kept, Leading, Searched, [Next]_vars PROVE Searched'
<1>0. UNCHANGED <<range, query>> /\ D' = D /\ (IsSplit' <=> IsSplit)
  BY SameQuery DEF D, IsSplit
<1>1. SUFFICES ASSUME ~IsSplit, query.op \in {"find"} \cup Quantifiers PROVE Searched'
  BY <1>0 DEF Searched
<1>2. ~ToBound /\ ~Crash /\ query.op # "findBefore"
  BY <1>1, CrashBound DEF ToBound, Quantifiers
<1>3. D \in Seq(Int) /\ Len(D) \in Nat /\ pos \in Nat
  BY <1>1, PosInD
<1>4. \A x : Sought(x)' <=> Sought(x)
  BY <1>0, <1>2, Zenon DEF Sought
<1>5. CASE UNCHANGED vars
  BY <1>0, <1>4, <1>5 DEF vars, Searched, Missed, HitThere, Landed, Here, Walking
<1>6. CASE Start
  <2>1. phase' = "walk" /\ pos' = 0
    BY <1>1, <1>6, StartPlaced
  <2>2. Missed(pos)'
    BY <2>1 DEF Missed
  <2> QED BY <2>1, <2>2 DEF Searched
<1>7. CASE Miss
  <2>1. Walking /\ phase' = phase
    BY <1>1, <1>7, RoundPlaced
  <2>2. Missed(pos)
    BY <1>1, <2>1 DEF Searched
  <2>3. Missed(pos)'
    BY <1>1, <1>7, <2>2, MissMisses
  <2> QED BY <2>1, <2>3 DEF Searched, Walking
<1>8. CASE Hit
  <2>1. Walking
    BY <1>8 DEF Hit, Reading
  <2>2. Missed(pos)
    BY <1>1, <2>1 DEF Searched
  <2>3. /\ query.op \in Seeking /\ HitThere
        /\ \E i : /\ Ends(TRUE, i, Here.made)
                  /\ query.op \notin Quantifiers =>
                       /\ Dereferenced(range, i, Here.made).made = Here.made
                       /\ Dereferenced(range, i, Here.made).val = D[pos + 1]
    BY <1>1, <1>8, <2>2, HitEnds
  <2>4. PICK i : /\ Ends(TRUE, i, Here.made)
                 /\ query.op \notin Quantifiers =>
                      /\ Dereferenced(range, i, Here.made).made = Here.made
                      /\ Dereferenced(range, i, Here.made).val = D[pos + 1]
    BY <2>3
  <2>5. Answer(TRUE, i, Here.made)
    BY <1>1, <1>2, <2>4 DEF Ends, Measured, Quantifiers
  <2>6. /\ phase' = "done" /\ UNCHANGED <<range, query, pos, stop>>
        /\ found' <=> query.op \notin {"all", "none"}
        /\ query.op \notin Quantifiers => Landed'
    BY <1>1, <2>3, <2>4, <2>5, AnswerHit
  <2>7. HitThere'
    BY <1>0, <1>4, <2>3, <2>6 DEF HitThere, Missed
  <2> QED BY <1>0, <1>1, <2>6, <2>7 DEF Searched, Walking, Quantifiers
<1>9. CASE Finish
  <2>1. Walking /\ Equal(range, it, stop) /\ Ends(FALSE, it, made)
    BY <1>9 DEF Finish
  <2>2. pos = Len(D) /\ Missed(pos)
    BY <1>1, <1>2, <2>1, AtLast DEF Searched
  <2>3. phase' = "done" /\ (found' <=> query.op \in {"all", "none"})
    BY <1>1, <1>2, <2>1 DEF Ends, Answer, Measured, Quantifiers
  <2>4. Missed(Len(D))'
    BY <1>0, <1>4, <2>2 DEF Missed
  <2> QED BY <1>0, <1>1, <2>3, <2>4 DEF Searched, Walking, Quantifiers
<1>10. ~(Copy \/ Count \/ Fold \/ Group \/ Singleton \/ Seize \/ Compete \/ Extremum \/ Name)
  BY <1>1 DEF Copy, Count, Fold, Group, Singleton, Seize, Compete, Extremum, Name, Reading,
              Quantifiers, Extrema, Measured
<1> QED BY <1>2, <1>5, <1>6, <1>7, <1>8, <1>9, <1>10 DEF Next
-----------------------------------------------------------------------------
(* findBefore, and its bound. *)

\* The first place of what must come later, past the last if there is none.
BoundAt(b) ==
  /\ b \in 1..Len(D) + 1 /\ (b <= Len(D) => D[b] \in query.before)
  /\ \A k \in 1..b - 1 : D[k] \notin query.before

StopsAt(b) == BoundAt(b) /\ pos < b /\ Stands(range, stop, made, b)

Bounded ==
  ~IsSplit /\ query.op = "findBefore" =>
    /\ Walking => Missed(pos)
    /\ phase = "again" /\ ~Owns(range) => \E b : StopsAt(b)
    /\ phase = "done" /\ found => HitThere /\ Landed
    /\ phase = "done" /\ ~Owns(range) =>
         \E b : BoundAt(b) /\ IF found THEN pos + 1 < b
                              ELSE \A k \in 1..b - 1 : D[k] \notin query.what
    /\ phase = "crashed" => Owns(range)

\* Where the first walk ends, the second begins.
LEMMA BoundSet ==
  ASSUME Lawful, Placed, ~IsSplit, query.op = "findBefore", phase = "walk", NEW hit, NEW i,
         NEW mk \in Made, Ends(hit, i, mk),
         NEW b, BoundAt(b), Stands(range, Bound(hit, i), mk, b)
  PROVE  phase' = "again" /\ Missed(pos)' /\ StopsAt(b)' /\ UNCHANGED <<range, query>>
<1>1. range \in Pipelines /\ range.kind # "split"
  BY DEF Placed, IsSplit
<1>2. PICK c : c = BeginOf(range, mk) /\ Walk(c.it, c.made, mk, Bound(hit, i), "again")
  BY Zenon DEF Ends
<1>3. c.made \in Made /\ IsPrefix(mk, c.made)
  BY <1>1, <1>2, OpensThere, Zenon
<1>4. /\ phase' = "again" /\ pos' = 0 /\ made' = c.made /\ stop' = Bound(hit, i)
      /\ UNCHANGED <<range, query>>
  BY <1>2 DEF Walk
<1>5. Stands(range, stop', made', b)
  BY <1>1, <1>3, <1>4, StandsOn
<1>6. D' = D /\ pos' < b
  BY <1>4 DEF D, BoundAt
<1>7. BoundAt(b)'
  BY <1>4, <1>6 DEF BoundAt
<1>8. Missed(pos)'
  BY <1>4 DEF Missed
<1> QED BY <1>4, <1>5, <1>6, <1>7, <1>8 DEF StopsAt

LEMMA BoundedMiss ==
  ASSUME Lawful, Placed, Kept, Leading, ~IsSplit, query.op = "findBefore", Miss, Bounded
  PROVE  Bounded'
<1>1. Reading(Seeking) /\ \E i \in {Here.it} : AdvanceFrom(i, Here.made)
  BY DEF Miss, Quantifiers
<1>2. /\ Walking /\ ~Equal(range, it, stop) /\ Stands(range, it, made, pos + 1) /\ pos \in Nat
      /\ Stands(range, Here.it, Here.made, pos + 1) /\ Here.made \in Made
      /\ IsPrefix(made, Here.made) /\ ~AtEnd(range, Here.it)
  BY <1>1, ReadsHere
<1>3. /\ pos' = pos + 1 /\ IsPrefix(Here.made, made') /\ made' \in Made
      /\ UNCHANGED <<range, query, phase, stop>>
  BY <1>1, <1>2, AdvancePlaced
<1>4. range \in Pipelines /\ range.kind # "split" /\ D' = D
  BY <1>3 DEF Placed, IsSplit, D
<1>5. Missed(pos) /\ Missed(pos)'
  BY <1>2, MissMisses DEF Bounded
<1>6. ASSUME phase = "again", ~Owns(range) PROVE \E b : StopsAt(b)'
  <2>1. PICK b : StopsAt(b)
    BY <1>6 DEF Bounded
  <2>2. pos + 1 # b /\ b \in Nat /\ pos < b
    <3>1. Stands(range, stop, made, b) /\ b \in Nat /\ pos < b
      BY <2>1 DEF StopsAt, BoundAt
    <3>2. Equal(range, it, stop) <=> pos + 1 = b
      BY <1>2, <1>4, <1>6, <3>1, Compared, Zenon
    <3> QED BY <1>2, <3>1, <3>2, Zenon
  <2>3. Stands(range, stop, Here.made, b)
    BY <1>2, <1>4, <2>1, StandsOn DEF StopsAt
  <2>4. Stands(range, stop', made', b)
    BY <1>3, <1>4, <2>3, StandsOn
  <2>5. BoundAt(b)' /\ pos' < b
    BY <1>2, <1>3, <1>4, <2>1, <2>2 DEF StopsAt, BoundAt
  <2> QED BY <1>3, <2>4, <2>5 DEF StopsAt
<1> QED BY <1>2, <1>3, <1>5, <1>6 DEF Bounded, Walking

LEMMA BoundedHit ==
  ASSUME Lawful, Placed, ~IsSplit, query.op = "findBefore", Hit, Bounded
  PROVE  Bounded'
<1>1. Walking /\ Missed(pos) /\ Reading(Seeking)
  BY DEF Hit, Reading, Bounded
<1>2. /\ query.op \in Seeking /\ HitThere
      /\ \E i : /\ Ends(TRUE, i, Here.made)
                /\ Stands(range, i, Here.made, pos + 1)
                /\ query.op \notin Quantifiers =>
                     /\ Dereferenced(range, i, Here.made).made = Here.made
                     /\ Dereferenced(range, i, Here.made).val = D[pos + 1]
  BY <1>1, HitEnds
<1>3. PICK i : /\ Ends(TRUE, i, Here.made)
               /\ Stands(range, i, Here.made, pos + 1)
               /\ query.op \notin Quantifiers =>
                    /\ Dereferenced(range, i, Here.made).made = Here.made
                    /\ Dereferenced(range, i, Here.made).val = D[pos + 1]
  BY <1>2
<1>4. Here.made \in Made /\ ~Equal(range, it, stop) /\ Stands(range, it, made, pos + 1)
  BY <1>1, ReadsHere
<1>5. D \in Seq(Int) /\ Len(D) \in Nat /\ pos \in Nat /\ range \in Pipelines /\ range.kind # "split"
  BY PosInD DEF Placed, IsSplit
<1>6. CASE phase = "walk"
  <2>1. \A x : Sought(x) <=> x \in query.before
    BY <1>6, Zenon DEF Sought
  <2>2. PICK n : n = pos + 1
    OBVIOUS
  <2>3. BoundAt(n)
    BY <1>2, <1>5, <2>1, <2>2 DEF HitThere, Missed, BoundAt
  <2>4. Stands(range, Bound(TRUE, i), Here.made, n)
    BY <1>3, <2>2 DEF Bound
  <2>5. phase' = "again" /\ Missed(pos)' /\ StopsAt(n)' /\ UNCHANGED <<range, query>>
    BY <1>3, <1>4, <1>6, <2>3, <2>4, BoundSet
  <2> QED BY <2>5 DEF Bounded
<1>7. CASE phase = "again"
  <2>1. Answer(TRUE, i, Here.made) /\ query.op \notin Quantifiers
    BY <1>3, <1>7 DEF Ends, Measured, Quantifiers
  <2>2. /\ phase' = "done" /\ UNCHANGED <<range, query, pos, stop>> /\ found' /\ Landed'
    BY <1>2, <1>3, <2>1, AnswerHit
  <2>3. D' = D /\ \A x : Sought(x)' <=> Sought(x)
    BY <1>7, <2>2, Zenon DEF Sought, D
  <2>4. HitThere'
    BY <1>2, <2>2, <2>3 DEF HitThere, Missed
  <2>5. ASSUME ~Owns(range) PROVE \E b : BoundAt(b)' /\ pos + 1 < b
    <3>1. PICK b : StopsAt(b)
      BY <1>7, <2>5 DEF Bounded
    <3>2. Stands(range, stop, made, b) /\ b \in Nat /\ pos < b /\ BoundAt(b)
      BY <3>1 DEF StopsAt, BoundAt
    <3>3. Equal(range, it, stop) <=> pos + 1 = b
      BY <1>4, <1>5, <2>5, <3>2, Compared
    <3>4. pos + 1 # b
      BY <1>4, <3>3, Zenon
    <3>5. BoundAt(b)' /\ pos + 1 < b
      BY <1>5, <2>2, <2>3, <3>2, <3>4 DEF BoundAt
    <3> QED BY <3>5
  <2> QED BY <2>2, <2>4, <2>5 DEF Bounded, Walking
<1> QED BY <1>1, <1>6, <1>7 DEF Walking

LEMMA BoundedFinish ==
  ASSUME Lawful, Placed, ~IsSplit, query.op = "findBefore", Finish, Bounded
  PROVE  Bounded'
<1>1. Walking /\ Missed(pos) /\ Equal(range, it, stop) /\ Ends(FALSE, it, made)
  BY DEF Finish, Bounded
<1>2. /\ D \in Seq(Int) /\ Len(D) \in Nat /\ pos \in Nat /\ made \in Made
      /\ range \in Pipelines /\ range.kind # "split" /\ Stands(range, it, made, pos + 1)
  BY <1>1, PosInD DEF Placed, IsSplit
<1>3. CASE phase = "walk"
  <2>1. \A x : Sought(x) <=> x \in query.before
    BY <1>3, Zenon DEF Sought
  <2>2. pos = Len(D)
    BY <1>1, <1>3, AtLast DEF ToBound
  <2>3. PICK n : n = Len(D) + 1
    OBVIOUS
  <2>4. BoundAt(n)
    BY <1>1, <1>2, <2>1, <2>2, <2>3 DEF Missed, BoundAt
  <2>5. Stands(range, EndOf(range), made, n)
    BY <1>2, <2>3, OpensThere DEF D
  <2>6. Stands(range, Bound(FALSE, it), made, n)
    BY <2>5 DEF Bound
  <2>7. phase' = "again" /\ Missed(pos)' /\ StopsAt(n)' /\ UNCHANGED <<range, query>>
    BY <1>1, <1>2, <1>3, <2>4, <2>6, BoundSet
  <2> QED BY <2>7 DEF Bounded
<1>4. CASE phase = "again"
  <2>1. Answer(FALSE, it, made)
    BY <1>1, <1>4 DEF Ends, Measured
  <2>2. phase' = "done" /\ UNCHANGED <<range, query, pos, stop>> /\ found' = FALSE
    BY <2>1 DEF Answer
  <2>3. D' = D /\ \A x : Sought(x) <=> x \in query.what
    BY <1>4, <2>2, Zenon DEF Sought, D
  <2>4. ASSUME ~Owns(range)
        PROVE \E b : BoundAt(b)' /\ \A k \in 1..b - 1 : D[k] \notin query.what
    <3>1. PICK b : StopsAt(b)
      BY <1>4, <2>4 DEF Bounded
    <3>2. Stands(range, stop, made, b) /\ BoundAt(b)
      BY <3>1 DEF StopsAt
    <3>3. Equal(range, it, stop) <=> pos + 1 = b
      BY <1>2, <2>4, <3>2, Compared
    <3>4. pos + 1 = b
      BY <1>1, <3>3, Zenon
    <3>5. BoundAt(b)' /\ \A k \in 1..b - 1 : D[k] \notin query.what
      BY <1>1, <1>2, <2>2, <2>3, <3>2, <3>4 DEF BoundAt, Missed
    <3> QED BY <3>5
  <2> QED BY <2>2, <2>3, <2>4 DEF Bounded, Walking
<1> QED BY <1>1, <1>3, <1>4 DEF Walking

LEMMA BoundedStep ==
  ASSUME Lawful, Placed, Kept, Leading, Bounded, [Next]_vars PROVE Bounded'
<1>0. UNCHANGED <<range, query>> /\ D' = D /\ (IsSplit' <=> IsSplit)
  BY SameQuery DEF D, IsSplit
<1>1. SUFFICES ASSUME ~IsSplit, query.op = "findBefore" PROVE Bounded'
  BY <1>0 DEF Bounded
<1>2. CASE UNCHANGED vars
  <2>1. \A x : Sought(x)' <=> Sought(x)
    BY <1>2, Zenon DEF Sought, vars
  <2> QED BY <1>0, <1>2, <2>1 DEF vars, Bounded, Missed, HitThere, Landed, StopsAt, BoundAt,
                                   Here, Walking
<1>3. CASE Start
  <2>1. phase' = "walk" /\ pos' = 0
    BY <1>1, <1>3, StartPlaced
  <2>2. Missed(pos)'
    BY <2>1 DEF Missed
  <2> QED BY <2>1, <2>2 DEF Bounded
<1>4. CASE Miss
  BY <1>1, <1>4, BoundedMiss
<1>5. CASE Hit
  BY <1>1, <1>5, BoundedHit
<1>6. CASE Finish
  BY <1>1, <1>6, BoundedFinish
<1>7. CASE Crash
  <2>1. /\ Walking /\ ~Equal(range, it, stop) /\ AtEnd(range, it) /\ phase' = "crashed"
        /\ phase = "again"
    BY <1>1, <1>7, CrashBound DEF Crash, ToBound
  <2>2. /\ range \in Pipelines /\ range.kind # "split" /\ Stands(range, it, made, pos + 1)
        /\ D \in Seq(Int) /\ Len(D) \in Nat /\ pos \in Nat
    BY <1>1, <2>1, PosInD DEF Placed, IsSplit
  <2>3. ASSUME ~Owns(range) PROVE FALSE
    <3>1. PICK b : StopsAt(b)
      BY <1>1, <2>1, <2>3 DEF Bounded
    <3>2. Stands(range, stop, made, b) /\ BoundAt(b) /\ pos < b
      BY <3>1 DEF StopsAt
    <3>3. Equal(range, it, stop) <=> pos + 1 = b
      BY <2>2, <2>3, <3>2, Compared
    <3>4. pos + 1 = Len(D) + 1
      BY <2>1, <2>2, Standing, Zenon DEF D
    <3> QED BY <2>1, <2>2, <3>2, <3>3, <3>4 DEF BoundAt
  <2> QED BY <1>0, <2>1, <2>3 DEF Bounded, Walking
<1>8. ~(Copy \/ Count \/ Fold \/ Group \/ Singleton \/ Seize \/ Compete \/ Extremum \/ Name)
  BY <1>1 DEF Copy, Count, Fold, Group, Singleton, Seize, Compete, Extremum, Name, Reading,
              Extrema, Measured
<1> QED BY <1>2, <1>3, <1>4, <1>5, <1>6, <1>7, <1>8 DEF Next
-----------------------------------------------------------------------------
(* min, max and singleton. *)

\* The best element of all is answered, if there is one.
Won ==
  IF Len(D) = 0 THEN out = <<>> /\ query.op \in {"minOr", "maxOr"}
  ELSE \E w \in 1..Len(D) : out = <<D[w]>> /\ \A k \in 1..Len(D) : ~Beats(D[k], D[w])

Extremal ==
  ~IsSplit /\ query.op \in Extrema =>
    /\ phase \in {"start", "walk"} => out = <<>>
    /\ phase = "crashed" => Len(D) = 0 /\ query.op \in {"min", "max"}
    /\ phase = "done" => Won

LEMMA ExtremumWins ==
  ASSUME Lawful, Placed, Leading, ~IsSplit, Extremum, Extremal PROVE Extremal'
<1>1. Walking /\ query.op \in Extrema /\ Equal(range, it, stop) /\ UNCHANGED <<range, query>>
  BY DEF Extremum
<1>2. ~ToBound /\ phase = "walk" /\ out = <<>>
  BY <1>1 DEF ToBound, Extrema, Extremal, Walking, Placed, Measured
<1>3. pos = Len(D) /\ D \in Seq(Int) /\ Len(D) \in Nat /\ D' = D
  BY <1>1, <1>2, AtLast DEF D
<1>4. range \in Pipelines /\ range.kind # "split"
  BY DEF Placed, IsSplit
<1>5. CASE Len(D) = 0
  <2>1. Stands(range, saved, made, 1)
    BY <1>1, <1>3, <1>5 DEF Leading
  <2>2. 1 = Len(Denotes(range)) + 1
    BY <1>5 DEF D
  <2>3. AtEnd(range, saved)
    BY <1>4, <2>1, <2>2, Standing, Zenon
  <2>4. out' = out /\ phase' = IF query.op \in {"min", "max"} THEN "crashed" ELSE "done"
    BY <2>3 DEF Extremum
  <2> QED BY <1>1, <1>2, <1>3, <1>5, <2>4 DEF Extremal, Extrema, Won
<1>6. CASE Len(D) # 0
  <2>1. PICK w \in 1..pos : Beaten(w) /\ Stands(range, saved, made, w)
    BY <1>1, <1>3, <1>6 DEF Leading
  <2>2. ~AtEnd(range, saved)
    BY <1>3, <1>4, <2>1, Standing DEF D
  <2>3. ReadsAs(range, saved, made, w, Dereferenced(range, saved, made))
    BY <1>4, <2>1, <2>2, ReadsThere, Zenon
  <2>4. Dereferenced(range, saved, made).val = D[w]
    BY <2>3, Zenon DEF ReadsAs, D
  <2>5. phase' = "done" /\ out' = <<D[w]>>
    BY <2>2, <2>4 DEF Extremum
  <2>6. Won'
    BY <1>1, <1>3, <1>6, <2>1, <2>5 DEF Won, Beaten, Beats
  <2> QED BY <2>5, <2>6 DEF Extremal
<1> QED BY <1>5, <1>6

LEMMA ExtremalStep ==
  ASSUME Lawful, Placed, Kept, Leading, Extremal, [Next]_vars PROVE Extremal'
<1>0. UNCHANGED <<range, query>> /\ D' = D /\ (IsSplit' <=> IsSplit)
  BY SameQuery DEF D, IsSplit
<1>1. SUFFICES ASSUME ~IsSplit, query.op \in Extrema PROVE Extremal'
  BY <1>0 DEF Extremal
<1>2. ~ToBound /\ ~Crash
  BY <1>1, CrashBound DEF ToBound, Extrema
<1>3. CASE UNCHANGED vars
  BY <1>0, <1>3 DEF vars, Extremal, Won, Beats
<1>4. CASE Start
  <2>1. phase = "start" /\ phase' = "walk" /\ out' = out
    BY <1>1, <1>4, StartPlaced
  <2> QED BY <1>0, <1>1, <2>1 DEF Extremal
<1>5. CASE Seize \/ Compete
  <2>1. Walking /\ phase' = phase /\ out' = out
    BY <1>1, <1>5, RoundPlaced DEF Seize, Compete
  <2> QED BY <1>0, <1>1, <2>1 DEF Extremal, Walking
<1>6. CASE Extremum
  BY <1>1, <1>6, ExtremumWins
<1>7. ~(Copy \/ Count \/ Fold \/ Group \/ Miss \/ Hit \/ Finish \/ Singleton \/ Name)
  BY <1>1 DEF Copy, Count, Fold, Group, Miss, Hit, Finish, Singleton, Name, Reading,
              Seeking, Quantifiers, Extrema, Measured
<1> QED BY <1>2, <1>3, <1>4, <1>5, <1>6, <1>7 DEF Next

Single ==
  ~IsSplit /\ query.op = "singleton" =>
    /\ phase \in {"start", "done"}
    /\ phase = "done" => (found <=> Len(D) = 1) /\ (found => Here.val = D[1])

LEMMA SingleStep ==
  ASSUME Lawful, Placed, Single, [Next]_vars PROVE Single'
<1>0. UNCHANGED <<range, query>> /\ D' = D /\ (IsSplit' <=> IsSplit)
  BY SameQuery DEF D, IsSplit
<1>1. SUFFICES ASSUME ~IsSplit, query.op = "singleton" PROVE Single'
  BY <1>0 DEF Single
<1>2. CASE UNCHANGED vars
  BY <1>0, <1>2 DEF vars, Single, Here
<1>3. CASE Singleton
  <2>1. /\ Placed' /\ phase' = "done" /\ (found' <=> Len(D) = 1)
        /\ found' => Stands(range, it', made', 1)
    BY <1>1, <1>3, SingletonPlaced
  <2>2. ASSUME found' PROVE Here'.val = D[1]
    <3>1. Stands(range, it', made', 1) /\ range \in Pipelines /\ range.kind # "split"
      BY <1>1, <2>1, <2>2 DEF Placed, IsSplit
    <3>2. Denotes(range) \in Seq(Int) /\ Len(Denotes(range)) = 1
      BY <2>1, <2>2, <3>1, DenotesSeq DEF D
    <3>3. ~AtEnd(range, it')
      BY <3>1, <3>2, Standing
    <3>4. ReadsAs(range, it', made', 1, Dereferenced(range, it', made'))
      BY <3>1, <3>3, ReadsThere, Zenon
    <3>5. Here' = Dereferenced(range, it', made')
      BY <1>0 DEF Here
    <3> QED BY <3>4, <3>5, Zenon DEF ReadsAs, D
  <2> QED BY <1>0, <2>1, <2>2 DEF Single
<1>4. phase \in {"start", "done"}
  BY <1>1 DEF Single
<1>5. ~(Start \/ Crash \/ Copy \/ Count \/ Fold \/ Group \/ Miss \/ Hit \/ Finish \/ Seize
        \/ Compete \/ Extremum \/ Name)
  BY <1>1, <1>4 DEF Start, Crash, Copy, Count, Fold, Group, Miss, Hit, Finish, Seize, Compete,
                    Extremum, Name, Reading, Walking
<1> QED BY <1>2, <1>3, <1>5 DEF Next
-----------------------------------------------------------------------------
(* The inductive invariant. *)

QueryIInv ==
  /\ Placed /\ Kept /\ Leading
  /\ Copied /\ Counted /\ Searched /\ Bounded /\ Extremal /\ Single

LEMMA QueryIInvInit == ASSUME Lawful, Init PROVE QueryIInv
<1>1. phase = "start" /\ out = <<>> /\ acc = IF query.op = "fold" THEN <<>> ELSE 0
  BY DEF Init
<1>2. Placed
  BY PlacedInit
<1>3. Kept /\ Leading
  BY <1>1 DEF Kept, Leading, Walking
<1>4. Copied /\ Counted /\ Searched /\ Bounded /\ Extremal /\ Single
  BY <1>1 DEF Copied, Counted, Searched, Bounded, Extremal, Single, Walking, Measured
<1> QED BY <1>2, <1>3, <1>4 DEF QueryIInv

LEMMA QueryIInvStep == ASSUME Lawful, QueryIInv, [Next]_vars PROVE QueryIInv'
BY StepPlaced, CopiedStep, CountedStep, SearchedStep, BoundedStep, ExtremalStep, SingleStep
   DEF QueryIInv

LEMMA QueryIInvHolds == ASSUME Lawful PROVE Spec => []QueryIInv
<1>1. Init => QueryIInv
  BY QueryIInvInit
<1>2. QueryIInv /\ [Next]_vars => QueryIInv'
  BY QueryIInvStep
<1> QED BY <1>1, <1>2, PTL DEF Spec
-----------------------------------------------------------------------------
(* The answers. *)

LEMMA SplitAsks == ASSUME Placed, IsSplit PROVE query.op \in {"each", "name"}
BY DEF Placed, IsSplit, Asks

LEMMA FreezeImplied == ASSUME Lawful, QueryIInv PROVE FreezeDenotes
<1>1. SUFFICES ASSUME query.op \in {"freeze", "each"} \cup Measured, ~IsSplit
               PROVE  /\ phase # "crashed"
                      /\ query.op \in Measured /\ phase = "again" => pos <= acc
                      /\ phase = "done" =>
                           IF query.op = "unstableUnique"
                           THEN IsInjective(out) /\ ToSet(out) = ToSet(D)
                           ELSE out = D
  BY DEF FreezeDenotes, D
<1>2. Placed /\ Copied
  BY DEF QueryIInv
<1>3. D \in Seq(Int) /\ Len(D) \in Nat /\ (Walking => pos <= Len(D))
  BY <1>1, <1>2, PosInD
<1>4. SubSeq(D, 1, Len(D)) = D /\ ToSet(D) = {D[k] : k \in 1..Len(D)}
  BY <1>3 DEF ToSet
<1>5. query.op \in Measured /\ phase = "again" => pos <= acc
  BY <1>1, <1>2, <1>3 DEF Copied, Walking
<1>6. phase = "done" => Gathered(Len(D))
  BY <1>1, <1>2 DEF Copied
<1> QED BY <1>1, <1>2, <1>4, <1>5, <1>6 DEF Copied, Gathered

LEMMA FoldsImplied == ASSUME Lawful, QueryIInv PROVE FoldsDenote
<1>1. SUFFICES ASSUME phase = "done" PROVE FoldsDenote
  BY DEF FoldsDenote
<1>2. Placed /\ Counted /\ Searched
  BY DEF QueryIInv
<1>3. CASE IsSplit
  BY <1>2, <1>3, SplitAsks DEF FoldsDenote
<1>4. CASE ~IsSplit
  <2>1. D \in Seq(Int) /\ Len(D) \in Nat
    BY <1>2, <1>4, PosInD
  <2>2. query.op \in {"size", "fold", "groupBy"} => Tallied(Len(D))
    BY <1>1, <1>2, <1>4 DEF Counted
  <2>3. SubSeq(D, 1, Len(D)) = D /\ ToSet(D) = {D[k] : k \in 1..Len(D)} /\ DOMAIN D = 1..Len(D)
    BY <2>1 DEF ToSet
  <2>4. query.op = "size" => acc = Len(D)
    BY <2>2 DEF Tallied
  <2>5. query.op = "fold" => acc = D
    BY <2>2, <2>3 DEF Tallied
  <2>6. query.op = "groupBy" =>
          /\ DOMAIN out = {Key(x) : x \in ToSet(D)}
          /\ \A k \in DOMAIN out : TakenFrom(out[k], D, {i \in DOMAIN D : Key(D[i]) = k})
    <3> SUFFICES ASSUME query.op = "groupBy" PROVE <2>6!2
      OBVIOUS
    <3>1. Parted(Len(D))
      BY <2>2 DEF Tallied
    <3>2. {Key(D[k]) : k \in 1..Len(D)} = {Key(x) : x \in ToSet(D)}
      BY <2>3
    <3>3. \A k : Keyed(k, Len(D)) = {i \in DOMAIN D : Key(D[i]) = k}
      BY <2>3, Zenon DEF Keyed
    <3> QED BY <3>1, <3>2, <3>3, Zenon DEF Parted
  <2>7. ASSUME query.op \in Quantifiers
        PROVE  LET all  == ToSet(D)
                   good == all \cap query.what
               IN  /\ query.op = "all"  => (found <=> good = all)
                   /\ query.op = "any"  => (found <=> good # {})
                   /\ query.op = "none" => (found <=> good = {})
    <3>1. \/ HitThere /\ (found <=> query.op = "any")
          \/ Missed(Len(D)) /\ (found <=> query.op # "any")
      BY <1>1, <1>2, <1>4, <2>7 DEF Searched, Quantifiers
    <3>2. \A x : Sought(x) <=> IF query.op = "all" THEN x \notin query.what ELSE x \in query.what
      BY <1>1, <2>7, Zenon DEF Sought, Quantifiers
    <3>3. CASE HitThere /\ (found <=> query.op = "any")
      <4>1. \E x \in ToSet(D) : Sought(x)
        BY <2>3, <3>3 DEF HitThere
      <4> QED BY <2>7, <3>2, <3>3, <4>1 DEF Quantifiers
    <3>4. CASE Missed(Len(D)) /\ (found <=> query.op # "any")
      <4>1. \A x \in ToSet(D) : ~Sought(x)
        BY <2>3, <3>4 DEF Missed
      <4> QED BY <2>7, <3>2, <3>4, <4>1 DEF Quantifiers
    <3> QED BY <3>1, <3>3, <3>4
  <2> QED BY <2>4, <2>5, <2>6, <2>7 DEF FoldsDenote, D, Quantifiers
<1> QED BY <1>3, <1>4

LEMMA ExtremaImplied == ASSUME Lawful, QueryIInv PROVE ExtremaHold
<1>1. SUFFICES ASSUME query.op \in Extrema PROVE ExtremaHold
  BY DEF ExtremaHold
<1>2. Placed /\ Extremal /\ ~IsSplit
  BY <1>1, SplitAsks DEF QueryIInv, Extrema
<1>3. D \in Seq(Int) /\ Len(D) \in Nat
  BY <1>2, PosInD
<1>4. ToSet(D) = {D[k] : k \in 1..Len(D)} /\ (Len(D) = 0 <=> ToSet(D) = {})
  <2>1. ToSet(D) = {D[k] : k \in 1..Len(D)}
    BY <1>3 DEF ToSet
  <2>2. Len(D) # 0 => 1 \in 1..Len(D)
    BY <1>3
  <2>3. Len(D) = 0 => 1..Len(D) = {}
    OBVIOUS
  <2> QED BY <2>1, <2>2, <2>3
<1>5. phase = "crashed" => ToSet(D) = {} /\ query.op \in {"min", "max"}
  BY <1>1, <1>2, <1>4 DEF Extremal
<1>6. ASSUME phase = "done", Len(D) # 0
      PROVE  out = << IF query.op \in {"min", "minOr"} THEN Min(ToSet(D)) ELSE Max(ToSet(D)) >>
  <2>1. PICK w \in 1..Len(D) : out = <<D[w]>> /\ \A k \in 1..Len(D) : ~Beats(D[k], D[w])
    BY <1>1, <1>2, <1>6 DEF Extremal, Won
  <2>2. PICK x : x = D[w]
    OBVIOUS
  <2>3. x \in ToSet(D) /\ ToSet(D) \subseteq Int /\ \A y \in ToSet(D) : ~Beats(y, x)
    BY <1>3, <1>4, <2>1, <2>2
  <2>4. CASE query.op \in {"min", "minOr"}
    <3>1. \A y \in ToSet(D) : x <= y
      BY <2>3, <2>4 DEF Beats
    <3>2. Min(ToSet(D)) = x
      BY <2>3, <3>1 DEF Min
    <3> QED BY <2>1, <2>2, <2>4, <3>2
  <2>5. CASE query.op \notin {"min", "minOr"}
    <3>1. \A y \in ToSet(D) : x >= y
      BY <2>3, <2>5 DEF Beats
    <3>2. Max(ToSet(D)) = x
      BY <2>3, <3>1 DEF Max
    <3> QED BY <2>1, <2>2, <2>5, <3>2
  <2> QED BY <2>4, <2>5
<1>7. ASSUME phase = "done", Len(D) = 0
      PROVE  out = <<>> /\ query.op \in {"minOr", "maxOr"}
  BY <1>1, <1>2, <1>7 DEF Extremal, Won
<1>8. \A x : <<x>> # <<>>
  OBVIOUS
<1> QED BY <1>4, <1>5, <1>6, <1>7, <1>8, Zenon DEF ExtremaHold, D

\* The places of the elements in a set are those of Places.
LEMMA PlacesAre ==
  ASSUME D \in Seq(Int), NEW set
  PROVE  Places(set) = {k \in 1..Len(D) : D[k] \in set}
BY DEF Places, D

LEMMA HitIsFirst ==
  ASSUME Lawful, Placed, ~IsSplit, HitThere, NEW set, \A x : Sought(x) <=> x \in set
  PROVE  IsFirst(pos + 1, set)
<1>1. D \in Seq(Int) /\ Len(D) \in Nat /\ pos \in Nat
  BY PosInD
<1>2. Places(set) = {k \in 1..Len(D) : D[k] \in set}
  BY <1>1, PlacesAre
<1>3. pos + 1 \in 1..Len(D) /\ D[pos + 1] \in set /\ \A k \in 1..pos : D[k] \notin set
  BY DEF HitThere, Missed
<1> QED BY <1>1, <1>2, <1>3 DEF IsFirst

LEMMA FirstImplied == ASSUME Lawful, QueryIInv PROVE FindsFirst
<1>1. Placed /\ Searched /\ Single
  BY DEF QueryIInv
<1>2. ASSUME query.op = "find"
      PROVE  /\ phase # "crashed"
             /\ phase = "done" /\ found => IsFirst(pos + 1, query.what) /\ Here.val = D[pos + 1]
             /\ phase = "done" /\ ~found => Places(query.what) = {}
  <2>1. ~IsSplit
    BY <1>1, <1>2, SplitAsks
  <2>2. \A x : Sought(x) <=> x \in query.what
    BY <1>2, Zenon DEF Sought
  <2>3. D \in Seq(Int)
    BY <1>1, <2>1, PosInD
  <2>4. phase # "crashed" /\ (phase = "done" => \/ HitThere /\ found /\ Landed
                                                \/ Missed(Len(D)) /\ ~found)
    BY <1>1, <1>2, <2>1 DEF Searched
  <2>5. HitThere => IsFirst(pos + 1, query.what)
    BY <1>1, <2>1, <2>2, HitIsFirst
  <2>6. Missed(Len(D)) => Places(query.what) = {}
    BY <2>2, <2>3, PlacesAre DEF Missed
  <2> QED BY <2>4, <2>5, <2>6 DEF Landed
<1>3. ASSUME query.op = "singleton", phase = "done"
      PROVE  (found <=> Len(D) = 1) /\ (found => Here.val = D[1])
  BY <1>1, <1>3, SplitAsks DEF Single
<1> QED BY <1>2, <1>3 DEF FindsFirst, D

LEMMA BeforeImplied == ASSUME Lawful, QueryIInv, ~Owns(range) PROVE FindsBefore
<1>1. SUFFICES ASSUME query.op = "findBefore" PROVE FindsBefore
  BY DEF FindsBefore
<1>2. Placed /\ Bounded /\ ~IsSplit
  BY <1>1, SplitAsks DEF QueryIInv
<1>3. D \in Seq(Int) /\ Len(D) \in Nat /\ pos \in Nat
  BY <1>2, PosInD
<1>4. \A set : Places(set) = {k \in 1..Len(D) : D[k] \in set}
  BY <1>3, PlacesAre
<1>5. phase # "crashed"
  BY <1>1, <1>2 DEF Bounded
<1>6. SUFFICES ASSUME phase = "done"
               PROVE  /\ found => /\ IsFirst(pos + 1, query.what)
                                  /\ \A j \in Places(query.before) : pos + 1 < j
                      /\ ~found => \A i \in Places(query.what) :
                                     \E j \in Places(query.before) : j <= i
  BY <1>5 DEF FindsBefore
<1>7. PICK b : BoundAt(b) /\ IF found THEN pos + 1 < b
                             ELSE \A k \in 1..b - 1 : D[k] \notin query.what
  BY <1>1, <1>2, <1>6 DEF Bounded
<1>8. /\ b \in 1..Len(D) + 1 /\ (b <= Len(D) => D[b] \in query.before)
      /\ \A k \in 1..b - 1 : D[k] \notin query.before
  BY <1>7 DEF BoundAt
<1>9. \A j \in Places(query.before) : b <= j
  BY <1>3, <1>4, <1>8
<1>10. ASSUME found
       PROVE  IsFirst(pos + 1, query.what) /\ \A j \in Places(query.before) : pos + 1 < j
  <2>1. HitThere
    BY <1>1, <1>2, <1>6, <1>10 DEF Bounded
  <2>2. \A x : Sought(x) <=> x \in query.what
    BY <1>1, <1>6, Zenon DEF Sought
  <2>3. IsFirst(pos + 1, query.what)
    BY <1>2, <2>1, <2>2, HitIsFirst
  <2>4. pos + 1 < b /\ b \in Nat /\ \A j \in Places(query.before) : j \in Nat
    BY <1>3, <1>4, <1>7, <1>8, <1>10
  <2> QED BY <1>3, <1>9, <2>3, <2>4
<1>11. ASSUME ~found, NEW i \in Places(query.what)
       PROVE  \E j \in Places(query.before) : j <= i
  <2>1. i \in 1..Len(D) /\ D[i] \in query.what
    BY <1>4
  <2>2. b <= i
    BY <1>3, <1>7, <1>8, <1>11, <2>1
  <2>3. b \in Places(query.before)
    BY <1>3, <1>4, <1>8, <2>1, <2>2
  <2> QED BY <2>2, <2>3
<1> QED BY <1>10, <1>11

LEMMA ReadableImplied == ASSUME Lawful, QueryIInv PROVE FoundReadable
<1>1. SUFFICES ASSUME phase = "done", found, query.op \in {"find", "findBefore"}
               PROVE  Here.made = made
  BY DEF FoundReadable
<1>2. Placed /\ Searched /\ Bounded /\ ~IsSplit
  BY <1>1, SplitAsks DEF QueryIInv
<1>3. Landed
  BY <1>1, <1>2 DEF Searched, Bounded
<1> QED BY <1>3 DEF Landed

\* freeze, freezeAs, unstableUnique and loops get what the range denotes, over
\* every range that map, filter and flatten build, and a target never copies
\* more than it has measured (query.hpp:376-379, 456-462, 655-674, 737-740).
THEOREM FreezeIsDenoted == ASSUME Unfolded PROVE Spec => []FreezeDenotes
<1>1. Lawful
  BY RangesAreLawful
<1>2. QueryIInv => FreezeDenotes
  BY <1>1, FreezeImplied
<1>3. Spec => []QueryIInv
  BY <1>1, QueryIInvHolds
<1> QED BY <1>2, <1>3, PTL

\* size, fold, groupBy and the quantifiers answer what the range denotes, over
\* every range that map, filter and flatten build (query.hpp:188-222, 611-624, 668, 676-690).
THEOREM FoldsAreDenoted == ASSUME Unfolded PROVE Spec => []FoldsDenote
<1>1. Lawful
  BY RangesAreLawful
<1>2. QueryIInv => FoldsDenote
  BY <1>1, FoldsImplied
<1>3. Spec => []QueryIInv
  BY <1>1, QueryIInvHolds
<1> QED BY <1>2, <1>3, PTL

\* min, max, minOr and maxOr answer the extremum, and min and max are undefined
\* for empty ranges only, over every range that map, filter and flatten build,
\* though they compare copies of iterators (query.hpp:703-762).
THEOREM ExtremaAreExtreme == ASSUME Unfolded PROVE Spec => []ExtremaHold
<1>1. Lawful
  BY RangesAreLawful
<1>2. QueryIInv => ExtremaHold
  BY <1>1, ExtremaImplied
<1>3. Spec => []QueryIInv
  BY <1>1, QueryIInvHolds
<1> QED BY <1>2, <1>3, PTL

\* find finds the first element it looks for, if there is one, and singleton
\* the element of a range of one, over every range that map, filter and flatten
\* build (query.hpp:797-811, 822-829).
THEOREM FirstIsFound == ASSUME Unfolded PROVE Spec => []FindsFirst
<1>1. Lawful
  BY RangesAreLawful
<1>2. QueryIInv => FindsFirst
  BY <1>1, FirstImplied
<1>3. Spec => []QueryIInv
  BY <1>1, QueryIInvHolds
<1> QED BY <1>2, <1>3, PTL

\* findBefore finds strictly before its bound, and stops there, over every
\* range they build that owns no collections (query.hpp:813-820).
THEOREM BeforeIsFound == ASSUME Unfolded PROVE Spec => []FindsBeforeInPlace
<1>1. Lawful
  BY RangesAreLawful
<1>2. QueryIInv => FindsBeforeInPlace
  BY <1>1, BeforeImplied DEF FindsBeforeInPlace
<1>3. Spec => []QueryIInv
  BY <1>1, QueryIInvHolds
<1> QED BY <1>2, <1>3, PTL

\* What find and findBefore answer is read without asking a mapped function,
\* over every range that map, filter and flatten build (query.hpp:283-303, 788, 807).
THEOREM FoundIsReadable == ASSUME Unfolded PROVE Spec => []FoundReadable
<1>1. Lawful
  BY RangesAreLawful
<1>2. QueryIInv => FoundReadable
  BY <1>1, ReadableImplied
<1>3. Spec => []QueryIInv
  BY <1>1, QueryIInvHolds
<1> QED BY <1>2, <1>3, PTL
-----------------------------------------------------------------------------
(* Parts put together again: what a fold over them gives. *)

Text == Seq(Characters)

\* f gives the concatenations of the first up to n parts.
Concatenates(f, s, n) == f = [i \in 1..n |-> IF i = 1 THEN s[i] ELSE f[i - 1] \o s[i]]

\* What begins and goes on in the same way is the same: there is no least place
\* where two such differ.
LEMMA SameConcatenations ==
  ASSUME NEW n \in Nat, NEW m \in Nat, n <= m, NEW s, NEW t, NEW f, NEW g,
         Concatenates(f, s, n), Concatenates(g, t, m), \A i \in 1..n : s[i] = t[i]
  PROVE  \A i \in 1..n : f[i] = g[i]
<1> DEFINE S == {i \in 1..n : f[i] # g[i]}
<1>1. ASSUME S # {} PROVE FALSE
  <2>1. S \subseteq Nat
    OBVIOUS
  <2>2. PICK i \in S : \A y \in S : i <= y
    <3> HIDE DEF S
    <3> QED BY <1>1, <2>1, MinLeast
  <2>3. i \in 1..n /\ i \in 1..m /\ s[i] = t[i] /\ f[i] # g[i]
    BY <2>2
  <2>4. f[i] = IF i = 1 THEN s[i] ELSE f[i - 1] \o s[i]
    BY <2>3, Zenon DEF Concatenates
  <2>5. g[i] = IF i = 1 THEN t[i] ELSE g[i - 1] \o t[i]
    BY <2>3, Zenon DEF Concatenates
  <2>6. CASE i = 1
    BY <2>3, <2>4, <2>5, <2>6
  <2>7. CASE i # 1
    <3>1. i - 1 \in 1..n /\ i - 1 \notin S
      BY <2>2, <2>3, <2>7
    <3>2. f[i - 1] = g[i - 1]
      BY <3>1
    <3> QED BY <2>3, <2>4, <2>5, <2>7, <3>2, Zenon
  <2> QED BY <2>6, <2>7
<1> QED BY <1>1

\* The concatenations of the first n parts exist, and are texts.
LEMMA ConcatenationExists ==
  ASSUME NEW s \in Seq(Text), NEW m \in Nat, m <= Len(s)
  PROVE  \E f : Concatenates(f, s, m) /\ \A i \in 1..m : f[i] \in Text
<1> DEFINE Given(n) == \E f : Concatenates(f, s, n) /\ \A i \in 1..n : f[i] \in Text
           S == {n \in 0..Len(s) : ~Given(n)}
<1>1. ASSUME S # {} PROVE FALSE
  <2>1. PICK n \in S : \A y \in S : n <= y
    <3>1. S \subseteq Nat
      OBVIOUS
    <3> HIDE DEF S
    <3> QED BY <1>1, <3>1, MinLeast
  <2>2. Given(0)
    <3>1. Concatenates([i \in 1..0 |-> <<>>], s, 0)
      BY DEF Concatenates
    <3> QED BY <3>1
  <2>3. n # 0
    BY <2>1, <2>2
  <2>4. n \in 1..Len(s) /\ n - 1 \in 0..Len(s) /\ n - 1 \notin S /\ s[n] \in Text
    BY <2>1, <2>3
  <2>5. PICK f : Concatenates(f, s, n - 1) /\ \A i \in 1..(n - 1) : f[i] \in Text
    BY <2>4
  <2> DEFINE g == [i \in 1..n |-> IF i < n THEN f[i] ELSE IF n = 1 THEN s[n] ELSE f[n - 1] \o s[n]]
  <2>6. \A i \in 1..n : g[i] = (IF i = 1 THEN s[i] ELSE g[i - 1] \o s[i]) /\ g[i] \in Text
    <3> SUFFICES ASSUME NEW i \in 1..n
                 PROVE  g[i] = (IF i = 1 THEN s[i] ELSE g[i - 1] \o s[i]) /\ g[i] \in Text
      OBVIOUS
    <3>1. CASE i < n
      <4>1. i \in 1..(n - 1)
        BY <2>4, <3>1
      <4>2. f[i] = IF i = 1 THEN s[i] ELSE f[i - 1] \o s[i]
        BY <2>5, <4>1, Zenon DEF Concatenates
      <4>3. g[i] = f[i] /\ (i # 1 => g[i - 1] = f[i - 1])
        BY <2>4, <3>1
      <4> QED BY <2>5, <4>1, <4>2, <4>3
    <3>2. CASE i = n
      <4>1. n # 1 => f[n - 1] \in Text
        BY <2>4, <2>5
      <4>2. n # 1 => f[n - 1] \o s[n] \in Text
        BY <2>4, <4>1 DEF Text
      <4> QED BY <2>4, <3>2, <4>2
    <3> QED BY <2>4, <3>1, <3>2
  <2>7. g = [i \in 1..n |-> IF i = 1 THEN s[i] ELSE g[i - 1] \o s[i]]
    BY <2>6
  <2>8. Concatenates(g, s, n)
    <3> HIDE DEF g
    <3> QED BY <2>7 DEF Concatenates
  <2>9. Given(n)
    <3> HIDE DEF g
    <3> QED BY <2>6, <2>8
  <2> QED BY <2>1, <2>9
<1>2. m \notin S /\ m \in 0..Len(s)
  BY <1>1
<1> QED BY <1>2

LEMMA FlattenSeqIs ==
  ASSUME NEW s \in Seq(Text), s # <<>>
  PROVE  \E f : /\ Concatenates(f, s, Len(s)) /\ FlattenSeq(s) = f[Len(s)]
                /\ \A i \in 1..Len(s) : f[i] \in Text
<1>1. Len(s) \in Nat /\ Len(s) # 0
  BY EmptySeq
<1>2. FlattenSeq(s) = (CHOOSE f : Concatenates(f, s, Len(s)))[Len(s)]
  BY <1>1 DEF FlattenSeq, Concatenates
<1>3. PICK f : Concatenates(f, s, Len(s)) /\ \A i \in 1..Len(s) : f[i] \in Text
  BY <1>1, ConcatenationExists
<1> DEFINE g == CHOOSE h : Concatenates(h, s, Len(s))
<1>4. Concatenates(g, s, Len(s))
  BY <1>3, Zenon
<1> HIDE DEF g
<1>5. \A i \in 1..Len(s) : g[i] = f[i]
  BY <1>1, <1>3, <1>4, SameConcatenations
<1>6. \A i \in 1..Len(s) : g[i] \in Text
  BY <1>3, <1>5
<1>7. FlattenSeq(s) = g[Len(s)]
  BY <1>2 DEF g
<1> QED BY <1>4, <1>6, <1>7, Zenon

\* One part more.
LEMMA FlattenAppend ==
  ASSUME NEW s \in Seq(Text), s # <<>>, NEW p \in Text
  PROVE  FlattenSeq(s) \in Text /\ FlattenSeq(Append(s, p)) = FlattenSeq(s) \o p
<1> DEFINE t == Append(s, p)
<1>1. /\ t \in Seq(Text) /\ Len(s) \in Nat /\ Len(s) # 0 /\ Len(t) = Len(s) + 1 /\ t # <<>>
      /\ t[Len(s) + 1] = p /\ \A i \in 1..Len(s) : s[i] = t[i]
  BY EmptySeq, AppendProperties
<1> HIDE DEF t
<1>2. PICK f : /\ Concatenates(f, s, Len(s)) /\ FlattenSeq(s) = f[Len(s)]
               /\ \A i \in 1..Len(s) : f[i] \in Text
  BY FlattenSeqIs
<1>3. PICK g : Concatenates(g, t, Len(t)) /\ FlattenSeq(t) = g[Len(t)]
  BY <1>1, FlattenSeqIs
<1> DEFINE n == Len(s)
<1>4. n \in Nat /\ n # 0 /\ n + 1 = Len(t) /\ n + 1 \in Nat /\ n <= n + 1
  BY <1>1
<1> HIDE DEF n
<1>5. \A i \in 1..n : f[i] = g[i]
  <2> DEFINE m == Len(t)
  <2>1. n \in Nat /\ m \in Nat /\ n <= m /\ Concatenates(f, s, n) /\ Concatenates(g, t, m)
    BY <1>2, <1>3, <1>4 DEF n
  <2>2. \A i \in 1..n : s[i] = t[i]
    BY <1>1 DEF n
  <2> HIDE DEF m
  <2> QED BY <2>1, <2>2, SameConcatenations
<1>6. g[n + 1] = g[n] \o t[n + 1]
  <2>1. g = [i \in 1..(n + 1) |-> IF i = 1 THEN t[i] ELSE g[i - 1] \o t[i]]
    BY <1>3, <1>4 DEF Concatenates
  <2>2. n + 1 \in 1..(n + 1) /\ n + 1 # 1 /\ (n + 1) - 1 = n
    BY <1>4
  <2>3. g[n + 1] = IF n + 1 = 1 THEN t[n + 1] ELSE g[(n + 1) - 1] \o t[n + 1]
    BY <2>1, <2>2, Zenon
  <2> QED BY <2>2, <2>3
<1>7. f[n] = g[n] /\ f[n] \in Text
  BY <1>2, <1>4, <1>5 DEF n
<1> QED BY <1>1, <1>2, <1>3, <1>4, <1>6, <1>7 DEF n, t

\* The parts as they are joined, with a delimiter before all but the first.
Delimited(parts, d) == [i \in DOMAIN parts |-> IF i = 1 THEN parts[i] ELSE <<d>> \o parts[i]]

LEMMA DelimitedAre ==
  ASSUME NEW parts \in Seq(Text), NEW d \in Characters
  PROVE  /\ Delimited(parts, d) \in Seq(Text) /\ Len(Delimited(parts, d)) = Len(parts)
         /\ JoinedBy(parts, d) = FlattenSeq(Delimited(parts, d))
<1>1. \A i \in DOMAIN parts : parts[i] \in Text /\ <<d>> \o parts[i] \in Text
  BY DEF Text
<1>2. JoinedBy(parts, d) = FlattenSeq(Delimited(parts, d))
  BY DEF JoinedBy, Delimited
<1>3. DOMAIN parts = 1..Len(parts) /\ Len(parts) \in Nat
  OBVIOUS
<1>4. Delimited(parts, d) = [i \in 1..Len(parts) |-> IF i = 1 THEN parts[i] ELSE <<d>> \o parts[i]]
  BY <1>3, Zenon DEF Delimited
<1>5. \A i \in 1..Len(parts) : (IF i = 1 THEN parts[i] ELSE <<d>> \o parts[i]) \in Text
  BY <1>1, <1>3
<1>6. Delimited(parts, d) \in Seq(Text) /\ Len(Delimited(parts, d)) = Len(parts)
  <2> HIDE DEF Text
  <2> QED BY <1>3, <1>4, <1>5
<1> QED BY <1>2, <1>6

LEMMA JoinedOne ==
  ASSUME NEW p \in Text, NEW d \in Characters
  PROVE  JoinedBy(<<p>>, d) = p
<1> DEFINE s == Delimited(<<p>>, d)
<1>1. s \in Seq(Text) /\ Len(s) = 1 /\ s # <<>> /\ JoinedBy(<<p>>, d) = FlattenSeq(s)
  <2>1. <<p>> \in Seq(Text) /\ Len(<<p>>) = 1
    OBVIOUS
  <2>2. s \in Seq(Text) /\ Len(s) = 1 /\ JoinedBy(<<p>>, d) = FlattenSeq(s)
    BY <2>1, DelimitedAre
  <2> HIDE DEF s
  <2> QED BY <2>2
<1>2. s[1] = p
  BY DEF Delimited
<1> HIDE DEF s
<1>3. PICK f : Concatenates(f, s, 1) /\ FlattenSeq(s) = f[1]
  BY <1>1, FlattenSeqIs
<1>4. f = [i \in 1..1 |-> IF i = 1 THEN s[i] ELSE f[i - 1] \o s[i]]
  BY <1>3 DEF Concatenates
<1>5. f[1] = s[1]
  BY <1>4
<1> QED BY <1>1, <1>2, <1>3, <1>5

LEMMA JoinedMore ==
  ASSUME NEW parts \in Seq(Text), NEW p \in Text, NEW d \in Characters, parts # <<>>
  PROVE  /\ JoinedBy(parts, d) \in Text
         /\ JoinedBy(Append(parts, p), d) = JoinedBy(parts, d) \o (<<d>> \o p)
<1> DEFINE more == Append(parts, p)
           s == Delimited(parts, d)
           t == Delimited(more, d)
<1>1. /\ more \in Seq(Text) /\ Len(more) = Len(parts) + 1 /\ more[Len(parts) + 1] = p
      /\ \A i \in 1..Len(parts) : more[i] = parts[i]
      /\ Len(parts) \in Nat /\ Len(parts) # 0
  BY EmptySeq, AppendProperties
<1> HIDE DEF more
<1>2. /\ s \in Seq(Text) /\ Len(s) = Len(parts) /\ JoinedBy(parts, d) = FlattenSeq(s)
      /\ t \in Seq(Text) /\ Len(t) = Len(more) /\ JoinedBy(more, d) = FlattenSeq(t)
  BY <1>1, DelimitedAre
<1>3. \A i \in 1..Len(parts) : t[i] = s[i]
  BY <1>1 DEF Delimited
<1>4. t[Len(parts) + 1] = <<d>> \o p
  BY <1>1 DEF Delimited
<1>5. <<d>> \o p \in Text
  BY DEF Text
<1> HIDE DEF s, t
<1>6. t = Append(s, <<d>> \o p)
  <2> DEFINE u == Append(s, <<d>> \o p)
  <2>1. /\ u \in Seq(Text) /\ Len(u) = Len(s) + 1 /\ u[Len(s) + 1] = <<d>> \o p
        /\ \A i \in 1..Len(s) : u[i] = s[i]
    BY <1>2, <1>5, AppendProperties
  <2> HIDE DEF u
  <2>2. Len(t) = Len(u)
    BY <1>1, <1>2, <2>1
  <2>3. \A i \in 1..Len(t) : t[i] = u[i]
    <3> SUFFICES ASSUME NEW i \in 1..Len(t) PROVE t[i] = u[i]
      OBVIOUS
    <3>1. i = Len(parts) + 1 \/ i \in 1..Len(parts)
      BY <1>1, <1>2
    <3> QED BY <1>2, <1>3, <1>4, <2>1, <3>1
  <2> QED BY <1>2, <2>1, <2>2, <2>3, SeqEqual DEF u
<1>7. s # <<>>
  BY <1>1, <1>2
<1>8. FlattenSeq(s) \in Text /\ FlattenSeq(t) = FlattenSeq(s) \o (<<d>> \o p)
  BY <1>2, <1>5, <1>6, <1>7, FlattenAppend, Zenon
<1> QED BY <1>2, <1>8, Zenon DEF more
-----------------------------------------------------------------------------
(* Texts, cut in two. *)

\* Nothing is between two parts of a text but the character that cuts it.
LEMMA TextGrouped ==
  ASSUME NEW s \in Text, NEW t \in Text, NEW u \in Text
  PROVE  (s \o t) \o u = s \o (t \o u)
<1>1. /\ s \o t \in Text /\ t \o u \in Text
      /\ Len(s \o t) = Len(s) + Len(t) /\ Len(t \o u) = Len(t) + Len(u)
      /\ (s \o t) \o u \in Text /\ s \o (t \o u) \in Text
  BY DEF Text
<1>2. Len((s \o t) \o u) = Len(s \o (t \o u))
  BY <1>1 DEF Text
<1>3. \A i \in 1..Len((s \o t) \o u) : ((s \o t) \o u)[i] = (s \o (t \o u))[i]
  BY <1>1 DEF Text
<1> QED BY <1>1, <1>2, <1>3, SeqEqual DEF Text

LEMMA MaxGreatest ==
  ASSUME NEW n \in Nat, NEW S \in SUBSET (1..n), S # {}
  PROVE  Max(S) \in S /\ \A y \in S : Max(S) >= y
<1> DEFINE M == {n - x : x \in S}
<1>1. M \subseteq Nat /\ M # {}
  <2>1. \A x \in S : x \in 1..n /\ n - x \in Nat
    OBVIOUS
  <2> QED BY <2>1
<1>2. PICK m \in M : \A y \in M : m <= y
  <2> HIDE DEF M
  <2> QED BY <1>1, MinLeast
<1>3. PICK x \in S : m = n - x
  BY <1>2
<1>4. \A y \in S : x >= y
  <2> SUFFICES ASSUME NEW y \in S PROVE x >= y
    OBVIOUS
  <2>1. n - x <= n - y /\ x \in 1..n /\ y \in 1..n
    BY <1>2, <1>3
  <2> QED BY <2>1
<1> QED BY <1>4, Zenon DEF Max

\* The two ends of a text, of which the d between them is left out.
LEMMA SplitAround ==
  ASSUME NEW p \in Text, NEW d \in Characters, NEW reverse \in BOOLEAN, Occurrences(p, d) # {}
  PROVE  \E s \in DOMAIN p :
           /\ p[s] = d /\ Cut(p, d, reverse) = s
           /\ Split(p, d, reverse)[1] = SubSeq(p, 1, s - 1)
           /\ Split(p, d, reverse)[2] = SubSeq(p, s + 1, Len(p))
           /\ reverse  => \A k \in DOMAIN p : k > s => p[k] # d
           /\ ~reverse => \A k \in DOMAIN p : k < s => p[k] # d
<1> DEFINE S == Occurrences(p, d)
           s == Cut(p, d, reverse)
<1>1. /\ DOMAIN p = 1..Len(p) /\ Len(p) \in Nat /\ S \subseteq 1..Len(p) /\ S # {}
      /\ \A k \in DOMAIN p : k \in S <=> p[k] = d
  BY DEF Text, Occurrences
<1>2. s = IF reverse THEN Max(S) ELSE Min(S)
  BY Zenon DEF Cut
<1>3. Split(p, d, reverse) = << SubSeq(p, 1, s - 1), SubSeq(p, s + 1, Len(p)) >>
  BY DEF Split, After
<1> HIDE DEF S, s
<1>4. Min(S) \in S /\ \A y \in S : Min(S) <= y
  <2>1. S \subseteq Nat
    BY <1>1
  <2> QED BY <1>1, <2>1, MinLeast
<1>5. Max(S) \in S /\ \A y \in S : Max(S) >= y
  BY <1>1, MaxGreatest
<1>6. s \in S /\ (reverse => \A y \in S : s >= y) /\ (~reverse => \A y \in S : s <= y)
  BY <1>2, <1>4, <1>5
<1>7. reverse  => \A k \in DOMAIN p : k > s => p[k] # d
  BY <1>1, <1>6
<1>8. ~reverse => \A k \in DOMAIN p : k < s => p[k] # d
  BY <1>1, <1>6
<1>9. s \in DOMAIN p /\ p[s] = d /\ Cut(p, d, reverse) = s
  BY <1>1, <1>6 DEF s
<1>10. /\ Split(p, d, reverse)[1] = SubSeq(p, 1, s - 1)
       /\ Split(p, d, reverse)[2] = SubSeq(p, s + 1, Len(p))
  <2> DEFINE a == SubSeq(p, 1, s - 1)
             b == SubSeq(p, s + 1, Len(p))
             both == Split(p, d, reverse)
  <2>1. both = <<a, b>>
    BY <1>3
  <2> HIDE DEF a, b, both
  <2>2. both[1] = a /\ both[2] = b
    BY <2>1
  <2> QED BY <2>2 DEF a, b, both
<1>11. s \in DOMAIN p
  BY <1>9
<1> WITNESS s \in DOMAIN p
<1> QED BY <1>7, <1>8, <1>9, <1>10, Zenon

\* A text is what is before a cut, what is there, and what is after it.
LEMMA CutWhole ==
  ASSUME NEW p \in Text, NEW s \in DOMAIN p
  PROVE  /\ SubSeq(p, 1, s - 1) \in Text /\ SubSeq(p, s + 1, Len(p)) \in Text /\ <<p[s]>> \in Text
         /\ p = SubSeq(p, 1, s - 1) \o (<<p[s]>> \o SubSeq(p, s + 1, Len(p)))
<1> DEFINE a == SubSeq(p, 1, s - 1)
           b == SubSeq(p, s + 1, Len(p))
           n == Len(p)
<1>1. n \in Nat /\ s \in 1..n /\ p[s] \in Characters
  BY DEF Text
<1>2. /\ a \in Text /\ b \in Text /\ <<p[s]>> \in Text /\ Len(a) = s - 1 /\ Len(b) = n - s
      /\ \A i \in 1..(s - 1) : a[i] = p[i]
      /\ \A i \in 1..(n - s) : b[i] = p[s + i]
  BY <1>1 DEF Text
<1> HIDE DEF a, b
<1> DEFINE c == <<p[s]>> \o b
<1>3. c \in Text /\ Len(c) = n - s + 1 /\ c[1] = p[s] /\ \A i \in 2..(n - s + 1) : c[i] = b[i - 1]
  BY <1>1, <1>2 DEF Text
<1> HIDE DEF c
<1>4. a \o c \in Text /\ Len(a \o c) = n
      /\ \A i \in 1..(s - 1) : (a \o c)[i] = a[i]
  BY <1>1, <1>2, <1>3 DEF Text
<1>5. \A i \in s..n : (a \o c)[i] = c[i - (s - 1)]
  BY <1>1, <1>2, <1>3 DEF Text
<1> HIDE DEF n
<1>6. ASSUME NEW i \in 1..n PROVE p[i] = (a \o c)[i]
  <2>1. CASE i < s
    BY <1>1, <1>2, <1>4, <2>1
  <2>2. CASE i = s
    <3>1. s \in s..n /\ s - (s - 1) = 1
      BY <1>1
    <3> QED BY <1>3, <1>5, <2>2, <3>1
  <2>3. CASE i > s
    <3> DEFINE k == i - (s - 1)
    <3>1. i \in s..n /\ k \in 2..(n - s + 1) /\ k - 1 \in 1..(n - s) /\ s + (k - 1) = i
      BY <1>1, <2>3
    <3> HIDE DEF k
    <3>2. (a \o c)[i] = c[k] /\ c[k] = b[k - 1] /\ b[k - 1] = p[i]
      <4>1. (a \o c)[i] = c[k]
        BY <3>1, <1>5 DEF k
      <4>2. c[k] = b[k - 1]
        BY <1>1, <1>3, <3>1, Zenon
      <4>3. b[k - 1] = p[s + (k - 1)]
        BY <1>2, <3>1, Zenon
      <4> QED BY <3>1, <4>1, <4>2, <4>3, Zenon
    <3> QED BY <3>2
  <2>4. i < s \/ i = s \/ i > s
    BY <1>1
  <2> QED BY <2>1, <2>2, <2>3, <2>4
<1>7. p = a \o c
  BY <1>4, <1>6, SeqEqual DEF Text, n
<1> QED BY <1>2, <1>7 DEF a, b, c, n

\* How a text ends.
LEMMA EndsAsTail ==
  ASSUME NEW s \in Text, NEW t \in Text, t # <<>>, NEW d
  PROVE  EndsIn(s \o t, d) <=> EndsIn(t, d)
<1>1. Len(t) \in Nat /\ Len(t) # 0 /\ Len(s) \in Nat
  BY EmptySeq DEF Text
<1>2. s \o t \in Text /\ Len(s \o t) = Len(s) + Len(t) /\ (s \o t)[Len(s) + Len(t)] = t[Len(t)]
  BY <1>1 DEF Text
<1>3. s \o t # <<>>
  BY <1>1, <1>2
<1> QED BY <1>2, <1>3 DEF EndsIn, Last

LEMMA NoOccurrence ==
  ASSUME NEW p \in Text, NEW d
  PROVE  /\ Occurrences(p, d) = {} <=> \A k \in 1..Len(p) : p[k] # d
         /\ Occurrences(p, d) = {} => ~EndsIn(p, d)
<1>1. DOMAIN p = 1..Len(p) /\ Len(p) \in Nat /\ (p # <<>> => Len(p) \in 1..Len(p))
  BY EmptySeq DEF Text
<1> QED BY <1>1 DEF Occurrences, EndsIn, Last
-----------------------------------------------------------------------------
(* Loops over splitters. *)

LEMMA SplitIs ==
  ASSUME Unfolds(range), IsSplit
  PROVE  /\ EndOf(range) = <<>>
         /\ \A mk : BeginOf(range, mk) = [it |-> range.text, made |-> mk]
         /\ \A i, j : Equal(range, i, j) <=> i = j
         /\ \A i, mk : LET halves == Split(i, range.by, range.reverse) IN
              /\ Dereferenced(range, i, mk) = [it |-> i, val |-> halves[1], made |-> mk]
              /\ Incremented(range, i, mk) = [it |-> halves[2], made |-> mk]
<1>1. range.kind = "split"
  BY DEF IsSplit
<1>2. EndOf(range) = <<>>
  BY <1>1 DEF Unfolds, End
<1>3. \A mk : BeginOf(range, mk) = [it |-> range.text, made |-> mk]
  BY <1>1 DEF Unfolds, Begin
<1>4. \A i, j : Equal(range, i, j) <=> i = j
  BY <1>1 DEF Unfolds, Same
<1>5. \A i, mk : Dereferenced(range, i, mk) =
                   [it |-> i, val |-> Split(i, range.by, range.reverse)[1], made |-> mk]
  BY <1>1 DEF Unfolds, Deref
<1>6. \A i, mk : Incremented(range, i, mk) =
                   [it |-> Split(i, range.by, range.reverse)[2], made |-> mk]
  BY <1>1 DEF Unfolds, Step
<1> QED BY <1>2, <1>3, <1>4, <1>5, <1>6

\* What a loop has got, and what is left.  In reverse nothing is left after the
\* first cut, or a text that has no delimiter, and stays.
Remaining ==
  LET d == range.by IN
  \/ out = <<>> /\ it = range.text
  \/ /\ out # <<>> /\ range.text # <<>>
     /\ IF range.reverse
        THEN \/ it # <<>> /\ Occurrences(it, d) = {}
             \/ it = <<>> /\ Len(out) = 1 /\ range.text = JoinedBy(out, d) \o <<d>>
        ELSE /\ \A i \in DOMAIN out : Occurrences(out[i], d) = {}
             /\ \/ range.text = JoinedBy(out, d) \o (<<d>> \o it)
                \/ it = <<>> /\ range.text = JoinedBy(out, d) /\ ~EndsIn(range.text, d)

SplitIInv ==
  /\ ~IsSplit => query.op # "name"
  /\ IsSplit =>
       /\ range.text \in Text /\ range.by \in Characters /\ range.reverse \in BOOLEAN
       /\ query.op = "each" \/ (query.op = "name" /\ ~range.reverse)
       /\ phase \in {"start", "walk", "done", "crashed"}
       /\ phase = "start" => out = <<>>
       /\ phase = "walk" => /\ query.op = "each" /\ stop = <<>>
                            /\ it \in Text /\ out \in Seq(Text) /\ Remaining
       /\ TextsSplit

\* All of the parts are there when nothing is left.
LEMMA NothingRemains ==
  ASSUME IsSplit, range.text \in Text, range.by \in Characters, range.reverse \in BOOLEAN,
         out \in Seq(Text), Remaining, it = <<>>
  PROVE  /\ range.text = <<>> <=> out = <<>>
         /\ out # <<>> => range.text = JoinedBy(out, range.by) \o
                           (IF EndsIn(range.text, range.by) THEN <<range.by>> ELSE <<>>)
         /\ ~range.reverse => \A i \in DOMAIN out : Occurrences(out[i], range.by) = {}
         /\ range.reverse => Len(out) <= 1
<1> DEFINE d == range.by
           text == range.text
<1>1. out = <<>> => text = <<>>
  BY DEF Remaining
<1>2. ASSUME out # <<>> PROVE text # <<>>
  BY <1>2 DEF Remaining
<1>3. ASSUME out # <<>>
      PROVE  text = JoinedBy(out, d) \o (IF EndsIn(text, d) THEN <<d>> ELSE <<>>)
  <2>1. JoinedBy(out, d) \in Text
    <3>1. Delimited(out, d) \in Seq(Text) /\ Delimited(out, d) # <<>>
          /\ JoinedBy(out, d) = FlattenSeq(Delimited(out, d))
      BY <1>3, DelimitedAre, EmptySeq
    <3> QED BY <3>1, FlattenAppend DEF Text
  <2>2. text = JoinedBy(out, d) \o <<d>> \/ (text = JoinedBy(out, d) /\ ~EndsIn(text, d))
    <3>1. <<d>> \o <<>> = <<d>>
      OBVIOUS
    <3> QED BY <1>3, <3>1 DEF Remaining
  <2>3. CASE text = JoinedBy(out, d) \o <<d>>
    <3>1. <<d>> \in Text /\ <<d>> # <<>> /\ EndsIn(<<d>>, d)
      BY DEF Text, EndsIn, Last
    <3> HIDE DEF d, text
    <3>2. EndsIn(text, d)
      BY <2>1, <2>3, <3>1, EndsAsTail
    <3> QED BY <2>3, <3>2
  <2>4. CASE text = JoinedBy(out, d) /\ ~EndsIn(text, d)
    <3>1. JoinedBy(out, d) \o <<>> = JoinedBy(out, d)
      BY <2>1 DEF Text
    <3> QED BY <2>4, <3>1
  <2> QED BY <2>2, <2>3, <2>4
<1>4. ~range.reverse => \A i \in DOMAIN out : Occurrences(out[i], d) = {}
  BY DEF Remaining
<1>5. range.reverse => Len(out) <= 1
  <2>1. range.reverse => out = <<>> \/ Len(out) = 1
    BY Zenon DEF Remaining
  <2>2. out = <<>> => Len(out) = 0
    OBVIOUS
  <2> QED BY <2>1, <2>2
<1>6. text = <<>> <=> out = <<>>
  BY <1>1, <1>2
<1> QED BY <1>3, <1>4, <1>5, <1>6, Zenon

\* One round takes one part, and leaves less, or what has no delimiter.
LEMMA CopyRemains ==
  ASSUME Unfolds(range), SplitIInv, IsSplit, Copy
  PROVE  it' \in Text /\ out' \in Seq(Text) /\ Remaining'
<1> DEFINE d == range.by
           text == range.text
           part == Split(it, d, range.reverse)[1]
           rest == Split(it, d, range.reverse)[2]
<1>1. /\ phase = "walk" /\ query.op = "each" /\ it \in Text /\ out \in Seq(Text) /\ Remaining
      /\ text \in Text /\ d \in Characters /\ range.reverse \in BOOLEAN /\ stop = <<>>
  BY DEF SplitIInv, Copy, Reading, Walking
<1>2. it # <<>>
  BY <1>1, SplitIs, Zenon DEF Copy, Reading
<1>3. out' = Append(out, part) /\ it' = rest /\ range' = range
  <2>1. Here = [it |-> it, val |-> part, made |-> made]
    BY SplitIs, Zenon DEF Here
  <2>2. PICK h \in {Here} : out' = Append(out, h.val) /\ AdvanceFrom(h.it, h.made)
    BY <1>1 DEF Copy
  <2>3. out' = Append(out, part) /\ AdvanceFrom(it, made)
    BY <2>1, <2>2
  <2>4. Incremented(range, it, made) = [it |-> rest, made |-> made]
    BY SplitIs, Zenon
  <2> QED BY <2>3, <2>4 DEF AdvanceFrom
<1>4. part \in Text /\ rest \in Text
      /\ IF Occurrences(it, d) = {}
         THEN part = (IF range.reverse THEN <<>> ELSE it) /\ rest = (IF range.reverse THEN it ELSE <<>>)
         ELSE /\ it = part \o (<<d>> \o rest)
              /\ Occurrences(IF range.reverse THEN rest ELSE part, d) = {}
  <2>1. CASE Occurrences(it, d) = {}
    BY <1>1, <2>1 DEF Split, Text
  <2>2. CASE Occurrences(it, d) # {}
    <3>1. PICK s \in DOMAIN it :
            /\ it[s] = d /\ part = SubSeq(it, 1, s - 1) /\ rest = SubSeq(it, s + 1, Len(it))
            /\ range.reverse  => \A k \in DOMAIN it : k > s => it[k] # d
            /\ ~range.reverse => \A k \in DOMAIN it : k < s => it[k] # d
      BY <1>1, <2>2, SplitAround
    <3> HIDE DEF part, rest
    <3>2. part \in Text /\ rest \in Text /\ it = part \o (<<d>> \o rest)
      BY <1>1, <3>1, CutWhole
    <3>3. DOMAIN it = 1..Len(it) /\ Len(it) \in Nat
      BY <1>1 DEF Text
    <3>4. CASE range.reverse
      <4>1. Len(rest) = Len(it) - s /\ \A k \in 1..Len(rest) : rest[k] = it[s + k]
        BY <1>1, <3>1, <3>3 DEF Text
      <4>2. \A k \in 1..Len(rest) : rest[k] # d
        BY <3>1, <3>3, <3>4, <4>1
      <4> QED BY <2>2, <3>2, <3>4, <4>2, NoOccurrence
    <3>5. CASE ~range.reverse
      <4>1. Len(part) = s - 1 /\ \A k \in 1..Len(part) : part[k] = it[k]
        BY <1>1, <3>1, <3>3 DEF Text
      <4>2. ASSUME NEW k \in 1..Len(part) PROVE part[k] # d
        <5>1. k \in DOMAIN it /\ k < s
          BY <3>1, <3>3, <4>1
        <5> QED BY <3>1, <3>5, <4>1, <5>1
      <4> QED BY <2>2, <3>2, <3>5, <4>2, NoOccurrence
    <3> QED BY <3>4, <3>5
  <2> QED BY <2>1, <2>2
<1> HIDE DEF part, rest, d, text
<1>5. out' \in Seq(Text) /\ out' # <<>>
  BY <1>1, <1>3, <1>4, AppendProperties, EmptySeq
<1>6. text # <<>>
  BY <1>1, <1>2 DEF Remaining, text
<1>7. CASE range.reverse
  <2>1. CASE Occurrences(it, d) = {}
    <3>1. it' # <<>> /\ Occurrences(it', d) = {}
      BY <1>2, <1>3, <1>4, <1>7, <2>1
    <3> QED BY <1>3, <1>4, <1>5, <1>6, <1>7, <3>1 DEF Remaining, d, text
  <2>2. CASE Occurrences(it, d) # {}
    <3>1. out = <<>> /\ it = text
      BY <1>1, <1>2, <1>7, <2>2 DEF Remaining, d, text
    <3>2. CASE rest # <<>>
      <4>1. it' # <<>> /\ Occurrences(it', d) = {}
        BY <1>3, <1>4, <1>7, <2>2, <3>2
      <4> QED BY <1>3, <1>4, <1>5, <1>6, <1>7, <4>1 DEF Remaining, d, text
    <3>3. CASE rest = <<>>
      <4>1. out' = <<part>>
        BY <1>3, <3>1
      <4>2. JoinedBy(out', d) = part
        BY <1>1, <1>4, <4>1, JoinedOne
      <4>3. text = part \o <<d>>
        <5>1. <<d>> \o <<>> = <<d>>
          OBVIOUS
        <5> QED BY <1>4, <2>2, <3>1, <3>3, <5>1
      <4>4. Len(out') = 1
        BY <4>1
      <4> QED BY <1>3, <1>4, <1>5, <1>6, <1>7, <3>3, <4>2, <4>3, <4>4 DEF Remaining, d, text
    <3> QED BY <3>2, <3>3
  <2> QED BY <2>1, <2>2
<1>8. CASE ~range.reverse
  <2>1. Occurrences(part, d) = {}
    BY <1>4, <1>8
  <2>2. \A i \in DOMAIN out : Occurrences(out[i], d) = {}
    <3>1. CASE out = <<>>
      BY <3>1
    <3>2. CASE out # <<>>
      BY <1>1, <1>8, <3>2 DEF Remaining, d
    <3> QED BY <3>1, <3>2
  <2>3. \A i \in DOMAIN out' : Occurrences(out'[i], d) = {}
    <3>1. \A i \in DOMAIN out' : (i \in DOMAIN out /\ out'[i] = out[i]) \/ out'[i] = part
      BY <1>1, <1>3, <1>4
    <3> QED BY <2>1, <2>2, <3>1
  <2> DEFINE before == IF out = <<>> THEN <<>> ELSE JoinedBy(out, d) \o <<d>>
  <2>4. before \in Text /\ text = before \o it /\ JoinedBy(out', d) = before \o part
    <3>1. CASE out = <<>>
      <4>1. text = it /\ out' = <<part>>
        BY <1>1, <1>2, <1>3, <3>1 DEF Remaining, text
      <4>2. <<>> \o it = it /\ <<>> \o part = part /\ <<>> \in Text
        BY <1>1, <1>4 DEF Text
      <4> QED BY <1>1, <1>4, <3>1, <4>1, <4>2, JoinedOne
    <3>2. CASE out # <<>>
      <4>1. text = JoinedBy(out, d) \o (<<d>> \o it)
        BY <1>1, <1>2, <1>8, <3>2 DEF Remaining, d, text
      <4>2. JoinedBy(out, d) \in Text /\ JoinedBy(out', d) = JoinedBy(out, d) \o (<<d>> \o part)
        BY <1>1, <1>3, <1>4, <3>2, JoinedMore
      <4>3. <<d>> \in Text
        BY <1>1 DEF Text
      <4>4. JoinedBy(out, d) \o <<d>> \in Text
        BY <4>2, <4>3 DEF Text
      <4>5. (JoinedBy(out, d) \o <<d>>) \o it = JoinedBy(out, d) \o (<<d>> \o it)
        BY <1>1, <4>2, <4>3, TextGrouped, Zenon
      <4>6. (JoinedBy(out, d) \o <<d>>) \o part = JoinedBy(out, d) \o (<<d>> \o part)
        BY <1>4, <4>2, <4>3, TextGrouped, Zenon
      <4> QED BY <3>2, <4>1, <4>2, <4>4, <4>5, <4>6
    <3> QED BY <3>1, <3>2
  <2> HIDE DEF before
  <2>5. CASE Occurrences(it, d) = {}
    <3>1. part = it /\ it' = <<>>
      BY <1>3, <1>4, <1>8, <2>5
    <3>2. text = JoinedBy(out', d)
      BY <2>4, <3>1
    <3>3. ~EndsIn(text, d)
      BY <1>1, <1>2, <2>4, <2>5, EndsAsTail, NoOccurrence
    <3> QED BY <1>3, <1>5, <1>6, <1>8, <2>3, <3>1, <3>2, <3>3, <1>4 DEF Remaining, d, text
  <2>6. CASE Occurrences(it, d) # {}
    <3>1. it = part \o (<<d>> \o rest)
      BY <1>4, <2>6
    <3>2. <<d>> \o rest \in Text
      BY <1>1, <1>4 DEF Text
    <3>3. before \o (part \o (<<d>> \o rest)) = (before \o part) \o (<<d>> \o rest)
      BY <1>4, <2>4, <3>2, TextGrouped, Zenon
    <3>4. text = JoinedBy(out', d) \o (<<d>> \o it')
      BY <1>3, <2>4, <3>1, <3>3, Zenon
    <3> QED BY <1>3, <1>5, <1>6, <1>8, <2>3, <3>4, <1>4 DEF Remaining, d, text
  <2> QED BY <2>5, <2>6
<1> QED BY <1>1, <1>3, <1>4, <1>5, <1>7, <1>8

\* The name of an instruction: trimming takes spaces, and nothing else.
LEMMA NameIsTrimmed ==
  ASSUME Unfolds(range), IsSplit, range.text \in Text, range.by \in Characters,
         range.reverse \in BOOLEAN, ~range.reverse, Name
  PROVE  NameTrimmed'
<1> DEFINE d == range.by
           text == range.text
           n == Len(text)
           first == Split(text, d, range.reverse)[1]
<1>1. out' = Trim(first) /\ range' = range
  <2>1. BeginOf(range, made) = [it |-> text, made |-> made]
    BY SplitIs, Zenon
  <2>2. BeginOf(range, made).it = text
    BY <2>1
  <2>3. Dereferenced(range, text, made) = [it |-> text, val |-> first, made |-> made]
    BY SplitIs, Zenon
  <2>4. Dereferenced(range, text, made).val = first
    BY <2>3
  <2> QED BY <2>2, <2>4 DEF Name
<1>2. n \in Nat /\ DOMAIN text = 1..n
  BY DEF Text
<1>3. \E e \in 1..n + 1 :
        /\ first = SubSeq(text, 1, e - 1)
        /\ \A k \in 1..e - 1 : text[k] # d
        /\ e <= n => text[e] = d
  <2>1. CASE Occurrences(text, d) = {}
    <3>1. first = text
      BY <2>1 DEF Split
    <3>2. text = SubSeq(text, 1, n)
      BY DEF Text
    <3>3. \A k \in 1..n : text[k] # d
      BY <2>1, NoOccurrence
    <3>4. n + 1 \in 1..n + 1 /\ (n + 1) - 1 = n /\ ~(n + 1 <= n)
      BY <1>2
    <3> HIDE DEF first, text, n, d
    <3>5. n + 1 \in 1..n + 1
      BY <3>4
    <3> WITNESS n + 1 \in 1..n + 1
    <3> QED BY <3>1, <3>2, <3>3, <3>4
  <2>2. CASE Occurrences(text, d) # {}
    <3>1. PICK s \in DOMAIN text :
            /\ text[s] = d /\ first = SubSeq(text, 1, s - 1)
            /\ \A k \in DOMAIN text : k < s => text[k] # d
      BY <2>2, SplitAround
    <3> HIDE DEF first, text, n, d
    <3>2. s \in 1..n + 1 /\ \A k \in 1..s - 1 : text[k] # d
      BY <1>2, <3>1
    <3> QED BY <3>1, <3>2, Zenon
  <2> QED BY <2>1, <2>2
<1>4. PICK e \in 1..n + 1 :
        /\ first = SubSeq(text, 1, e - 1)
        /\ \A k \in 1..e - 1 : text[k] # d
        /\ e <= n => text[e] = d
  BY <1>3
<1> HIDE DEF first
<1>5. first \in Text /\ Len(first) = e - 1 /\ DOMAIN first = 1..(e - 1) /\ e \in 1..(n + 1)
      /\ \A k \in 1..(e - 1) : first[k] = text[k]
  BY <1>2, <1>4 DEF Text
<1>6. \E i, j \in 1..n + 1 :
        /\ i <= j /\ j <= e /\ Trim(first) = SubSeq(text, i, j - 1)
        /\ Trim(first) # <<>> => Head(Trim(first)) \notin Spaces /\ Last(Trim(first)) \notin Spaces
        /\ \A k \in 1..i - 1 : text[k] \in Spaces
        /\ \A k \in j..e - 1 : text[k] \in Spaces
  <2>1. CASE Solid(first) = {}
    <3>1. Ltrim(first) = <<>> /\ Rtrim(<<>>) = <<>>
      BY <2>1 DEF Ltrim, Rtrim, Solid
    <3>2. Trim(first) = <<>>
      BY <3>1, Zenon DEF Trim
    <3>3. SubSeq(text, e, e - 1) = <<>>
      BY <1>2, <1>5 DEF Text
    <3>4. \A k \in 1..(e - 1) : text[k] \in Spaces
      BY <1>5, <2>1 DEF Solid
    <3>5. e <= e /\ \A k \in e..(e - 1) : FALSE
      BY <1>5
    <3> QED BY <3>2, <3>3, <3>4, <3>5, <1>4, Zenon
  <2>2. CASE Solid(first) # {}
    <3> DEFINE i == Min(Solid(first))
               left == Ltrim(first)
               m == Max(Solid(left))
               j == i + m
    <3>1. i \in Solid(first) /\ \A y \in Solid(first) : i <= y
      <4>1. Solid(first) \subseteq Nat
        BY <1>5 DEF Solid
      <4> QED BY <2>2, <4>1, MinLeast
    <3>2. left = SubSeq(first, i, Len(first))
      BY <2>2, Zenon DEF Ltrim
    <3> HIDE DEF i, left
    <3>3. i \in 1..(e - 1) /\ first[i] \notin Spaces /\ \A k \in 1..(i - 1) : first[k] \in Spaces
      BY <1>5, <3>1 DEF Solid
    <3>4. /\ left \in Text /\ Len(left) = e - i /\ DOMAIN left = 1..(e - i)
          /\ \A k \in 1..(e - i) : left[k] = first[i + k - 1]
      BY <1>5, <3>2, <3>3 DEF Text
    <3>5. 1 \in Solid(left) /\ Solid(left) \in SUBSET (1..(e - i)) /\ e - i \in Nat
      BY <1>5, <3>3, <3>4 DEF Solid
    <3>6. m \in Solid(left) /\ \A y \in Solid(left) : m >= y
      BY <3>5, MaxGreatest
    <3>7. Trim(first) = SubSeq(left, 1, m)
      BY <3>5, Zenon DEF Trim, Rtrim, left
    <3> HIDE DEF m
    <3>8. m \in 1..(e - i) /\ left[m] \notin Spaces /\ \A k \in (m + 1)..(e - i) : left[k] \in Spaces
      <4>1. Solid(left) \subseteq 1..(e - i) /\ \A k \in Solid(left) : left[k] \notin Spaces
        BY <3>5, Zenon DEF Solid
      <4>2. ASSUME NEW k \in (m + 1)..(e - i) PROVE left[k] \in Spaces
        <5>1. m \in 1..(e - i) /\ k \in 1..(e - i) /\ ~(m >= k)
          BY <3>5, <3>6
        <5>2. k \notin Solid(left)
          BY <3>6, <5>1
        <5> QED BY <3>4, <5>1, <5>2 DEF Solid
      <4> QED BY <3>6, <4>1, <4>2
    <3>9. i \in 1..n + 1 /\ j \in 1..n + 1 /\ i <= j /\ j <= e
      BY <1>2, <1>5, <3>3, <3>8
    <3>10. Trim(first) = SubSeq(text, i, j - 1)
      <4> DEFINE a == SubSeq(left, 1, m)
                 b == SubSeq(text, i, j - 1)
      <4>1. a \in Text /\ Len(a) = m /\ \A k \in 1..m : a[k] = left[k]
        BY <3>4, <3>8, <1>5, <3>3 DEF Text
      <4>2. b \in Text /\ Len(b) = m /\ \A k \in 1..m : b[k] = text[i + k - 1]
        BY <1>2, <1>5, <3>3, <3>8 DEF Text
      <4> HIDE DEF a, b
      <4>3. \A k \in 1..m : left[k] = text[i + k - 1]
        <5> SUFFICES ASSUME NEW k \in 1..m PROVE left[k] = text[i + k - 1]
          OBVIOUS
        <5>1. k \in 1..(e - i) /\ i + k - 1 \in 1..(e - 1)
          BY <1>5, <3>3, <3>8
        <5> QED BY <1>5, <3>4, <5>1
      <4>4. a = b
        <5>1. Len(a) = Len(b) /\ \A k \in 1..Len(a) : a[k] = b[k]
          BY <4>1, <4>2, <4>3
        <5> QED BY <4>1, <4>2, <5>1, SeqEqual DEF Text
      <4> QED BY <3>7, <4>4 DEF a, b
    <3>11. Head(Trim(first)) \notin Spaces /\ Last(Trim(first)) \notin Spaces
      <4> DEFINE a == SubSeq(left, 1, m)
      <4>1. a \in Text /\ Len(a) = m /\ \A k \in 1..m : a[k] = left[k]
        BY <3>4, <3>8, <1>5, <3>3 DEF Text
      <4>2. a[1] \notin Spaces /\ a[m] \notin Spaces /\ m # 0
        <5>1. 1 \in 1..m /\ m \in 1..m /\ 1 \in 1..(e - i) /\ i + 1 - 1 = i /\ m # 0
          BY <1>5, <3>3, <3>8
        <5> QED BY <3>3, <3>4, <3>8, <4>1, <5>1
      <4> HIDE DEF a
      <4>3. Head(a) = a[1] /\ Last(a) = a[m]
        BY <4>1, <4>2 DEF Text, Last
      <4> QED BY <3>7, <4>2, <4>3 DEF a
    <3>12. \A k \in 1..i - 1 : text[k] \in Spaces
      BY <1>5, <3>3
    <3>13. ASSUME NEW k \in j..e - 1 PROVE text[k] \in Spaces
      <4>1. k - i + 1 \in (m + 1)..(e - i) /\ k - i + 1 \in 1..(e - i)
            /\ i + (k - i + 1) - 1 = k /\ k \in 1..(e - 1)
        BY <1>5, <3>3, <3>8
      <4>2. left[k - i + 1] \in Spaces /\ left[k - i + 1] = first[k]
        BY <3>4, <3>8, <4>1
      <4> QED BY <1>5, <4>1, <4>2
    <3> HIDE DEF j
    <3> QED BY <3>9, <3>10, <3>11, <3>12, <3>13, Zenon
  <2> QED BY <2>1, <2>2
<1>7. \E i, j \in 1..n + 1 :
        /\ i <= j /\ out' = SubSeq(text, i, j - 1)
        /\ out' # <<>> => Head(out') \notin Spaces /\ Last(out') \notin Spaces
        /\ \A k \in 1..i - 1 : text[k] \in Spaces
        /\ \E f \in j..n + 1 :
             /\ \A k \in j..f - 1 : text[k] \in Spaces
             /\ \A k \in 1..f - 1 : text[k] # d
             /\ f <= n => text[f] = d
  <2>1. \A j \in 1..n + 1 : j <= e => e \in j..n + 1
    BY <1>2, <1>5
  <2> HIDE DEF n, d, text
  <2> QED BY <1>1, <1>4, <1>6, <2>1, Zenon
<1> QED BY <1>1, <1>7, Zenon DEF NameTrimmed

LEMMA SplitIInvInit == ASSUME Init PROVE SplitIInv
<1>1. SUFFICES ASSUME IsSplit PROVE SplitIInv
  BY DEF SplitIInv, IsSplit, Init, Asks
<1>2. range.text \in Text /\ range.by \in Characters /\ range.reverse \in BOOLEAN
  BY <1>1, PipelinesAssumption DEF Init, IsSplit, Text
<1>3. /\ query.op = "each" \/ (query.op = "name" /\ ~range.reverse)
      /\ phase = "start" /\ out = <<>>
  BY <1>1 DEF Init, IsSplit, Asks
<1>4. TextsSplit
  BY <1>3 DEF TextsSplit, PartsTaken, NameTrimmed
<1> QED BY <1>1, <1>2, <1>3, <1>4 DEF SplitIInv

LEMMA SplitIInvStep ==
  ASSUME Unfolds(range), SplitIInv, [Next]_vars
  PROVE  SplitIInv'
<1>1. UNCHANGED <<range, query>>
  BY SameQuery
<1>2. SUFFICES ASSUME IsSplit PROVE SplitIInv'
  BY <1>1 DEF SplitIInv, IsSplit
<1>3. /\ range.text \in Text /\ range.by \in Characters /\ range.reverse \in BOOLEAN
      /\ query.op = "each" \/ (query.op = "name" /\ ~range.reverse)
  BY <1>2 DEF SplitIInv
<1>4. IsSplit'
  BY <1>1, <1>2 DEF IsSplit
<1>5. CASE UNCHANGED vars
  <2>1. UNCHANGED <<range, query, phase, it, stop, out>>
    BY <1>5 DEF vars
  <2>2. Remaining' <=> Remaining
    BY <2>1 DEF Remaining
  <2>3. TextsSplit' <=> TextsSplit
    BY <2>1 DEF TextsSplit, PartsTaken, NameTrimmed, IsSplit
  <2> QED BY <1>2, <2>1, <2>2, <2>3, <1>4 DEF SplitIInv
<1>6. CASE Start
  <2>1. /\ phase' = "walk" /\ query.op = "each" /\ out' = <<>> /\ stop' = <<>>
        /\ it' = range.text
    <3>1. BeginOf(range, made) = [it |-> range.text, made |-> made] /\ EndOf(range) = <<>>
      BY <1>2, SplitIs, Zenon
    <3>2. phase = "start" /\ out = <<>>
      BY <1>2, <1>6 DEF Start, SplitIInv
    <3> QED BY <1>3, <1>6, <3>1, <3>2 DEF Start, Walk
  <2>2. Remaining' /\ TextsSplit' /\ out' \in Seq(Text)
    BY <1>1, <2>1 DEF Remaining, TextsSplit, PartsTaken, NameTrimmed
  <2> QED BY <1>1, <1>3, <2>1, <2>2, <1>4 DEF SplitIInv
<1>7. CASE Crash
  BY <1>1, <1>2, <1>3, <1>4, <1>7 DEF Crash, SplitIInv, TextsSplit, PartsTaken, NameTrimmed
<1>8. CASE Copy
  <2>1. it' \in Text /\ out' \in Seq(Text) /\ Remaining'
    BY <1>2, <1>8, CopyRemains
  <2>2. phase = "walk" /\ query.op = "each" /\ stop = <<>> /\ phase' = phase /\ stop' = stop
    BY <1>2, <1>8 DEF SplitIInv, Copy, Reading, Walking, AdvanceFrom
  <2>3. TextsSplit'
    BY <1>1, <2>2 DEF TextsSplit, PartsTaken, NameTrimmed
  <2> QED BY <1>1, <1>3, <2>1, <2>2, <2>3, <1>4 DEF SplitIInv
<1>9. CASE Finish
  <2>1. phase = "walk" /\ query.op = "each" /\ stop = <<>> /\ out \in Seq(Text) /\ Remaining
    BY <1>2, <1>9 DEF SplitIInv, Finish, Walking
  <2>2. it = <<>>
    BY <1>2, <1>9, <2>1, SplitIs, Zenon DEF Finish
  <2>3. phase' = "done" /\ out' = out
    BY <1>9, <2>1 DEF Finish, Ends, Measured, Answer
  <2>4. /\ range.text = <<>> <=> out = <<>>
        /\ out # <<>> => range.text = JoinedBy(out, range.by) \o
                          (IF EndsIn(range.text, range.by) THEN <<range.by>> ELSE <<>>)
        /\ ~range.reverse => \A i \in DOMAIN out : Occurrences(out[i], range.by) = {}
        /\ range.reverse => Len(out) <= 1
    BY <1>2, <1>3, <2>1, <2>2, NothingRemains
  <2>5. TextsSplit'
    BY <1>1, <2>1, <2>3, <2>4, Zenon DEF TextsSplit, PartsTaken, NameTrimmed
  <2> QED BY <1>1, <1>3, <2>3, <2>5, <1>4 DEF SplitIInv
<1>10. CASE Name
  <2>1. ~range.reverse
    BY <1>3, <1>10 DEF Name
  <2>2. NameTrimmed'
    BY <1>2, <1>3, <1>10, <2>1, NameIsTrimmed
  <2>3. phase' = "done" /\ query.op = "name"
    BY <1>10 DEF Name
  <2>4. TextsSplit'
    BY <1>1, <2>2, <2>3 DEF TextsSplit, PartsTaken
  <2> QED BY <1>1, <1>3, <2>3, <2>4, <1>4 DEF SplitIInv
<1>11. CASE Count \/ Fold \/ Group \/ Miss \/ Hit \/ Singleton \/ Seize \/ Compete \/ Extremum
  BY <1>3, <1>11 DEF Count, Fold, Group, Miss, Hit, Singleton, Seize, Compete, Extremum, Reading,
                     Measured, Seeking, Quantifiers, Extrema
<1> QED BY <1>5, <1>6, <1>7, <1>8, <1>9, <1>10, <1>11 DEF Next

\* Texts are split where their delimiters are, and what loops and names take of
\* them is whole (format.hpp:38-80, 88-108, 133-144).
THEOREM TextsAreSplit == ASSUME \A r \in Pipelines : Unfolds(r) PROVE Spec => []TextsSplit
<1>1. Init => range \in Pipelines /\ SplitIInv
  BY SplitIInvInit DEF Init
<1>2. range \in Pipelines /\ SplitIInv /\ [Next]_vars => (range \in Pipelines /\ SplitIInv)'
  BY SplitIInvStep, SameQuery
<1>3. SplitIInv => TextsSplit
  BY DEF SplitIInv, TextsSplit, PartsTaken, NameTrimmed
<1> QED BY <1>1, <1>2, <1>3, PTL DEF Spec
-----------------------------------------------------------------------------
(* What a walk asks of mapped functions. *)

LEMMA MadeLen ==
  ASSUME NEW mk \in Made
  PROVE  Len(mk) \in Nat /\ DOMAIN mk = 1..Len(mk)
<1>1. Made = Seq(Results)
  BY DEF Made
<1> QED BY <1>1

\* Histories that only grow keep the calls there were.
LEMMA CallsGrow ==
  ASSUME NEW q, NEW mk \in Made, NEW more \in Made, IsPrefix(mk, more), NEW p
  PROVE  /\ Calls(q, mk, p) \subseteq Calls(q, more, p)
         /\ \A k \in Calls(q, mk, p) : k \in DOMAIN mk /\ k \in Nat /\ more[k] = mk[k]
<1>1. \A c \in DOMAIN mk : c \in DOMAIN more /\ more[c] = mk[c] /\ c \in Nat
  BY MadeKeeps
<1> QED BY <1>1 DEF Calls

Unchanged(q, mk, more, p) == \A k \in Calls(q, mk, p) : k \in Nat /\ more[k] = mk[k]

LEMMA CallsKept ==
  ASSUME NEW q, NEW mk \in Made, NEW more \in Made, IsPrefix(mk, more), NEW p
  PROVE  Unchanged(q, mk, more, p)
BY CallsGrow DEF Unchanged

LEMMA NoCallsYet ==
  ASSUME NEW q, NEW mk \in Made PROVE Calls(q, mk, Len(mk)) = {}
BY MadeLen DEF Calls

\* If nothing is asked meanwhile, there are the calls there were.
LEMMA NoneMeanwhile ==
  ASSUME NEW q, NEW mk \in Made, NEW more \in Made, IsPrefix(mk, more),
         Calls(q, more, Len(mk)) = {}, NEW p
  PROVE  Calls(q, more, p) = Calls(q, mk, p)
<1>1. Len(mk) \in Nat /\ DOMAIN mk = 1..Len(mk) /\ DOMAIN more = 1..Len(more) /\ Len(more) \in Nat
  BY MadeLen
<1>2. \A c \in DOMAIN mk : c \in DOMAIN more /\ more[c] = mk[c]
  BY MadeKeeps
<1>3. ASSUME NEW k \in Calls(q, more, p) PROVE k \in Calls(q, mk, p)
  <2>1. k \in DOMAIN more /\ more[k].map = q /\ k > p /\ k \in Nat
    BY <1>1, <1>3 DEF Calls
  <2>2. ~(k > Len(mk))
    BY <2>1 DEF Calls
  <2>3. k \in DOMAIN mk
    BY <1>1, <2>1, <2>2
  <2> QED BY <1>2, <2>1, <2>3 DEF Calls
<1>4. Calls(q, mk, p) \subseteq Calls(q, more, p)
  BY CallsGrow
<1> QED BY <1>3, <1>4

\* One more call, of the Map e.map.
OneMore(q, mk, p, e, more) ==
  /\ more \in Made /\ IsPrefix(mk, more)
  /\ \A k : k \in Calls(q, more, p) <=>
       k \in Calls(q, mk, p) \/ (k = Len(mk) + 1 /\ k > p /\ e.map = q)
  /\ Len(mk) \in Nat /\ more[Len(mk) + 1] = e
  /\ \A k \in Calls(q, mk, p) : k <= Len(mk) /\ k \in Nat /\ more[k] = mk[k]

LEMMA CallsMore ==
  ASSUME NEW q, NEW mk \in Made, NEW p \in Nat, NEW e \in Results,
         NEW more, more = Append(mk, e)
  PROVE  OneMore(q, mk, p, e, more)
<1>1. /\ more \in Made /\ IsPrefix(mk, more) /\ Len(more) = Len(mk) + 1 /\ Len(mk) \in Nat
      /\ more[Len(mk) + 1] = e
  BY MadeMore
<1>2. DOMAIN mk = 1..Len(mk) /\ DOMAIN more = 1..Len(mk) + 1
  BY <1>1, MadeLen
<1>3. \A c \in DOMAIN mk : more[c] = mk[c]
  BY <1>1, MadeKeeps
<1> DEFINE len == Len(mk)
<1> HIDE DEF len
<1>4. \A k : k \in Calls(q, more, p) <=>
        k \in Calls(q, mk, p) \/ (k = len + 1 /\ k > p /\ e.map = q)
  <2>1. \A k : k \in DOMAIN more <=> k \in DOMAIN mk \/ k = len + 1
    BY <1>1, <1>2 DEF len
  <2>2. len + 1 \notin DOMAIN mk
    BY <1>1, <1>2 DEF len
  <2>3. more[len + 1] = e
    BY <1>1 DEF len
  <2> QED BY <1>3, <2>1, <2>2, <2>3 DEF Calls
<1>5. \A k \in Calls(q, mk, p) : k <= Len(mk) /\ k \in Nat /\ more[k] = mk[k]
  BY <1>2, <1>3 DEF Calls
<1> QED BY <1>1, <1>4, <1>5 DEF OneMore, len

LEMMA CallsSame ==
  ASSUME NEW q, NEW mk \in Made, NEW p \in Nat, NEW e \in Results, e.map # q,
         NEW more, more = Append(mk, e)
  PROVE  more \in Made /\ IsPrefix(mk, more) /\ Calls(q, more, p) = Calls(q, mk, p)
<1>1. OneMore(q, mk, p, e, more)
  BY CallsMore
<1>2. \A k : k \in Calls(q, more, p) <=> k \in Calls(q, mk, p)
  BY <1>1, Zenon DEF OneMore
<1> QED BY <1>1, <1>2, Zenon DEF OneMore

\* The iterator j of a Map, at the m-th place, has been asked in order for what
\* is made, and for nothing beyond that place.
InOrderAt(q, j, mk, p, m) ==
  /\ Stands(q, j, mk, m)
  /\ \E at \in [Calls(q, mk, p) -> DOMAIN Denotes(q.of)] :
       /\ Ascends(q, mk, p, at)
       /\ \A k \in Calls(q, mk, p) : at[k] < m \/ (at[k] = m /\ j.current # 0)

InOrder(q, j, mk, p) == \E m : InOrderAt(q, j, mk, p, m)

\* An iterator is made of those below it, which a set has that is closed.
Closed(q, C) ==
  \A x \in C : x[1] # q /\ x[1].kind # "range" => <<x[1].of, x[2].it>> \in C

Thrifty(q, x, mk, p) ==
  IF x[1] = q THEN InOrder(q, x[2], mk, p)
  ELSE x[1].kind = "range" /\ Calls(q, mk, p) = {}

\* The walk of the iterator i of r is thrifty with q: it asks q, which is r or
\* below it, in order, and any other Map nothing.
Thrift(q, r, i, mk, p) ==
  \A C : <<r, i>> \in C /\ Closed(q, C) => \E x \in C : Thrifty(q, x, mk, p)

LEMMA ThriftHere ==
  ASSUME NEW q, NEW i, NEW mk, NEW p
  PROVE  Thrift(q, q, i, mk, p) <=> InOrder(q, i, mk, p)
<1>1. ASSUME Thrift(q, q, i, mk, p) PROVE InOrder(q, i, mk, p)
  <2>1. Closed(q, {<<q, i>>})
    BY DEF Closed
  <2>2. Thrifty(q, <<q, i>>, mk, p)
    BY <1>1, <2>1 DEF Thrift
  <2> QED BY <2>2 DEF Thrifty
<1>2. ASSUME InOrder(q, i, mk, p) PROVE Thrift(q, q, i, mk, p)
  <2>1. Thrifty(q, <<q, i>>, mk, p)
    BY <1>2 DEF Thrifty
  <2> QED BY <2>1 DEF Thrift
<1> QED BY <1>1, <1>2

LEMMA ThriftLast ==
  ASSUME NEW q, NEW r, r # q, r.kind = "range", NEW i, NEW mk, NEW p
  PROVE  Thrift(q, r, i, mk, p) <=> Calls(q, mk, p) = {}
<1>1. ASSUME Thrift(q, r, i, mk, p) PROVE Calls(q, mk, p) = {}
  <2>1. Closed(q, {<<r, i>>})
    BY DEF Closed
  <2>2. Thrifty(q, <<r, i>>, mk, p)
    BY <1>1, <2>1 DEF Thrift
  <2> QED BY <2>2 DEF Thrifty
<1>2. ASSUME Calls(q, mk, p) = {} PROVE Thrift(q, r, i, mk, p)
  <2>1. Thrifty(q, <<r, i>>, mk, p)
    BY <1>2 DEF Thrifty
  <2> QED BY <2>1 DEF Thrift
<1> QED BY <1>1, <1>2

LEMMA ThriftBelow ==
  ASSUME NEW q, NEW r, r # q, r.kind # "range", NEW i, NEW mk, NEW p
  PROVE  Thrift(q, r, i, mk, p) <=> Thrift(q, r.of, i.it, mk, p)
<1> DEFINE x == <<r, i>>
           y == <<r.of, i.it>>
<1>1. x[1] = r /\ x[2] = i
  OBVIOUS
<1>2. ~Thrifty(q, x, mk, p)
  BY <1>1 DEF Thrifty
<1> HIDE DEF x
<1>3. ASSUME Thrift(q, r, i, mk, p), NEW C, y \in C, Closed(q, C)
      PROVE  \E z \in C : Thrifty(q, z, mk, p)
  <2> DEFINE B == C \cup {x}
  <2>1. Closed(q, B)
    BY <1>1, <1>3 DEF Closed
  <2>2. PICK z \in B : Thrifty(q, z, mk, p)
    BY <1>3, <2>1 DEF Thrift, x
  <2> QED BY <1>2, <2>2
<1>4. ASSUME Thrift(q, r.of, i.it, mk, p), NEW C, x \in C, Closed(q, C)
      PROVE  \E z \in C : Thrifty(q, z, mk, p)
  <2>1. y \in C
    BY <1>1, <1>4 DEF Closed
  <2> QED BY <1>4, <2>1 DEF Thrift
<1> QED BY <1>3, <1>4 DEF Thrift, x

LEMMA BelowIs ==
  ASSUME NEW r \in Parts, r.kind # "range"
  PROVE  /\ r.of \in Parts /\ Height(r) \in Nat /\ Height(r.of) \in Nat
         /\ Height(r.of) < Height(r) /\ r.kind \in {"map", "filter", "flatten"}
<1>1. IsOver(r) /\ r.kind \in {"range", "map", "filter", "flatten"}
  BY Kinds
<1> QED BY <1>1 DEF IsOver

\* What nests less deep than a Map asks it nothing.
LEMMA ThriftIdle ==
  ASSUME NEW q \in Maps
  PROVE  \A r \in Parts : Height(r) \in Nat /\ Height(r) < Height(q) =>
           \A i, mk, p : Thrift(q, r, i, mk, p) => Calls(q, mk, p) = {}
<1> DEFINE Idle(r) == \A i, mk, p : Thrift(q, r, i, mk, p) => Calls(q, mk, p) = {}
           S == {h \in Nat : \E r \in Parts : /\ Height(r) = h /\ h < Height(q)
                                              /\ r.kind # "range" /\ ~Idle(r)}
<1>1. q \in Parts /\ q.kind = "map" /\ Height(q) \in Nat
  BY BelowIs DEF Maps
<1>2. \A r : r.kind = "range" => Idle(r)
  BY <1>1, ThriftLast
<1> HIDE DEF Idle
<1>3. ASSUME S # {} PROVE FALSE
  <2>1. PICK h \in S : \A y \in S : h <= y
    BY <1>3, MinLeast
  <2>2. PICK r \in Parts : Height(r) = h /\ h < Height(q) /\ r.kind # "range" /\ ~Idle(r)
    BY <2>1
  <2>3. r.of \in Parts /\ Height(r.of) \in Nat /\ Height(r.of) < h /\ h \in Nat /\ r # q
    BY <1>1, <2>2, BelowIs
  <2>4. Height(r.of) < Height(q) /\ Height(r.of) \notin S
    BY <1>1, <2>1, <2>2, <2>3
  <2>5. Idle(r.of)
    BY <1>2, <2>3, <2>4
  <2>6. Idle(r)
    BY <2>2, <2>3, <2>5, ThriftBelow, Zenon DEF Idle
  <2> QED BY <2>2, <2>6
<1>4. ASSUME NEW r \in Parts, Height(r) \in Nat, Height(r) < Height(q) PROVE Idle(r)
  BY <1>2, <1>3, <1>4
<1> QED BY <1>4 DEF Idle

\* Of a thrifty walk the calls of each Map are in order.
LEMMA ThriftOrders ==
  ASSUME NEW q \in Maps
  PROVE  \A r \in Parts : \A i, mk, p : Thrift(q, r, i, mk, p) =>
           \E at \in [Calls(q, mk, p) -> DOMAIN Denotes(q.of)] : Ascends(q, mk, p, at)
<1> DEFINE Orderly(r) ==
             \A i, mk, p : Thrift(q, r, i, mk, p) =>
               \E at \in [Calls(q, mk, p) -> DOMAIN Denotes(q.of)] : Ascends(q, mk, p, at)
           S == {h \in Nat : \E r \in Parts : Height(r) = h /\ r.kind # "range" /\ ~Orderly(r)}
<1>1. q \in Parts /\ q.kind = "map"
  BY DEF Maps
<1>2. ASSUME NEW r, r.kind = "range" PROVE Orderly(r)
  <2>1. ASSUME NEW mk, NEW p, Calls(q, mk, p) = {}
        PROVE  \E at \in [Calls(q, mk, p) -> DOMAIN Denotes(q.of)] : Ascends(q, mk, p, at)
    <3>1. PICK at : at = [k \in {} |-> 1]
      OBVIOUS
    <3>2. at \in [Calls(q, mk, p) -> DOMAIN Denotes(q.of)] /\ Ascends(q, mk, p, at)
      BY <2>1, <3>1 DEF Ascends
    <3> QED BY <3>2
  <2> QED BY <1>1, <1>2, <2>1, ThriftLast, Zenon
<1>3. Orderly(q)
  BY ThriftHere, Zenon DEF InOrder, InOrderAt
<1> HIDE DEF Orderly
<1>4. ASSUME S # {} PROVE FALSE
  <2>1. PICK h \in S : \A y \in S : h <= y
    BY <1>4, MinLeast
  <2>2. PICK r \in Parts : Height(r) = h /\ r.kind # "range" /\ ~Orderly(r)
    BY <2>1
  <2>3. r.of \in Parts /\ Height(r.of) \in Nat /\ Height(r.of) < h /\ h \in Nat /\ r # q
    BY <1>3, <2>2, BelowIs
  <2>4. Height(r.of) \notin S
    BY <2>1, <2>3
  <2>5. Orderly(r.of)
    BY <1>2, <2>3, <2>4
  <2>6. Orderly(r)
    BY <2>2, <2>3, <2>5, ThriftBelow, Zenon DEF Orderly
  <2> QED BY <2>2, <2>6
<1>5. ASSUME NEW r \in Parts PROVE Orderly(r)
  <2>1. r.kind # "range" => Height(r) \in Nat
    BY BelowIs
  <2> QED BY <1>2, <1>4, <2>1
<1> QED BY <1>5 DEF Orderly

LEMMA StandsBelow ==
  ASSUME Unfolded, NEW r \in Parts, r.kind # "range", NEW i, NEW mk, NEW n, Stands(r, i, mk, n)
  PROVE  \E m : Stands(r.of, i.it, mk, m)
<1>1. Stands(r, i, mk, n) <=> StandsAt(r, i, mk, n)
  <2>1. r.kind # "split"
    BY Kinds
  <2> QED BY <2>1 DEF Unfolded, Unfolds
<1> QED BY <1>1 DEF StandsAt

\* A walk that begins anywhere has asked nothing yet.
LEMMA ThriftAnew ==
  ASSUME Unfolded, NEW q \in Maps
  PROVE  \A r \in Parts : \A i, mk, n : Stands(r, i, mk, n) => Thrift(q, r, i, mk, Len(mk))
<1> DEFINE Anew(r) == \A i, mk, n : Stands(r, i, mk, n) => Thrift(q, r, i, mk, Len(mk))
           S == {h \in Nat : \E r \in Parts : Height(r) = h /\ r.kind # "range" /\ ~Anew(r)}
<1>1. q \in Parts /\ q.kind = "map"
  BY DEF Maps
<1>2. \A r \in Parts : \A i, mk, n : Stands(r, i, mk, n) => mk \in Made /\ Calls(q, mk, Len(mk)) = {}
  BY AllSound, SoundPlace, NoCallsYet
<1>3. ASSUME NEW r \in Parts, r.kind = "range" PROVE Anew(r)
  BY <1>1, <1>2, <1>3, ThriftLast, Zenon
<1>4. Anew(q)
  <2>1. ASSUME NEW i, NEW mk, NEW n, Stands(q, i, mk, n) PROVE InOrderAt(q, i, mk, Len(mk), n)
    <3>1. Calls(q, mk, Len(mk)) = {}
      BY <1>1, <1>2, <2>1
    <3>2. PICK at : at = [k \in {} |-> 1]
      OBVIOUS
    <3>3. at \in [Calls(q, mk, Len(mk)) -> DOMAIN Denotes(q.of)] /\ Ascends(q, mk, Len(mk), at)
      BY <3>1, <3>2 DEF Ascends
    <3> QED BY <2>1, <3>1, <3>3 DEF InOrderAt
  <2> QED BY <2>1, ThriftHere, Zenon DEF InOrder
<1> HIDE DEF Anew
<1>5. ASSUME S # {} PROVE FALSE
  <2>1. PICK h \in S : \A y \in S : h <= y
    BY <1>5, MinLeast
  <2>2. PICK r \in Parts : Height(r) = h /\ r.kind # "range" /\ ~Anew(r)
    BY <2>1
  <2>3. r.of \in Parts /\ Height(r.of) \in Nat /\ Height(r.of) < h /\ h \in Nat /\ r # q
    BY <1>4, <2>2, BelowIs
  <2>4. Height(r.of) \notin S
    BY <2>1, <2>3
  <2>5. Anew(r.of)
    BY <1>3, <2>3, <2>4
  <2>6. Anew(r)
    BY <2>2, <2>3, <2>5, ThriftBelow, StandsBelow, Zenon DEF Anew
  <2> QED BY <2>2, <2>6
<1>6. ASSUME NEW r \in Parts PROVE Anew(r)
  <2>1. r.kind # "range" => Height(r) \in Nat
    BY BelowIs
  <2> QED BY <1>3, <1>5, <2>1
<1> QED BY <1>6 DEF Anew

\* Values that are made later, none of them by q, change nothing.
LEMMA ThriftLasts ==
  ASSUME Unfolded, NEW q \in Maps, NEW r, NEW i, NEW mk \in Made, NEW p, Thrift(q, r, i, mk, p),
         NEW more \in Made, IsPrefix(mk, more), Calls(q, more, p) = Calls(q, mk, p)
  PROVE  Thrift(q, r, i, more, p)
<1>1. Sound(q)
  BY AllSound DEF Maps
<1>2. ASSUME NEW j, NEW m, InOrderAt(q, j, mk, p, m) PROVE InOrderAt(q, j, more, p, m)
  <2>1. Stands(q, j, more, m)
    BY <1>1, <1>2, SoundLasts DEF InOrderAt
  <2>2. \A k \in Calls(q, mk, p) : more[k] = mk[k]
    BY CallsGrow
  <2>3. PICK at \in [Calls(q, mk, p) -> DOMAIN Denotes(q.of)] :
          /\ Ascends(q, mk, p, at)
          /\ \A k \in Calls(q, mk, p) : at[k] < m \/ (at[k] = m /\ j.current # 0)
    BY <1>2 DEF InOrderAt
  <2>4. Ascends(q, more, p, at)
    BY <2>2, <2>3 DEF Ascends
  <2> QED BY <2>1, <2>3, <2>4 DEF InOrderAt
<1>3. \A j : InOrder(q, j, mk, p) => InOrder(q, j, more, p)
  BY <1>2, Zenon DEF InOrder
<1>4. \A x : Thrifty(q, x, mk, p) => Thrifty(q, x, more, p)
  BY <1>3, Zenon DEF Thrifty
<1> QED BY <1>4, Zenon DEF Thrift

\* A range is economical with q if no operator of its iterators makes a walk that
\* is thrifty with q less so.  The iterator that is incremented may be a copy of
\* the one that was read, which has kept nothing.
EconomicalAt(q, r, i, mk, n, p) ==
  LET d == Dereferenced(r, i, mk)
      s == Incremented(r, i, mk)
  IN
  /\ Thrift(q, r, d.it, d.made, p)
  /\ Thrift(q, r, s.it, s.made, p)
  /\ \A more \in Made : IsPrefix(d.made, more) /\ Calls(q, more, p) = Calls(q, d.made, p) =>
       LET t == Incremented(r, i, more) IN Thrift(q, r, t.it, t.made, p)

Economical(q, r) ==
  /\ \A mk \in Made :
       LET b == BeginOf(r, mk) IN Thrift(q, r, b.it, b.made, Len(mk))
  /\ \A p \in Nat : \A i, mk, n :
       Stands(r, i, mk, n) /\ n <= Len(Denotes(r)) /\ Thrift(q, r, i, mk, p) =>
         EconomicalAt(q, r, i, mk, n, p)

LEMMA EconomicalHere ==
  ASSUME NEW q, NEW r, Economical(q, r), NEW i, NEW mk, NEW n, NEW p \in Nat,
         Stands(r, i, mk, n), n <= Len(Denotes(r)), Thrift(q, r, i, mk, p),
         NEW d, d = Dereferenced(r, i, mk), NEW s, s = Incremented(r, i, mk)
  PROVE  /\ Thrift(q, r, d.it, d.made, p) /\ Thrift(q, r, s.it, s.made, p)
         /\ \A more \in Made : IsPrefix(d.made, more) /\ Calls(q, more, p) = Calls(q, d.made, p) =>
              LET t == Incremented(r, i, more) IN Thrift(q, r, t.it, t.made, p)
<1>1. EconomicalAt(q, r, i, mk, n, p)
  BY DEF Economical
<1> QED BY <1>1 DEF EconomicalAt

\* Where q is not below, it is asked nothing.
LEMMA BeginsIdle ==
  ASSUME Unfolded, NEW q \in Maps, NEW r \in Parts, Height(r) \in Nat, Height(r) < Height(q),
         Economical(q, r), NEW mk \in Made, NEW b, b = BeginOf(r, mk)
  PROVE  Calls(q, b.made, Len(mk)) = {}
<1>1. Thrift(q, r, b.it, b.made, Len(mk))
  BY DEF Economical
<1> QED BY <1>1, ThriftIdle

LEMMA EconomicalIdle ==
  ASSUME Unfolded, NEW q \in Maps, NEW r \in Parts, Height(r) \in Nat, Height(r) < Height(q),
         Economical(q, r), Sound(r),
         NEW i, NEW mk, NEW n, Stands(r, i, mk, n), n <= Len(Denotes(r)),
         NEW d, d = Dereferenced(r, i, mk), NEW s, s = Incremented(r, i, mk), NEW p
  PROVE  Calls(q, d.made, p) = Calls(q, mk, p) /\ Calls(q, s.made, p) = Calls(q, mk, p)
<1>1. mk \in Made /\ Len(mk) \in Nat
  BY SoundPlace, MadeLen
<1>2. Thrift(q, r, i, mk, Len(mk))
  BY ThriftAnew
<1>3. Thrift(q, r, d.it, d.made, Len(mk)) /\ Thrift(q, r, s.it, s.made, Len(mk))
  BY <1>1, <1>2, EconomicalHere
<1>4. Calls(q, d.made, Len(mk)) = {} /\ Calls(q, s.made, Len(mk)) = {}
  BY <1>3, ThriftIdle
<1>5. d.made \in Made /\ IsPrefix(mk, d.made)
  BY SoundReads
<1>6. s.made \in Made /\ IsPrefix(mk, s.made)
  BY SoundSteps
<1> QED BY <1>1, <1>4, <1>5, <1>6, NoneMeanwhile

LEMMA RangeEconomical ==
  ASSUME Unfolded, NEW q \in Maps, NEW r \in Parts, r.kind = "range"
  PROVE  Economical(q, r)
<1>1. r # q
  BY DEF Maps
<1>2. /\ \A i, mk : Dereferenced(r, i, mk) = [it |-> i, val |-> r.elems[i], made |-> mk]
      /\ \A i, mk : Incremented(r, i, mk) = [it |-> i + 1, made |-> mk]
      /\ \A mk : BeginOf(r, mk) = [it |-> 1, made |-> mk]
  <2>1. \A i, mk : Dereferenced(r, i, mk) = [it |-> i, val |-> r.elems[i], made |-> mk]
    BY Zenon DEF Unfolded, Unfolds, Deref
  <2>2. \A i, mk : Incremented(r, i, mk) = [it |-> i + 1, made |-> mk]
    BY Zenon DEF Unfolded, Unfolds, Step
  <2>3. \A mk : BeginOf(r, mk) = [it |-> 1, made |-> mk]
    BY Zenon DEF Unfolded, Unfolds, Begin
  <2> QED BY <2>1, <2>2, <2>3
<1>3. \A i, mk, p : Thrift(q, r, i, mk, p) <=> Calls(q, mk, p) = {}
  BY <1>1, ThriftLast
<1>4. \A mk \in Made : Calls(q, mk, Len(mk)) = {}
  BY NoCallsYet
<1>5. ASSUME NEW i, NEW mk, NEW n, NEW p, Thrift(q, r, i, mk, p)
      PROVE  EconomicalAt(q, r, i, mk, n, p)
  BY <1>2, <1>3, <1>5 DEF EconomicalAt
<1>6. \A mk \in Made : LET b == BeginOf(r, mk) IN Thrift(q, r, b.it, b.made, Len(mk))
  BY <1>2, <1>3, <1>4
<1> QED BY <1>5, <1>6, Zenon DEF Economical
\* The call of a Map that makes a value.

LEMMA CallIs ==
  ASSUME NEW r \in Parts, r.kind = "map", NEW n \in 1..Len(Denotes(r))
  PROVE  LET x == Denotes(r.of)[n] IN
         Call(r, x) \in Results /\ Call(r, x).map = r /\ Call(r, x).arg = x
<1>1. PICK x : x = Denotes(r.of)[n]
  OBVIOUS
<1>2. x \in Leaves /\ x \in Int /\ r.fn \in [Leaves -> Int] /\ r \in Maps
  BY <1>1, MapDenotes DEF Maps
<1>3. r.fn[x] \in Int
  BY <1>2
<1>4. Call(r, x) \in Results /\ Call(r, x).map = r /\ Call(r, x).arg = x
  BY <1>2, <1>3 DEF Call, Results
<1> QED BY <1>1, <1>4

\* What a Map iterator that has kept nothing makes.
LEMMA MapMakes ==
  ASSUME Unfolded, NEW r \in Parts, r.kind = "map", Sound(r.of), NEW i, NEW mk, NEW n,
         Stands(r, i, mk, n), n <= Len(Denotes(r)), i.current = 0,
         NEW d, d = Dereferenced(r, i, mk), NEW inner, inner = Dereferenced(r.of, i.it, mk)
  PROVE  /\ d.it.it = inner.it /\ d.it.current = Len(inner.made) + 1
         /\ d.made = Append(inner.made, Call(r, Denotes(r.of)[n]))
         /\ inner.made \in Made /\ n \in 1..Len(Denotes(r)) /\ IsPrefix(mk, inner.made)
<1>1. /\ Stands(r.of, i.it, mk, n) /\ n \in 1..Len(Denotes(r)) /\ n <= Len(Denotes(r.of))
  BY MapStands, SoundPlace, MapDenotes
<1>2. /\ Means(r.of, inner.val, Denotes(r.of)[n], inner.made)
      /\ inner.made \in Made /\ IsPrefix(mk, inner.made)
  BY <1>1, SoundReads
<1>3. inner.val = Denotes(r.of)[n]
  BY <1>2, MapDenotes DEF Means
<1>4. PICK e : e = Call(r, inner.val)
  OBVIOUS
<1>5. PICK more : more = Append(inner.made, e)
  OBVIOUS
<1>6. d.it.it = inner.it /\ d.it.current = Len(more) /\ d.made = more
  BY <1>4, <1>5, MapReadsNew, SMTT(30)
<1>7. e \in Results
  BY <1>1, <1>3, <1>4, CallIs
<1>8. Len(more) = Len(inner.made) + 1
  BY <1>2, <1>5, <1>7, MadeMore
<1>9. more = Append(inner.made, Call(r, Denotes(r.of)[n]))
  BY <1>3, <1>4, <1>5, Zenon
<1> QED BY <1>1, <1>2, <1>6, <1>8, <1>9, Zenon

\* A Map above q.
LEMMA MapEconomical ==
  ASSUME Unfolded, NEW q \in Maps, NEW r \in Parts, r.kind = "map", r # q, Sound(r.of),
         Economical(q, r.of)
  PROVE  Economical(q, r)
<1>1. \A i, mk, p : Thrift(q, r, i, mk, p) <=> Thrift(q, r.of, i.it, mk, p)
  BY ThriftBelow
<1>2. ASSUME NEW mk \in Made, NEW b, b = BeginOf(r, mk)
      PROVE  Thrift(q, r, b.it, b.made, Len(mk))
  <2>1. PICK a : a = BeginOf(r.of, mk)
    OBVIOUS
  <2>2. b.it.it = a.it /\ b.made = a.made
    BY <1>2, <2>1, MapIs
  <2>3. Thrift(q, r.of, a.it, a.made, Len(mk))
    BY <2>1 DEF Economical
  <2> QED BY <1>1, <2>2, <2>3
<1>3. ASSUME NEW i, NEW mk, NEW n, NEW p \in Nat,
             Stands(r, i, mk, n), n <= Len(Denotes(r)), Thrift(q, r, i, mk, p)
      PROVE  EconomicalAt(q, r, i, mk, n, p)
  <2>1. /\ Stands(r.of, i.it, mk, n) /\ n <= Len(Denotes(r.of)) /\ mk \in Made
        /\ Thrift(q, r.of, i.it, mk, p)
    BY <1>1, <1>3, MapStands, SoundPlace, MapDenotes
  <2>2. PICK d : d = Dereferenced(r, i, mk)
    OBVIOUS
  <2>3. PICK inner : inner = Dereferenced(r.of, i.it, mk)
    OBVIOUS
  <2>4. PICK s : s = Incremented(r.of, i.it, mk)
    OBVIOUS
  <2>5. /\ Thrift(q, r.of, inner.it, inner.made, p) /\ Thrift(q, r.of, s.it, s.made, p)
        /\ \A more \in Made :
             IsPrefix(inner.made, more) /\ Calls(q, more, p) = Calls(q, inner.made, p) =>
               LET t == Incremented(r.of, i.it, more) IN Thrift(q, r.of, t.it, t.made, p)
    BY <1>3, <2>1, <2>3, <2>4, EconomicalHere
  <2>6. \A more : LET t == Incremented(r, i, more)
                      u == Incremented(r.of, i.it, more)
                  IN  Thrift(q, r.of, u.it, u.made, p) => Thrift(q, r, t.it, t.made, p)
    <3>1. ASSUME NEW more, NEW t, t = Incremented(r, i, more),
                 NEW u, u = Incremented(r.of, i.it, more), Thrift(q, r.of, u.it, u.made, p)
          PROVE  Thrift(q, r, t.it, t.made, p)
      <4>1. t.it.it = u.it /\ t.made = u.made
        BY <3>1, MapIs
      <4> QED BY <1>1, <3>1, <4>1
    <3> QED BY <3>1
  <2>7. CASE i.current # 0
    <3>1. d.it = i /\ d.made = mk
      BY <2>2, <2>7, MapReadsKept
    <3>2. ASSUME NEW more \in Made, IsPrefix(mk, more), Calls(q, more, p) = Calls(q, mk, p)
          PROVE  LET t == Incremented(r, i, more) IN Thrift(q, r, t.it, t.made, p)
      <4>1. Thrift(q, r.of, i.it, more, p)
        BY <2>1, <3>2, ThriftLasts
      <4>2. Stands(r.of, i.it, more, n)
        BY <2>1, <3>2, SoundLasts
      <4>3. PICK u : u = Incremented(r.of, i.it, more)
        OBVIOUS
      <4>4. Thrift(q, r.of, u.it, u.made, p)
        BY <1>3, <2>1, <4>1, <4>2, <4>3, EconomicalHere
      <4> QED BY <2>6, <4>3, <4>4
    <3>3. Thrift(q, r, d.it, d.made, p)
      BY <1>3, <3>1
    <3>4. LET t == Incremented(r, i, mk) IN Thrift(q, r, t.it, t.made, p)
      BY <2>4, <2>5, <2>6
    <3> QED BY <2>2, <3>1, <3>2, <3>3, <3>4 DEF EconomicalAt
  <2>8. CASE i.current = 0
    <3>0. PICK e : e = Call(r, Denotes(r.of)[n])
      OBVIOUS
    <3>1. /\ d.it.it = inner.it /\ d.made = Append(inner.made, e)
          /\ inner.made \in Made /\ n \in 1..Len(Denotes(r))
      BY <1>3, <2>2, <2>3, <2>8, <3>0, MapMakes
    <3>2. e \in Results /\ e.map # q
      BY <3>0, <3>1, CallIs
    <3>3. /\ d.made \in Made /\ IsPrefix(inner.made, d.made)
          /\ Calls(q, d.made, p) = Calls(q, inner.made, p)
      <4>1. PICK old, more : old = inner.made /\ more = d.made
        OBVIOUS
      <4>2. old \in Made /\ more = Append(old, e)
        BY <3>1, <4>1, Zenon
      <4>3. more \in Made /\ IsPrefix(old, more) /\ Calls(q, more, p) = Calls(q, old, p)
        BY <3>2, <4>2, CallsSame
      <4> QED BY <4>1, <4>3, Zenon
    <3>4. Thrift(q, r.of, inner.it, d.made, p)
      BY <2>5, <3>1, <3>3, ThriftLasts
    <3>5. Thrift(q, r, d.it, d.made, p)
      BY <1>1, <3>1, <3>4
    <3>6. ASSUME NEW more \in Made, IsPrefix(d.made, more), Calls(q, more, p) = Calls(q, d.made, p)
          PROVE  LET t == Incremented(r, i, more) IN Thrift(q, r, t.it, t.made, p)
      <4>1. IsPrefix(inner.made, more) /\ Calls(q, more, p) = Calls(q, inner.made, p)
        BY <3>1, <3>3, <3>6, PrefixOrder
      <4>2. LET u == Incremented(r.of, i.it, more) IN Thrift(q, r.of, u.it, u.made, p)
        BY <2>5, <4>1
      <4> QED BY <2>6, <4>2
    <3>7. LET t == Incremented(r, i, mk) IN Thrift(q, r, t.it, t.made, p)
      BY <2>4, <2>5, <2>6
    <3> QED BY <2>2, <3>5, <3>6, <3>7 DEF EconomicalAt
  <2> QED BY <2>7, <2>8, Zenon
<1> QED BY <1>2, <1>3, Zenon DEF Economical

\* A step of the iterator of q, whatever was made since: the place is the next,
\* and nothing has been asked for that.
LEMMA StepInOrder ==
  ASSUME Unfolded, NEW q \in Maps, Economical(q, q.of), NEW p \in Nat,
         NEW i, NEW more, NEW m, Stands(q, i, more, m), m <= Len(Denotes(q)),
         NEW at \in [Calls(q, more, p) -> DOMAIN Denotes(q.of)], Ascends(q, more, p, at),
         \A k \in Calls(q, more, p) : at[k] <= m,
         NEW t, t = Incremented(q, i, more)
  PROVE  Thrift(q, q, t.it, t.made, p)
<1>1. q \in Parts /\ q.kind = "map" /\ q.of \in Parts
  BY MapDenotes DEF Maps
<1>2. Sound(q) /\ Sound(q.of)
  BY <1>1, AllSound
<1>3. PICK s : s = Incremented(q.of, i.it, more)
  OBVIOUS
<1>4. t.it.it = s.it /\ t.it.current = 0 /\ t.made = s.made
  BY <1>1, <1>3, MapIs
<1>5. /\ Stands(q, t.it, t.made, m + 1) /\ IsPrefix(more, t.made) /\ t.made \in Made
      /\ more \in Made
  BY <1>1, <1>2, SoundSteps, SoundPlace
<1>6. Stands(q.of, i.it, more, m) /\ m <= Len(Denotes(q.of)) /\ m \in Nat
  BY <1>1, <1>2, MapStands, SoundPlace, MapDenotes
<1>7. Height(q.of) \in Nat /\ Height(q.of) < Height(q)
  BY <1>1, BelowIs
<1>8. Calls(q, t.made, p) = Calls(q, more, p)
  <2>1. PICK d : d = Dereferenced(q.of, i.it, more)
    OBVIOUS
  <2>2. Calls(q, s.made, p) = Calls(q, more, p)
    BY <1>1, <1>2, <1>3, <1>6, <1>7, <2>1, EconomicalIdle
  <2> QED BY <1>4, <2>2
<1>9. \A k \in Calls(q, more, p) : t.made[k] = more[k]
  <2>1. PICK new : new = t.made
    OBVIOUS
  <2>2. new \in Made /\ IsPrefix(more, new)
    BY <1>5, <2>1
  <2>3. Unchanged(q, more, new, p)
    BY <1>5, <2>2, CallsKept
  <2> QED BY <2>1, <2>3 DEF Unchanged
<1>10. Ascends(q, t.made, p, at)
  BY <1>8, <1>9 DEF Ascends
<1>11. \A k \in Calls(q, more, p) : at[k] < m + 1
  <2>1. DOMAIN Denotes(q.of) = 1..Len(Denotes(q.of)) /\ Len(Denotes(q.of)) \in Nat
    BY <1>1, Kinds
  <2>2. \A k \in Calls(q, more, p) : at[k] \in 1..Len(Denotes(q.of))
    BY <2>1
  <2> QED BY <1>6, <2>1, <2>2
<1>12. InOrderAt(q, t.it, t.made, p, m + 1)
  BY <1>5, <1>8, <1>10, <1>11 DEF InOrderAt
<1> QED BY <1>12, ThriftHere DEF InOrder

\* Reading the iterator of q, which asks for what it has not kept.
LEMMA ReadInOrder ==
  ASSUME Unfolded, NEW q \in Maps, Economical(q, q.of), NEW p \in Nat,
         NEW i, NEW mk, NEW m, InOrderAt(q, i, mk, p, m), m <= Len(Denotes(q)),
         NEW d, d = Dereferenced(q, i, mk)
  PROVE  InOrderAt(q, d.it, d.made, p, m)
<1>1. q \in Parts /\ q.kind = "map" /\ q.of \in Parts
  BY MapDenotes DEF Maps
<1>2. Sound(q) /\ Sound(q.of)
  BY <1>1, AllSound
<1>3. Stands(q, i, mk, m)
  BY DEF InOrderAt
<1>4. Stands(q.of, i.it, mk, m) /\ m <= Len(Denotes(q.of)) /\ m \in Nat /\ mk \in Made
  BY <1>1, <1>2, <1>3, MapStands, SoundPlace, MapDenotes
<1>5. CASE i.current # 0
  <2>1. d.it = i /\ d.made = mk
    BY <1>1, <1>5, MapReadsKept
  <2> QED BY <2>1
<1>6. CASE i.current = 0
  <2>1. PICK inner : inner = Dereferenced(q.of, i.it, mk)
    OBVIOUS
  <2>2. PICK x : x = Denotes(q.of)[m]
    OBVIOUS
  <2>3. PICK e : e = Call(q, x)
    OBVIOUS
  <2>4. PICK old, more : old = inner.made /\ more = d.made
    OBVIOUS
  <2>5. /\ d.it.current = Len(old) + 1 /\ more = Append(old, e)
        /\ old \in Made /\ m \in 1..Len(Denotes(q)) /\ IsPrefix(mk, old)
    <3>1. /\ d.it.current = Len(inner.made) + 1
          /\ d.made = Append(inner.made, Call(q, Denotes(q.of)[m]))
          /\ inner.made \in Made /\ m \in 1..Len(Denotes(q)) /\ IsPrefix(mk, inner.made)
      BY <1>1, <1>2, <1>3, <1>6, <2>1, MapMakes
    <3> QED BY <2>2, <2>3, <2>4, <3>1, Zenon
  <2>6. e \in Results /\ e.map = q /\ e.arg = x /\ m \in DOMAIN Denotes(q.of)
    BY <1>1, <2>2, <2>3, <2>5, CallIs, MapDenotes
  <2>7. /\ more \in Made /\ IsPrefix(old, more)
        /\ \A k : k \in Calls(q, more, p) <=>
             k \in Calls(q, old, p) \/ (k = Len(old) + 1 /\ k > p /\ e.map = q)
        /\ Len(old) \in Nat /\ more[Len(old) + 1] = e
        /\ \A k \in Calls(q, old, p) : k <= Len(old) /\ k \in Nat /\ more[k] = old[k]
    <3>1. old \in Made /\ more = Append(old, e)
      BY <2>5
    <3>2. OneMore(q, old, p, e, more)
      BY <2>6, <3>1, CallsMore
    <3> QED BY <3>2, Zenon DEF OneMore
  <2>8. Calls(q, old, p) = Calls(q, mk, p)
    <3>1. Height(q.of) \in Nat /\ Height(q.of) < Height(q)
      BY <1>1, BelowIs
    <3>2. PICK s : s = Incremented(q.of, i.it, mk)
      OBVIOUS
    <3>3. Calls(q, inner.made, p) = Calls(q, mk, p)
      BY <1>1, <1>2, <1>4, <2>1, <3>1, <3>2, EconomicalIdle
    <3> QED BY <2>4, <3>3
  <2>9. \A k \in Calls(q, mk, p) : old[k] = mk[k]
    <3>1. Unchanged(q, mk, old, p)
      BY <1>4, <2>5, CallsKept
    <3> QED BY <3>1 DEF Unchanged
  <2>10. PICK at \in [Calls(q, mk, p) -> DOMAIN Denotes(q.of)] :
           /\ Ascends(q, mk, p, at)
           /\ \A k \in Calls(q, mk, p) : at[k] < m \/ (at[k] = m /\ i.current # 0)
    BY DEF InOrderAt
  <2> DEFINE next == Len(old) + 1
             to == [k \in Calls(q, more, p) |-> IF k = next THEN m ELSE at[k]]
  <2>11. \A k \in Calls(q, more, p) : k = next \/ (k \in Calls(q, mk, p) /\ k < next /\ k # next)
    BY <2>7, <2>8
  <2>12. next \notin Calls(q, mk, p) /\ next \in Nat /\ next # 0
    BY <2>7, <2>8
  <2> HIDE DEF next
  <2>13. to \in [Calls(q, more, p) -> DOMAIN Denotes(q.of)]
    BY <2>6, <2>11
  <2>14. \A k \in Calls(q, more, p) : k # next => to[k] = at[k] /\ at[k] < m /\ more[k] = mk[k]
    BY <1>6, <2>7, <2>8, <2>9, <2>10, <2>11
  <2>15. \A k \in Calls(q, more, p) : k = next => to[k] = m /\ more[k] = e
    BY <2>7 DEF next
  <2> HIDE DEF to
  <2>16. Ascends(q, more, p, to)
    <3>1. ASSUME NEW k \in Calls(q, more, p) PROVE more[k].arg = Denotes(q.of)[to[k]]
      <4>1. CASE k = next
        BY <2>2, <2>6, <2>15, <4>1
      <4>2. CASE k # next
        BY <2>10, <2>11, <2>14, <4>2 DEF Ascends
      <4> QED BY <4>1, <4>2
    <3>2. ASSUME NEW k \in Calls(q, more, p), NEW l \in Calls(q, more, p), k < l
          PROVE  to[k] < to[l]
      <4>1. k # next
        BY <2>7, <2>8, <2>11, <2>12, <3>2
      <4>2. CASE l = next
        BY <2>14, <2>15, <4>1, <4>2
      <4>3. CASE l # next
        BY <2>10, <2>11, <2>14, <3>2, <4>1, <4>3 DEF Ascends
      <4> QED BY <4>2, <4>3
    <3> QED BY <3>1, <3>2 DEF Ascends
  <2>17. \A k \in Calls(q, more, p) : to[k] < m \/ (to[k] = m /\ d.it.current # 0)
    BY <2>5, <2>12, <2>14, <2>15 DEF next
  <2>18. Stands(q, d.it, d.made, m)
    <3>1. m <= Len(Denotes(q))
      OBVIOUS
    <3> QED BY <1>1, <1>2, <1>3, <3>1, SoundReads
  <2> QED BY <2>4, <2>13, <2>16, <2>17, <2>18 DEF InOrderAt
<1> QED BY <1>5, <1>6, Zenon

\* The Map q itself.
LEMMA MapEconomicalHere ==
  ASSUME Unfolded, NEW q \in Maps, Economical(q, q.of)
  PROVE  Economical(q, q)
<1>1. q \in Parts /\ q.kind = "map" /\ q.of \in Parts
  BY MapDenotes DEF Maps
<1>2. Sound(q) /\ Sound(q.of)
  BY <1>1, AllSound
<1>3. ASSUME NEW mk \in Made, NEW b, b = BeginOf(q, mk)
      PROVE  Thrift(q, q, b.it, b.made, Len(mk))
  <2>1. PICK a : a = BeginOf(q.of, mk)
    OBVIOUS
  <2>2. b.made = a.made
    BY <1>1, <1>3, <2>1, MapIs
  <2>3. Height(q.of) \in Nat /\ Height(q.of) < Height(q)
    BY <1>1, BelowIs
  <2>4. Calls(q, b.made, Len(mk)) = {}
    BY <1>1, <1>2, <2>1, <2>2, <2>3, BeginsIdle
  <2>5. Stands(q, b.it, b.made, 1)
    BY <1>1, <1>2, <1>3, SoundOpens
  <2>6. PICK at : at = [k \in {} |-> 1]
    OBVIOUS
  <2>7. at \in [Calls(q, b.made, Len(mk)) -> DOMAIN Denotes(q.of)] /\ Ascends(q, b.made, Len(mk), at)
    BY <2>4, <2>6 DEF Ascends
  <2>8. InOrderAt(q, b.it, b.made, Len(mk), 1)
    BY <2>4, <2>5, <2>7 DEF InOrderAt
  <2> QED BY <2>8, ThriftHere DEF InOrder
<1>4. ASSUME NEW i, NEW mk, NEW n, NEW p \in Nat,
             Stands(q, i, mk, n), n <= Len(Denotes(q)), Thrift(q, q, i, mk, p)
      PROVE  EconomicalAt(q, q, i, mk, n, p)
  <2>1. PICK m : InOrderAt(q, i, mk, p, m)
    BY <1>4, ThriftHere DEF InOrder
  <2>2. Stands(q, i, mk, m) /\ mk \in Made
    BY <1>2, <2>1, SoundPlace DEF InOrderAt
  <2>3. m <= Len(Denotes(q))
    <3>1. Len(Denotes(q)) \in Nat
      BY <1>1, Kinds
    <3>2. n \in 1..Len(Denotes(q)) + 1 /\ (AtEnd(q, i) <=> n = Len(Denotes(q)) + 1)
      BY <1>2, <1>4, SoundPlace
    <3>3. m \in 1..Len(Denotes(q)) + 1 /\ (AtEnd(q, i) <=> m = Len(Denotes(q)) + 1)
      BY <1>2, <2>2, SoundPlace
    <3> QED BY <1>4, <3>1, <3>2, <3>3
  <2>4. PICK d : d = Dereferenced(q, i, mk)
    OBVIOUS
  <2>5. InOrderAt(q, d.it, d.made, p, m)
    BY <1>4, <2>1, <2>3, <2>4, ReadInOrder
  <2>6. Thrift(q, q, d.it, d.made, p)
    BY <2>5, ThriftHere DEF InOrder
  <2>7. d.made \in Made /\ IsPrefix(mk, d.made)
    BY <1>2, <2>2, <2>3, <2>4, SoundReads
  <2>8. ASSUME NEW j, NEW old \in Made, InOrderAt(q, j, old, p, m),
               NEW more \in Made, IsPrefix(old, more), Calls(q, more, p) = Calls(q, old, p),
               Stands(q, i, more, m), NEW t, t = Incremented(q, i, more)
        PROVE  Thrift(q, q, t.it, t.made, p)
    <3>1. PICK at \in [Calls(q, old, p) -> DOMAIN Denotes(q.of)] :
            /\ Ascends(q, old, p, at)
            /\ \A k \in Calls(q, old, p) : at[k] < m \/ (at[k] = m /\ j.current # 0)
      BY <2>8 DEF InOrderAt
    <3>2. \A k \in Calls(q, old, p) : more[k] = old[k]
      BY <2>8, CallsGrow
    <3>3. Ascends(q, more, p, at)
      BY <2>8, <3>1, <3>2 DEF Ascends
    <3>4. \A k \in Calls(q, more, p) : at[k] <= m
      <4>1. m \in Nat /\ DOMAIN Denotes(q.of) \subseteq Nat
        BY <1>1, <1>2, <2>2, Kinds, SoundPlace
      <4>2. \A k \in Calls(q, old, p) : at[k] \in Nat
        BY <4>1
      <4> QED BY <2>8, <3>1, <4>1, <4>2
    <3> QED BY <1>4, <2>3, <2>8, <3>1, <3>3, <3>4, StepInOrder
  <2>9. LET s == Incremented(q, i, mk) IN Thrift(q, q, s.it, s.made, p)
    BY <2>1, <2>2, <2>8, PrefixOrder
  <2>10. ASSUME NEW more \in Made, IsPrefix(d.made, more), Calls(q, more, p) = Calls(q, d.made, p)
         PROVE  LET t == Incremented(q, i, more) IN Thrift(q, q, t.it, t.made, p)
    <3>1. IsPrefix(mk, more)
      BY <2>2, <2>7, <2>10, PrefixOrder
    <3>2. Stands(q, i, more, m)
      BY <1>2, <2>2, <2>10, <3>1, SoundLasts
    <3> QED BY <2>5, <2>7, <2>8, <2>10, <3>2
  <2> QED BY <2>4, <2>6, <2>9, <2>10 DEF EconomicalAt
<1> QED BY <1>3, <1>4, Zenon DEF Economical

\* The bump of the iterator i of r makes no walk less thrifty.
Thrives(q, r, i, mk, p) == LET b == BumpedOf(r, i, mk) IN Thrift(q, r, b.it, b.made, p)

\* As BumpsAll, for a walk that is thrifty with q.
LEMMA ThrivesAll ==
  ASSUME NEW q, NEW p, NEW r \in Parts, r.kind \in {"filter", "flatten"}, Sound(r.of),
         \A i, mk, m, k :
           /\ ReadyAt(r, i, mk, m, k) /\ Thrift(q, r, i, mk, p)
           /\ \A j, more, l : ReadyAt(r, j, more, m + 1, l) /\ Thrift(q, r, j, more, p)
                => Thrives(q, r, j, more, p)
           => Thrives(q, r, i, mk, p)
  PROVE  \A i, mk, m, k : ReadyAt(r, i, mk, m, k) /\ Thrift(q, r, i, mk, p)
                             => Thrives(q, r, i, mk, p)
<1> DEFINE last == Len(Denotes(r.of)) + 1
           Bad(m) == \E i, mk, k : /\ ReadyAt(r, i, mk, m, k) /\ Thrift(q, r, i, mk, p)
                                   /\ ~Thrives(q, r, i, mk, p)
           S == {m \in 1..last : Bad(m)}
<1>1. ASSUME NEW m, Bad(m) PROVE m \in 1..last
  <2>1. PICK i, mk, k : ReadyAt(r, i, mk, m, k)
    BY <1>1
  <2>2. Stands(r.of, i.it, mk, m)
    BY <2>1 DEF ReadyAt
  <2> QED BY <2>2, SoundPlace
<1>2. ASSUME NEW m, Bad(m) PROVE Bad(m + 1)
  <2>1. PICK i, mk, k : /\ ReadyAt(r, i, mk, m, k) /\ Thrift(q, r, i, mk, p)
                        /\ ~Thrives(q, r, i, mk, p)
    BY <1>2
  <2> QED BY <2>1, Zenon
<1> HIDE DEF Bad
<1>3. S = {}
  <2>1. \A m \in S : m + 1 \in S
    BY <1>1, <1>2
  <2>2. S \subseteq 1..last
    OBVIOUS
  <2>3. last \in Int
    BY Kinds
  <2> HIDE DEF S, last
  <2> QED BY <2>1, <2>2, <2>3, NoneUpward
<1>4. ASSUME NEW m, Bad(m) PROVE FALSE
  BY <1>1, <1>3, <1>4
<1> QED BY <1>4, Zenon DEF Bad

LEMMA FilterThrives ==
  ASSUME Unfolded, NEW q \in Maps, NEW r \in Parts, r.kind = "filter", Sound(r.of),
         Economical(q, r.of), NEW p \in Nat
  PROVE  \A i, mk, m, k : ReadyAt(r, i, mk, m, k) /\ Thrift(q, r, i, mk, p)
                             => Thrives(q, r, i, mk, p)
<1>1. \A i, mk : Thrift(q, r, i, mk, p) <=> Thrift(q, r.of, i.it, mk, p)
  <2>1. r # q
    BY DEF Maps
  <2> QED BY <2>1, ThriftBelow
<1>2. ASSUME NEW i, NEW mk, NEW m, NEW k, ReadyAt(r, i, mk, m, k), Thrift(q, r, i, mk, p),
             \A j, more, l : ReadyAt(r, j, more, m + 1, l) /\ Thrift(q, r, j, more, p)
                => Thrives(q, r, j, more, p),
             NEW b, b = BumpedOf(r, i, mk)
      PROVE  Thrift(q, r, b.it, b.made, p)
  <2>1. Stands(r.of, i.it, mk, m) /\ Thrift(q, r.of, i.it, mk, p)
    BY <1>1, <1>2 DEF ReadyAt
  <2>2. PICK d : d = Dereferenced(r.of, i.it, mk)
    OBVIOUS
  <2>3. PICK s : s = Incremented(r.of, d.it, d.made)
    OBVIOUS
  <2>4. b = IF AtEnd(r.of, i.it) THEN [it |-> i, made |-> mk]
            ELSE IF d.val \in r.pred THEN [it |-> [it |-> d.it], made |-> d.made]
            ELSE BumpedOf(r, [it |-> s.it], s.made)
    BY <1>2, <2>2, <2>3, FilterBump
  <2>5. CASE AtEnd(r.of, i.it)
    <3>1. b.it = i /\ b.made = mk
      BY <2>4, <2>5
    <3> QED BY <1>2, <3>1
  <2>6. CASE ~AtEnd(r.of, i.it)
    <3>1. m <= Len(Denotes(r.of))
      BY <2>1, <2>6, SoundPlace, Kinds
    <3>2. Stands(r.of, d.it, d.made, m)
      BY <2>1, <2>2, <3>1, SoundReads
    <3>3. Thrift(q, r.of, d.it, d.made, p)
      <4>1. PICK u : u = Incremented(r.of, i.it, mk)
        OBVIOUS
      <4> QED BY <2>1, <2>2, <3>1, <4>1, EconomicalHere
    <3>4. CASE d.val \in r.pred
      <4>1. b.it.it = d.it /\ b.made = d.made
        BY <2>4, <2>6, <3>4
      <4> QED BY <1>1, <3>3, <4>1
    <3>5. CASE d.val \notin r.pred
      <4>1. PICK j : j = [it |-> s.it]
        OBVIOUS
      <4>2. b = BumpedOf(r, j, s.made) /\ j.it = s.it
        BY <2>4, <2>6, <3>5, <4>1
      <4>3. Thrift(q, r.of, s.it, s.made, p)
        <5>1. PICK e : e = Dereferenced(r.of, d.it, d.made)
          OBVIOUS
        <5> QED BY <2>3, <3>1, <3>2, <3>3, <5>1, EconomicalHere
      <4>4. Thrift(q, r, j, s.made, p)
        BY <1>1, <4>2, <4>3
      <4>5. Stands(r.of, s.it, s.made, m + 1)
        BY <2>3, <3>1, <3>2, SoundSteps
      <4>6. ReadyAt(r, j, s.made, m + 1, 1)
        BY <4>1, <4>2, <4>5 DEF ReadyAt
      <4>7. Thrives(q, r, j, s.made, p)
        BY <1>2, <4>4, <4>6, Zenon
      <4> QED BY <4>2, <4>7 DEF Thrives
    <3> QED BY <3>4, <3>5
  <2> QED BY <2>5, <2>6
<1>3. \A i, mk, m, k :
        /\ ReadyAt(r, i, mk, m, k) /\ Thrift(q, r, i, mk, p)
        /\ \A j, more, l : ReadyAt(r, j, more, m + 1, l) /\ Thrift(q, r, j, more, p)
             => Thrives(q, r, j, more, p)
        => Thrives(q, r, i, mk, p)
  BY <1>2, Zenon DEF Thrives
<1> QED BY <1>3, ThrivesAll, Zenon

\* A filter above q.
LEMMA FilterEconomical ==
  ASSUME Unfolded, NEW q \in Maps, NEW r \in Parts, r.kind = "filter", Sound(r.of),
         Economical(q, r.of)
  PROVE  Economical(q, r)
<1>1. \A i, mk, p : Thrift(q, r, i, mk, p) <=> Thrift(q, r.of, i.it, mk, p)
  <2>1. r # q
    BY DEF Maps
  <2> QED BY <2>1, ThriftBelow
<1>2. ASSUME NEW a, NEW mk, NEW m, Stands(r.of, a, mk, m), NEW p \in Nat,
             Thrift(q, r.of, a, mk, p), NEW b, b = BumpedOf(r, [it |-> a], mk)
      PROVE  Thrift(q, r, b.it, b.made, p)
  <2>1. PICK i : i = [it |-> a]
    OBVIOUS
  <2>2. ReadyAt(r, i, mk, m, 1) /\ i.it = a
    BY <1>2, <2>1 DEF ReadyAt
  <2>3. Thrift(q, r, i, mk, p)
    BY <1>1, <1>2, <2>2
  <2>4. Thrives(q, r, i, mk, p)
    BY <2>2, <2>3, FilterThrives, Zenon
  <2> QED BY <1>2, <2>1, <2>4 DEF Thrives
<1>3. ASSUME NEW mk \in Made, NEW b, b = BeginOf(r, mk)
      PROVE  Thrift(q, r, b.it, b.made, Len(mk))
  <2>1. PICK a : a = BeginOf(r.of, mk)
    OBVIOUS
  <2>2. b = BumpedOf(r, [it |-> a.it], a.made)
    BY <1>3, <2>1, FilterIs
  <2>3. Thrift(q, r.of, a.it, a.made, Len(mk))
    BY <2>1 DEF Economical
  <2>4. Stands(r.of, a.it, a.made, 1)
    BY <2>1, SoundOpens
  <2>5. Len(mk) \in Nat
    BY MadeLen
  <2> QED BY <1>2, <2>2, <2>3, <2>4, <2>5
<1>4. ASSUME NEW i, NEW mk, NEW n, NEW p \in Nat,
             Stands(r, i, mk, n), n <= Len(Denotes(r)), Thrift(q, r, i, mk, p)
      PROVE  EconomicalAt(q, r, i, mk, n, p)
  <2>1. PICK m \in 1..Len(Denotes(r.of)) + 1 :
          Stands(r.of, i.it, mk, m) /\ m <= Len(Denotes(r.of))
    BY <1>4, FilterStandsAt
  <2>2. mk \in Made /\ Thrift(q, r.of, i.it, mk, p)
    BY <1>1, <1>4, <2>1, SoundPlace
  <2>3. PICK d : d = Dereferenced(r, i, mk)
    OBVIOUS
  <2>4. PICK inner : inner = Dereferenced(r.of, i.it, mk)
    OBVIOUS
  <2>5. PICK s : s = Incremented(r.of, i.it, mk)
    OBVIOUS
  <2>6. d.it.it = inner.it /\ d.made = inner.made
    BY <2>3, <2>4, FilterIs
  <2>7. /\ Thrift(q, r.of, inner.it, inner.made, p) /\ Thrift(q, r.of, s.it, s.made, p)
        /\ \A more \in Made :
             IsPrefix(inner.made, more) /\ Calls(q, more, p) = Calls(q, inner.made, p) =>
               LET t == Incremented(r.of, i.it, more) IN Thrift(q, r.of, t.it, t.made, p)
    BY <2>1, <2>2, <2>4, <2>5, EconomicalHere
  <2>8. ASSUME NEW more, Stands(r.of, i.it, more, m), NEW u, u = Incremented(r.of, i.it, more),
               Thrift(q, r.of, u.it, u.made, p), NEW t, t = Incremented(r, i, more)
        PROVE  Thrift(q, r, t.it, t.made, p)
    <3>1. t = BumpedOf(r, [it |-> u.it], u.made)
      BY <2>8, FilterIs
    <3>2. Stands(r.of, u.it, u.made, m + 1)
      BY <2>1, <2>8, SoundSteps
    <3> QED BY <1>2, <2>8, <3>1, <3>2
  <2>9. Thrift(q, r, d.it, d.made, p)
    BY <1>1, <2>6, <2>7
  <2>10. LET t == Incremented(r, i, mk) IN Thrift(q, r, t.it, t.made, p)
    BY <2>1, <2>5, <2>7, <2>8
  <2>11. ASSUME NEW more \in Made, IsPrefix(d.made, more), Calls(q, more, p) = Calls(q, d.made, p)
         PROVE  LET t == Incremented(r, i, more) IN Thrift(q, r, t.it, t.made, p)
    <3>1. IsPrefix(inner.made, more) /\ Calls(q, more, p) = Calls(q, inner.made, p)
      BY <2>6, <2>11
    <3>2. PICK u : u = Incremented(r.of, i.it, more)
      OBVIOUS
    <3>3. Thrift(q, r.of, u.it, u.made, p)
      BY <2>7, <3>1, <3>2
    <3>4. inner.made \in Made /\ IsPrefix(mk, inner.made)
      BY <2>1, <2>4, SoundReads
    <3>5. IsPrefix(mk, more)
      BY <2>2, <3>1, <3>4, PrefixOrder
    <3>6. Stands(r.of, i.it, more, m)
      BY <2>1, <3>5, SoundLasts
    <3> QED BY <2>8, <3>2, <3>3, <3>6
  <2> QED BY <2>3, <2>9, <2>10, <2>11 DEF EconomicalAt
<1> QED BY <1>3, <1>4, Zenon DEF Economical

LEMMA EnteredThrift ==
  ASSUME NEW q \in Maps, NEW r \in Parts, r.kind = "flatten", Sound(r.of), Economical(q, r.of),
         NEW p \in Nat, NEW i, NEW mk, NEW m, Stands(r.of, i.it, mk, m),
         Thrift(q, r.of, i.it, mk, p), NEW e, e = Entered(r, i, mk)
  PROVE  Thrift(q, r.of, e.it.it, e.made, p)
<1>1. CASE AtEnd(r.of, i.it)
  <2>1. e.it = i /\ e.made = mk
    BY <1>1 DEF Entered
  <2> QED BY <2>1
<1>2. CASE ~AtEnd(r.of, i.it)
  <2>1. PICK d : d = Dereferenced(r.of, i.it, mk)
    OBVIOUS
  <2>2. PICK s : s = Incremented(r.of, i.it, mk)
    OBVIOUS
  <2>3. e = [it |-> [it |-> d.it, sub |-> <<d.val, 1>>], made |-> d.made]
    BY <1>2, <2>1 DEF Entered
  <2>4. e.it.it = d.it /\ e.made = d.made
    BY <2>3
  <2>5. m <= Len(Denotes(r.of))
    BY <1>2, SoundPlace, Kinds
  <2>6. Thrift(q, r.of, d.it, d.made, p)
    BY <2>1, <2>2, <2>5, EconomicalHere
  <2> QED BY <2>4, <2>6
<1> QED BY <1>1, <1>2

LEMMA FlattenThrives ==
  ASSUME Unfolded, NEW q \in Maps, NEW r \in Parts, r.kind = "flatten", Sound(r.of),
         Economical(q, r.of), NEW p \in Nat
  PROVE  \A i, mk, m, k : ReadyAt(r, i, mk, m, k) /\ Thrift(q, r, i, mk, p)
                             => Thrives(q, r, i, mk, p)
<1>1. \A i, mk : Thrift(q, r, i, mk, p) <=> Thrift(q, r.of, i.it, mk, p)
  <2>1. r # q
    BY DEF Maps
  <2> QED BY <2>1, ThriftBelow
<1>2. ASSUME NEW i, NEW mk, NEW m, NEW k, ReadyAt(r, i, mk, m, k), Thrift(q, r, i, mk, p),
             \A j, more, l : ReadyAt(r, j, more, m + 1, l) /\ Thrift(q, r, j, more, p)
                => Thrives(q, r, j, more, p),
             NEW b, b = BumpedOf(r, i, mk)
      PROVE  Thrift(q, r, b.it, b.made, p)
  <2>1. Stands(r.of, i.it, mk, m) /\ Thrift(q, r.of, i.it, mk, p)
    BY <1>1, <1>2 DEF ReadyAt
  <2>2. PICK d : d = Dereferenced(r.of, i.it, mk)
    OBVIOUS
  <2>3. PICK s : s = Incremented(r.of, d.it, d.made)
    OBVIOUS
  <2>4. b = IF AtEnd(r.of, i.it) THEN [it |-> i, made |-> mk]
            ELSE IF Exhausted(i, d)
                 THEN Beyond(r, [it |-> [it |-> s.it, sub |-> i.sub], made |-> s.made])
            ELSE [it |-> [it |-> d.it, sub |-> i.sub], made |-> d.made]
    BY <1>2, <2>2, <2>3, FlattenBump
  <2>5. CASE AtEnd(r.of, i.it)
    <3>1. b.it = i /\ b.made = mk
      BY <2>4, <2>5
    <3> QED BY <1>2, <3>1
  <2>6. CASE ~AtEnd(r.of, i.it)
    <3>1. m <= Len(Denotes(r.of))
      BY <2>1, <2>6, SoundPlace, Kinds
    <3>2. Stands(r.of, d.it, d.made, m)
      BY <2>1, <2>2, <3>1, SoundReads
    <3>3. Thrift(q, r.of, d.it, d.made, p)
      <4>1. PICK u : u = Incremented(r.of, i.it, mk)
        OBVIOUS
      <4> QED BY <2>1, <2>2, <3>1, <4>1, EconomicalHere
    <3>4. CASE ~Exhausted(i, d)
      <4>1. b.it.it = d.it /\ b.made = d.made
        BY <2>4, <2>6, <3>4
      <4> QED BY <1>1, <3>3, <4>1
    <3>5. CASE Exhausted(i, d)
      <4>1. PICK a : a = [it |-> s.it, sub |-> i.sub]
        OBVIOUS
      <4>2. PICK e : e = Entered(r, a, s.made)
        OBVIOUS
      <4>3. b = BumpedOf(r, e.it, e.made)
        <5>1. b = Beyond(r, [it |-> a, made |-> s.made])
          BY <2>4, <2>6, <3>5, <4>1
        <5> QED BY <4>2, <5>1 DEF Beyond
      <4>4. Thrift(q, r.of, s.it, s.made, p)
        <5>1. PICK f : f = Dereferenced(r.of, d.it, d.made)
          OBVIOUS
        <5> QED BY <2>3, <3>1, <3>2, <3>3, <5>1, EconomicalHere
      <4>5. Stands(r.of, s.it, s.made, m + 1) /\ a.it = s.it
        BY <2>3, <3>1, <3>2, <4>1, SoundSteps
      <4>6. PICK next : next = m + 1
        OBVIOUS
      <4>7. Stands(r.of, a.it, s.made, next) /\ Thrift(q, r.of, a.it, s.made, p)
        BY <4>4, <4>5, <4>6
      <4>8. ReadyAt(r, e.it, e.made, next, 1)
        BY <4>2, <4>7, EnteredReady
      <4>9. Thrift(q, r, e.it, e.made, p)
        <5>1. Thrift(q, r.of, e.it.it, e.made, p)
          BY <4>2, <4>7, EnteredThrift
        <5> QED BY <1>1, <5>1
      <4>10. Thrives(q, r, e.it, e.made, p)
        BY <1>2, <4>6, <4>8, <4>9, Zenon
      <4> QED BY <4>3, <4>10 DEF Thrives
    <3> QED BY <3>4, <3>5
  <2> QED BY <2>5, <2>6
<1>3. \A i, mk, m, k :
        /\ ReadyAt(r, i, mk, m, k) /\ Thrift(q, r, i, mk, p)
        /\ \A j, more, l : ReadyAt(r, j, more, m + 1, l) /\ Thrift(q, r, j, more, p)
             => Thrives(q, r, j, more, p)
        => Thrives(q, r, i, mk, p)
  BY <1>2, Zenon DEF Thrives
<1> QED BY <1>3, ThrivesAll, Zenon

\* A Flatten iterator that is incremented is ready for the next element.
LEMMA FlattenNext ==
  ASSUME Unfolded, NEW r \in Parts, r.kind = "flatten", Sound(r.of), NEW i, NEW mk, NEW n,
         Stands(r, i, mk, n), n <= Len(Denotes(r)), NEW b, b = Incremented(r, i, mk)
  PROVE  \E j, m, k : ReadyAt(r, j, mk, m, k) /\ j.it = i.it /\ b = BumpedOf(r, j, mk)
<1>1. PICK m \in 1..Len(Denotes(r.of)) + 1 :
        Stands(r.of, i.it, mk, m) /\ \E k : Inside(r, i, mk, n, m, k)
  BY FlattenStandsAt
<1>2. PICK k : Inside(r, i, mk, n, m, k)
  BY <1>1
<1>3. PICK d : d = Dereferenced(r.of, i.it, mk)
  OBVIOUS
<1>4. PICK j : j = [i EXCEPT !.sub = <<i.sub[1], i.sub[2] + 1>>]
  OBVIOUS
<1>5. b = BumpedOf(r, j, mk)
  <2>1. Incremented(r, i, mk) = BumpedOf(r, [i EXCEPT !.sub = <<i.sub[1], i.sub[2] + 1>>], mk)
    BY FlattenIncrement, Zenon
  <2> QED BY <1>4, <2>1, Zenon
<1>6. mk \in Made
  BY FlattenStandsAt
<1>7. i = [it |-> d.it, sub |-> <<d.val, k>>] /\ i.it = d.it /\ d.made = mk
  BY <1>1, <1>2, <1>3, <1>6, FlattenReads
<1>8. j = [it |-> d.it, sub |-> <<d.val, k + 1>>] /\ j.it = d.it
  BY <1>4, <1>7
<1>9. Enters(r, j, mk, k + 1)
  BY <1>3, <1>7, <1>8 DEF Enters
<1>10. k \in 1..Len(Held(r, m)) /\ m \in DOMAIN Denotes(r.of)
  BY <1>2 DEF Inside
<1>11. k + 1 \in 1..Len(Held(r, m)) + 1
  <2>1. Len(Held(r, m)) \in Nat
    BY <1>10, HeldSeq
  <2> QED BY <1>10, <2>1
<1>12. ReadyAt(r, j, mk, m, k + 1)
  BY <1>1, <1>7, <1>8, <1>9, <1>10, <1>11 DEF ReadyAt
<1> QED BY <1>5, <1>7, <1>8, <1>12

\* A flatten above q.
LEMMA FlattenEconomical ==
  ASSUME Unfolded, NEW q \in Maps, NEW r \in Parts, r.kind = "flatten", Sound(r), Sound(r.of),
         Economical(q, r.of)
  PROVE  Economical(q, r)
<1>1. \A i, mk, p : Thrift(q, r, i, mk, p) <=> Thrift(q, r.of, i.it, mk, p)
  <2>1. r # q
    BY DEF Maps
  <2> QED BY <2>1, ThriftBelow
<1>2. ASSUME NEW i, NEW mk, NEW m, NEW k, ReadyAt(r, i, mk, m, k), NEW p \in Nat,
             Thrift(q, r.of, i.it, mk, p), NEW b, b = BumpedOf(r, i, mk)
      PROVE  Thrift(q, r, b.it, b.made, p)
  <2>1. Thrift(q, r, i, mk, p)
    BY <1>1, <1>2
  <2>2. Thrives(q, r, i, mk, p)
    BY <1>2, <2>1, FlattenThrives, Zenon
  <2> QED BY <1>2, <2>2 DEF Thrives
<1>3. ASSUME NEW mk \in Made, NEW b, b = BeginOf(r, mk)
      PROVE  Thrift(q, r, b.it, b.made, Len(mk))
  <2>1. PICK a : a = BeginOf(r.of, mk)
    OBVIOUS
  <2>2. PICK j : j = [it |-> a.it, sub |-> Unset]
    OBVIOUS
  <2>3. PICK e : e = Entered(r, j, a.made)
    OBVIOUS
  <2>4. b = BumpedOf(r, e.it, e.made)
    BY <1>3, <2>1, <2>2, <2>3, FlattenIs
  <2>5. Thrift(q, r.of, a.it, a.made, Len(mk))
    BY <2>1 DEF Economical
  <2>6. Stands(r.of, a.it, a.made, 1) /\ j.it = a.it /\ Len(mk) \in Nat
    BY <2>1, <2>2, SoundOpens, MadeLen
  <2>7. Stands(r.of, j.it, a.made, 1) /\ Thrift(q, r.of, j.it, a.made, Len(mk))
    BY <2>5, <2>6
  <2>8. ReadyAt(r, e.it, e.made, 1, 1)
    BY <2>3, <2>7, EnteredReady
  <2>9. Thrift(q, r.of, e.it.it, e.made, Len(mk))
    BY <2>3, <2>6, <2>7, EnteredThrift
  <2> QED BY <1>2, <2>4, <2>6, <2>8, <2>9
<1>4. ASSUME NEW i, NEW mk, NEW n, NEW p \in Nat,
             Stands(r, i, mk, n), n <= Len(Denotes(r)), Thrift(q, r, i, mk, p),
             NEW t, t = Incremented(r, i, mk)
      PROVE  Thrift(q, r, t.it, t.made, p)
  <2>1. PICK j, m, k : ReadyAt(r, j, mk, m, k) /\ j.it = i.it /\ t = BumpedOf(r, j, mk)
    BY <1>4, FlattenNext
  <2>2. Thrift(q, r.of, j.it, mk, p)
    BY <1>1, <1>4, <2>1
  <2> QED BY <1>2, <1>4, <2>1, <2>2
<1>5. ASSUME NEW i, NEW mk, NEW n, NEW p \in Nat,
             Stands(r, i, mk, n), n <= Len(Denotes(r)), Thrift(q, r, i, mk, p)
      PROVE  EconomicalAt(q, r, i, mk, n, p)
  <2>1. PICK d : d = Dereferenced(r, i, mk)
    OBVIOUS
  <2>2. d.it = i /\ d.made = mk
    BY <2>1, FlattenIs
  <2>3. mk \in Made
    BY <1>5, SoundPlace
  <2>4. ASSUME NEW more \in Made, IsPrefix(mk, more), Calls(q, more, p) = Calls(q, mk, p)
        PROVE  LET t == Incremented(r, i, more) IN Thrift(q, r, t.it, t.made, p)
    <3>1. Stands(r, i, more, n)
      BY <1>5, <2>4, SoundLasts
    <3>2. Thrift(q, r, i, more, p)
      BY <1>5, <2>3, <2>4, ThriftLasts
    <3> QED BY <1>4, <1>5, <3>1, <3>2
  <2>5. LET t == Incremented(r, i, mk) IN Thrift(q, r, t.it, t.made, p)
    BY <1>4, <1>5
  <2>6. Thrift(q, r, d.it, d.made, p)
    BY <1>5, <2>2
  <2> QED BY <2>1, <2>2, <2>4, <2>5, <2>6 DEF EconomicalAt
<1> QED BY <1>3, <1>5, Zenon DEF Economical

LEMMA AllEconomical ==
  ASSUME Unfolded, NEW q \in Maps PROVE \A r \in Parts : Economical(q, r)
<1> DEFINE S == {h \in Nat : \E r \in Parts : Height(r) = h /\ r.kind # "range" /\ ~Economical(q, r)}
<1>1. \A r \in Parts : r.kind = "range" => Economical(q, r)
  BY RangeEconomical
<1>2. ASSUME S # {} PROVE FALSE
  <2>1. PICK h \in S : \A y \in S : h <= y
    BY <1>2, MinLeast
  <2>2. PICK r \in Parts : Height(r) = h /\ r.kind # "range" /\ ~Economical(q, r)
    BY <2>1
  <2>3. /\ r.of \in Parts /\ Height(r.of) \in Nat /\ Height(r.of) < h /\ h \in Nat
        /\ r.kind \in {"map", "filter", "flatten"}
    BY <2>2, BelowIs
  <2>4. Height(r.of) \notin S
    BY <2>1, <2>3
  <2>5. Economical(q, r.of)
    BY <1>1, <2>3, <2>4
  <2>6. Sound(r) /\ Sound(r.of)
    BY <2>3, AllSound
  <2>7. CASE r = q
    BY <2>2, <2>5, <2>7, MapEconomicalHere
  <2>8. CASE r.kind = "map" /\ r # q
    BY <2>2, <2>5, <2>6, <2>8, MapEconomical
  <2>9. CASE r.kind = "filter"
    BY <2>2, <2>5, <2>6, <2>9, FilterEconomical
  <2>10. CASE r.kind = "flatten"
    BY <2>2, <2>5, <2>6, <2>10, FlattenEconomical
  <2> QED BY <2>3, <2>7, <2>8, <2>9, <2>10
<1>3. ASSUME NEW r \in Parts, r.kind # "range" PROVE Economical(q, r)
  <2>1. Height(r) \in Nat
    BY <1>3, BelowIs
  <2> QED BY <1>2, <1>3, <2>1
<1> QED BY <1>1, <1>3

-----------------------------------------------------------------------------
(* The walk of a query. *)

\* What has been made since the walk began is what it has got.
Thrifting == \A q \in Maps : Thrift(q, range, it, made, pass)

PassIInv ==
  /\ pass \in Nat
  /\ IsSplit => made = <<>>
  /\ ~IsSplit /\ Walking /\ query.op \notin Extrema => Thrifting

LEMMA RangeIsPart == ASSUME Placed, ~IsSplit PROVE range \in Parts
BY PipelinesAssumption DEF Placed, IsSplit

\* A round is thrifty, whether it reads a copy, its own iterator or nothing.
LEMMA RoundThrifty ==
  ASSUME Unfolded, Placed, ~IsSplit, Walking, ~AtEnd(range, it), pass \in Nat, Thrifting,
         \/ AdvanceFrom(it, made) \/ AdvanceFrom(Here.it, Here.made)
         \/ AdvanceFrom(it, Here.made)
  PROVE  Thrifting'
<1>1. range \in Parts /\ Sound(range)
  BY RangeIsPart, AllSound
<1>2. PICK n : n = pos + 1
  OBVIOUS
<1>3. Stands(range, it, made, n)
  BY <1>2, Zenon DEF Placed
<1>4. n <= Len(Denotes(range))
  BY <1>1, <1>3, SoundPlace, Kinds
<1>5. PICK d : d = Here
  OBVIOUS
<1>6. d = Dereferenced(range, it, made)
  BY <1>5 DEF Here
<1>7. Stands(range, d.it, d.made, n) /\ d.made \in Made
  BY <1>1, <1>3, <1>4, <1>6, SoundReads
<1>8. range' = range /\ pass' = pass
  BY DEF AdvanceFrom
<1>9. SUFFICES ASSUME NEW q \in Maps PROVE Thrift(q, range, it', made', pass)
  BY <1>8, Zenon DEF Thrifting, Maps
<1>10. Economical(q, range) /\ Thrift(q, range, it, made, pass)
  BY <1>1, AllEconomical DEF Thrifting
<1>11. PICK s : s = Incremented(range, it, made)
  OBVIOUS
<1>12. /\ Thrift(q, range, d.it, d.made, pass) /\ Thrift(q, range, s.it, s.made, pass)
       /\ \A more \in Made : IsPrefix(d.made, more) /\ Calls(q, more, pass) = Calls(q, d.made, pass) =>
            LET t == Incremented(range, it, more) IN Thrift(q, range, t.it, t.made, pass)
  BY <1>3, <1>4, <1>6, <1>10, <1>11, EconomicalHere
<1>13. CASE AdvanceFrom(it, made)
  <2>1. it' = s.it /\ made' = s.made
    BY <1>11, <1>13 DEF AdvanceFrom
  <2> QED BY <1>12, <2>1
<1>14. CASE AdvanceFrom(Here.it, Here.made)
  <2>1. PICK e : e = Dereferenced(range, d.it, d.made)
    OBVIOUS
  <2>2. PICK t : t = Incremented(range, d.it, d.made)
    OBVIOUS
  <2>3. it' = t.it /\ made' = t.made
    BY <1>5, <1>14, <2>2 DEF AdvanceFrom
  <2>4. Thrift(q, range, t.it, t.made, pass)
    BY <1>4, <1>7, <1>10, <1>12, <2>1, <2>2, EconomicalHere
  <2> QED BY <2>3, <2>4
<1>15. CASE AdvanceFrom(it, Here.made)
  <2>1. PICK t : t = Incremented(range, it, d.made)
    OBVIOUS
  <2>2. it' = t.it /\ made' = t.made
    BY <1>5, <1>15, <2>1 DEF AdvanceFrom
  <2>3. IsPrefix(d.made, d.made)
    BY <1>7, PrefixOrder
  <2>4. Thrift(q, range, t.it, t.made, pass)
    BY <1>7, <1>12, <2>1, <2>3
  <2> QED BY <2>2, <2>4
<1> QED BY <1>13, <1>14, <1>15

\* A walk that begins anew is.
LEMMA BeginThrifty ==
  ASSUME Unfolded, Placed, ~IsSplit, NEW mk \in Made, NEW b, b = BeginOf(range, mk),
         NEW e, NEW next, Walk(b.it, b.made, mk, e, next)
  PROVE  Thrifting' /\ pass' \in Nat
<1>1. it' = b.it /\ made' = b.made /\ pass' = Len(mk) /\ range' = range
  BY DEF Walk
<1>2. range \in Parts
  BY RangeIsPart
<1>3. ASSUME NEW q \in Maps PROVE Thrift(q, range, b.it, b.made, Len(mk))
  <2>1. Economical(q, range)
    BY <1>2, AllEconomical
  <2> QED BY <2>1 DEF Economical
<1>4. Len(mk) \in Nat
  BY MadeLen
<1> QED BY <1>1, <1>3, <1>4 DEF Thrifting, Maps

\* A walk that ends, and may begin again.
LEMMA EndsThrifty ==
  ASSUME Unfolded, Lawful, Placed, Kept, ~IsSplit, Walking, PassIInv, NEW hit, NEW i,
         NEW mk \in Made, IsPrefix(made, mk), Ends(hit, i, mk)
  PROVE  pass' \in Nat /\ (Walking' => Thrifting')
<1>1. CASE query.op = "findBefore" /\ phase = "walk"
  <2>1. PICK b : b = BeginOf(range, mk) /\ Walk(b.it, b.made, mk, Bound(hit, i), "again")
    BY <1>1, Zenon DEF Ends
  <2> QED BY <2>1, BeginThrifty
<1>2. CASE query.op \in Measured /\ phase = "walk"
  <2>1. Walk(saved, mk, mk, stop, "again")
    BY <1>2 DEF Ends, Measured
  <2>2. it' = saved /\ made' = mk /\ pass' = Len(mk) /\ range' = range
    BY <2>1 DEF Walk
  <2>3. range \in Pipelines /\ range.kind # "split" /\ Stands(range, saved, made, 1)
    BY <1>2 DEF Kept, Placed, IsSplit
  <2>4. Stands(range, saved, mk, 1)
    BY <2>3, StandsOn
  <2>5. range \in Parts /\ Len(mk) \in Nat
    BY RangeIsPart, MadeLen
  <2>6. \A q \in Maps : Thrift(q, range, saved, mk, Len(mk))
    BY <2>4, <2>5, ThriftAnew
  <2> QED BY <2>2, <2>5, <2>6 DEF Thrifting, Maps
<1>3. CASE Answer(hit, i, mk)
  BY <1>3 DEF Answer, Walking, PassIInv
<1> QED BY <1>1, <1>2, <1>3 DEF Ends

LEMMA PassIInvInit == ASSUME Init PROVE PassIInv
BY DEF Init, PassIInv, Walking

LEMMA PassIInvStep ==
  ASSUME Unfolded, Lawful, Placed, Kept, PassIInv, [Next]_vars, ~IsSplit
  PROVE  PassIInv'
<1>1. UNCHANGED <<range, query>>
  BY SameQuery
<1>2. made \in Made /\ pass \in Nat /\ ~IsSplit' /\ IsPrefix(made, made)
  BY <1>1, PrefixOrder DEF Placed, PassIInv, IsSplit
<1>3. CASE UNCHANGED vars
  <2>1. UNCHANGED <<range, query, phase, it, made, pass>>
    BY <1>3 DEF vars
  <2> QED BY <1>2, <2>1 DEF PassIInv, Walking, Thrifting, Maps
<1>4. CASE Start
  <2>1. PICK b : b = BeginOf(range, made) /\ Walk(b.it, b.made, made, EndOf(range), "walk")
    BY <1>4, Zenon DEF Start
  <2> QED BY <1>2, <2>1, BeginThrifty DEF PassIInv
<1>5. CASE Copy \/ Count \/ Fold \/ Group \/ Miss
  <2>1. Walking /\ ~AtEnd(range, it)
    BY <1>5 DEF Copy, Count, Fold, Group, Miss, Reading
  <2>2. query.op \notin Extrema
    BY <1>5 DEF Copy, Count, Fold, Group, Miss, Reading, Seeking, Quantifiers, Measured, Extrema
  <2>3. \/ AdvanceFrom(it, made) \/ AdvanceFrom(Here.it, Here.made)
        \/ AdvanceFrom(it, Here.made)
    BY <1>5 DEF Copy, Count, Fold, Group, Miss
  <2>4. Thrifting
    BY <2>1, <2>2 DEF PassIInv
  <2>5. Thrifting'
    BY <1>2, <2>1, <2>3, <2>4, RoundThrifty
  <2>6. pass' = pass
    BY <2>3 DEF AdvanceFrom
  <2> QED BY <1>2, <2>5, <2>6 DEF PassIInv
<1>6. CASE Hit
  <2>1. Reading(Seeking) /\ \E i \in {it, Here.it} : Ends(TRUE, i, Here.made)
    BY <1>6 DEF Hit
  <2>2. Walking /\ Here.made \in Made /\ IsPrefix(made, Here.made)
    BY <2>1, ReadsHere
  <2>3. pass' \in Nat /\ (Walking' => Thrifting')
    BY <2>1, <2>2, EndsThrifty
  <2> QED BY <1>2, <2>3 DEF PassIInv
<1>7. CASE Finish
  <2>1. Walking /\ Ends(FALSE, it, made)
    BY <1>7 DEF Finish
  <2>2. pass' \in Nat /\ (Walking' => Thrifting')
    BY <1>2, <2>1, EndsThrifty
  <2> QED BY <1>2, <2>2 DEF PassIInv
<1>8. CASE Seize \/ Compete
  <2>1. query.op \in Extrema /\ pass' = pass
    BY <1>8 DEF Seize, Compete, Reading, AdvanceFrom
  <2> QED BY <1>1, <1>2, <2>1 DEF PassIInv
<1>9. CASE Singleton \/ Extremum \/ Name \/ Crash
  <2>1. phase' \in {"done", "crashed"} /\ pass' = pass
    BY <1>9 DEF Singleton, Extremum, Name, Crash, Answer
  <2> QED BY <1>2, <2>1 DEF PassIInv, Walking
<1> QED BY <1>3, <1>4, <1>5, <1>6, <1>7, <1>8, <1>9 DEF Next

\* A splitter has no functions.
LEMMA SplitMakesNone ==
  ASSUME Unfolds(range), Placed, IsSplit, PassIInv, [Next]_vars
  PROVE  PassIInv'
<1>1. UNCHANGED <<range, query>>
  BY SameQuery
<1>2. made = <<>> /\ pass \in Nat /\ query.op \in {"each", "name"} /\ IsSplit'
  BY <1>1, SplitAsks DEF PassIInv, IsSplit
<1>3. \A i : Incremented(range, i, made).made = made
  BY SplitIs
<1>4. Here.made = made /\ BeginOf(range, made).made = made
  BY SplitIs DEF Here
<1>5. SUFFICES made' = made /\ pass' \in Nat
  BY <1>2 DEF PassIInv
<1>6. CASE UNCHANGED vars \/ Crash \/ Name
  BY <1>2, <1>6 DEF vars, Crash, Name
<1>7. CASE Start
  <2>1. made' = BeginOf(range, made).made /\ pass' = Len(made)
    BY <1>7 DEF Start, Walk
  <2> QED BY <1>2, <1>4, <2>1
<1>8. CASE Copy
  <2>1. AdvanceFrom(Here.it, made)
    BY <1>4, <1>8 DEF Copy
  <2> QED BY <1>2, <1>3, <2>1 DEF AdvanceFrom
<1>9. CASE Finish
  BY <1>2, <1>9 DEF Finish, Ends, Measured, Answer
<1>10. CASE Count \/ Fold \/ Group \/ Miss \/ Hit \/ Singleton \/ Seize \/ Compete \/ Extremum
  BY <1>2, <1>10 DEF Count, Fold, Group, Miss, Hit, Singleton, Seize, Compete, Extremum, Reading,
                     Measured, Seeking, Quantifiers, Extrema
<1> QED BY <1>6, <1>7, <1>8, <1>9, <1>10 DEF Next

LEMMA PassImplied == ASSUME Placed, PassIInv PROVE MappedOncePerPass
<1>1. SUFFICES ASSUME Walking, query.op \notin Extrema, NEW k \in pass + 1 .. Len(made),
                      NEW m, m = made[k].map
               PROVE  \E at \in [Calls(m, made, pass) -> DOMAIN Denotes(m.of)] :
                        Ascends(m, made, pass, at)
  BY DEF MappedOncePerPass
<1>2. ~IsSplit
  BY <1>1 DEF PassIInv
<1>3. range \in Parts /\ made \in Made /\ Thrifting /\ pass \in Nat
  BY <1>1, <1>2, RangeIsPart DEF Placed, PassIInv
<1>4. m \in Maps
  <2>1. Len(made) \in Nat /\ DOMAIN made = 1..Len(made) /\ made \in Seq(Results)
    BY <1>3, MadeLen DEF Made
  <2>2. k \in 1..Len(made)
    BY <1>3, <2>1
  <2>3. made[k] \in Results
    BY <2>1, <2>2
  <2> QED BY <1>1, <2>3 DEF Results
<1>5. Thrift(m, range, it, made, pass)
  BY <1>3, <1>4 DEF Thrifting
<1> QED BY <1>3, <1>4, <1>5, ThriftOrders

\* A walk asks a mapped function about each element at most once, and in order,
\* whatever is built above it (query.hpp:293-298, 657).
THEOREM MappedOnce ==
  ASSUME Unfolded, \A r \in Pipelines : Unfolds(r) PROVE Spec => []MappedOncePerPass
<1>1. Lawful
  BY RangesAreLawful
<1>2. Spec => []QueryIInv
  BY <1>1, QueryIInvHolds
<1>3. Init => PassIInv
  BY PassIInvInit
<1>4. QueryIInv /\ PassIInv /\ [Next]_vars => PassIInv'
  <2>1. QueryIInv => Placed /\ Kept /\ (IsSplit => Unfolds(range))
    BY DEF QueryIInv, Placed
  <2> QED BY <1>1, <2>1, PassIInvStep, SplitMakesNone
<1>5. QueryIInv /\ PassIInv => MappedOncePerPass
  BY PassImplied DEF QueryIInv
<1> QED BY <1>2, <1>3, <1>4, <1>5, PTL DEF Spec
=============================================================================
