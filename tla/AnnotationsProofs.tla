------------------------- MODULE AnnotationsProofs -------------------------
(***************************************************************************)
(* Proofs about Annotations.  NestedIInv is inductive: it says which of    *)
(* the two coroutines lives, where each is suspended while the other or    *)
(* the client runs, and what the client has read by then.  So is WalkIInv, *)
(* which adds what texts are parsed into, and that nothing that the client *)
(* selects is passed over.                                                 *)
(***************************************************************************)
EXTENDS Annotations, TLAPS, SequenceTheorems, WellFoundedInduction

-----------------------------------------------------------------------------
(* What Generator's operations do to the coroutine of a loop. *)

\* The two loops: who owns the generator, and its coroutine.
LoopPairs == {<<"client", "in_namespace">>, <<"nested", "enumerate">>}

\* What the steps on generators keep.
LoopsInv == TypeOK /\ Nested /\ NeverCrashes

\* Only frame changes, and is suspended in st then.
GoesTo(frame, st) == state' = [state EXCEPT ![frame] = st]

LEMMA CallLoops ==
  ASSUME LoopsInv, NEW owner, NEW frame, <<owner, frame>> \in LoopPairs, Call(owner, frame)
  PROVE  /\ LoopNext /\ LoopsInv'
         /\ GoesTo(frame, "start") /\ UNCHANGED <<raised, yields>>
<1>1. LoopNext
  BY Zenon DEF LoopsInv, NeverCrashes, LoopNext, Owning, LoopPairs
<1>2. GoesTo(frame, "start") /\ UNCHANGED <<raised, yields>>
  BY SMT DEF Call, Rehold, GoesTo, LoopPairs
<1>3. LoopsInv'
  BY SMT DEF LoopsInv, TypeOK, Nested, Loops, NeverCrashes, Call, Rehold, Live, LoopPairs
<1> QED BY <1>1, <1>2, <1>3

LEMMA DestroyLoops ==
  ASSUME LoopsInv, NEW owner, NEW frame, <<owner, frame>> \in LoopPairs, Destroy(owner)
  PROVE  /\ LoopNext /\ LoopsInv'
         /\ state[frame] \in Live
         /\ GoesTo(frame, "freed") /\ UNCHANGED <<raised, yields>>
<1>1. LoopNext
  BY Zenon DEF LoopsInv, NeverCrashes, LoopNext, Owning, LoopPairs
<1>2. state[frame] \in Live /\ held[owner] = frame
  BY SMT DEF LoopsInv, Nested, Loops, Destroy, LoopPairs, Live
<1>3. GoesTo(frame, "freed") /\ UNCHANGED <<raised, yields>>
  BY <1>2, SMT DEF Destroy, Rehold, GoesTo, LoopPairs
<1>4. LoopsInv'
  BY <1>2, <1>3, SMT DEF LoopsInv, TypeOK, Nested, Loops, NeverCrashes, Destroy, Rehold, Live, LoopPairs, GoesTo
<1> QED BY <1>1, <1>2, <1>3, <1>4

LEMMA ReadLoops ==
  ASSUME LoopsInv, Read("client"), state["in_namespace"] = "yielded"
  PROVE  LoopNext /\ LoopsInv' /\ UNCHANGED <<state, raised, yields>>
<1>1. at["client"] = "in_namespace" /\ yields["in_namespace"] > 0
  BY DEF LoopsInv, Nested, Loops
<1>2. Unchanged
  BY <1>1 DEF Read, CanResume
<1>3. Usable("client") /\ NotAtEnd("client")
  BY <1>1 DEF Usable, NotAtEnd
<1>4. LoopNext
  BY <1>3, Zenon DEF LoopNext, LoopsInv, NeverCrashes
<1>5. LoopsInv'
  BY <1>2 DEF Unchanged, LoopsInv, TypeOK, Nested, Loops, NeverCrashes
<1> QED BY <1>2, <1>4, <1>5 DEF Unchanged

\* Where a coroutine is that comes back.
ComesBack(owner, frame, st) ==
  /\ GoesTo(frame, st)
  /\ held' = held
  /\ at' \in [{"client", "nested"} -> {"in_namespace", "enumerate", "none"}]
  /\ st = "yielded" => at'[owner] = frame
  /\ \A i \in {"client", "nested"} : i # owner => at'[i] = at[i]
  /\ begun' = begun \cup {frame}
  /\ yields' = IF st = "yielded" THEN [yields EXCEPT ![frame] = @ + 1] ELSE yields
  /\ yields' \in [{"in_namespace", "enumerate"} -> 0..MaxEntries]
  /\ raised' = IF status' = "threw" THEN raised \cup {frame} ELSE raised
  /\ thrown' \in [{"in_namespace", "enumerate"} -> Nat]
  /\ status' \in (IF st = "ended" THEN {"ok", "threw"} ELSE {"ok"})

LEMMA ResumeComesBack ==
  ASSUME LoopsInv, NEW owner \in {"client", "nested"}, NEW frame \in {"enumerate", "in_namespace"},
         Resume(frame), held' = held, begun' = begun \cup {frame},
         at' = IF status' = "threw" THEN at ELSE [at EXCEPT ![owner] = frame],
         NEW st \in {"yielded", "ended"}, state'[frame] = st
  PROVE  ComesBack(owner, frame, st)
<1> USE DEF LoopsInv, TypeOK, ComesBack, GoesTo
<1>1. CASE Yield(frame)
  <2>1. st = "yielded" /\ status' = "ok" /\ raised' = raised
    BY <1>1 DEF Yield
  <2>2. /\ yields' = [yields EXCEPT ![frame] = @ + 1]
        /\ yields' \in [{"in_namespace", "enumerate"} -> 0..MaxEntries]
    BY <1>1, MaxEntriesAssumption DEF Yield
  <2>3. at' = [at EXCEPT ![owner] = frame]
    BY <2>1
  <2>4. state' = [state EXCEPT ![frame] = "yielded"]
    BY <1>1 DEF Yield
  <2> QED BY <1>1, <2>1, <2>2, <2>3, <2>4 DEF Yield
<1>2. CASE Return(frame)
  BY <1>2 DEF Return
<1>3. CASE Throw(frame)
  <2>1. /\ st = "ended" /\ status' = "threw" /\ raised' = raised \cup {frame}
        /\ yields' = yields /\ state' = [state EXCEPT ![frame] = "ended"]
    BY <1>3 DEF Throw
  <2>2. at' = at
    BY <2>1
  <2>3. thrown' \in [{"in_namespace", "enumerate"} -> Nat]
    BY <1>3 DEF Throw
  <2> QED BY <2>1, <2>2, <2>3
<1> QED BY <1>1, <1>2, <1>3 DEF Resume

\* A resumed coroutine of a loop comes back, and is one that the loop may resume.
LEMMA BackLoops ==
  ASSUME LoopsInv, NEW owner, NEW frame, <<owner, frame>> \in LoopPairs,
         NEW st \in {"yielded", "ended"}, Back(owner, frame, st),
         state[frame] \in {"start", "yielded"}
  PROVE  LoopNext /\ LoopsInv' /\ ComesBack(owner, frame, st)
<1>1. owner \in {"client", "nested"} /\ frame \in {"enumerate", "in_namespace"}
  BY DEF LoopPairs
<1>2. held[owner] = frame /\ Loops(owner, frame)
  BY DEF LoopsInv, Nested, Loops, Live, LoopPairs
<1>3. LoopNext /\ ComesBack(owner, frame, st)
  <2>1. CASE frame \in begun
    <3>1. state[frame] = "yielded" /\ at[owner] = frame
      BY <1>2, <2>1 DEF Loops
    <3>2. Increment(owner)
      BY <2>1 DEF Back, Advanced
    <3>3. Usable(owner) /\ NotAtEnd(owner) /\ CanResume(owner)
      BY <1>1, <3>1 DEF Usable, NotAtEnd, CanResume
    <3>4. LoopNext
      BY <1>1, <3>2, <3>3, Zenon DEF LoopNext, LoopsInv, NeverCrashes
    <3>5. Resume(frame) /\ held' = held /\ begun' = begun \cup {frame} /\ at' = at
      BY <2>1, <3>1, <3>2, <3>3 DEF Increment
    <3>6. at = [at EXCEPT ![owner] = frame]
      BY <1>1, <3>1 DEF LoopsInv, TypeOK
    <3>7. ComesBack(owner, frame, st)
      BY <1>1, <3>5, <3>6, ResumeComesBack DEF Back
    <3> QED BY <3>4, <3>7
  <2>2. CASE frame \notin begun
    <3>1. Begin(owner, owner)
      BY <2>2 DEF Back, Advanced
    <3>2. LoopNext
      BY <1>1, <1>2, <2>2, <3>1, Zenon DEF LoopNext, LoopsInv, NeverCrashes
    <3>3. /\ Resume(frame) /\ held' = held /\ begun' = begun \cup {frame}
          /\ at' = IF status' = "threw" THEN at ELSE [at EXCEPT ![owner] = frame]
      BY <1>1, <1>2, <3>1 DEF Begin
    <3> QED BY <1>1, <3>2, <3>3, ResumeComesBack DEF Back
  <2> QED BY <2>1, <2>2
<1>4. LoopsInv'
  <2>1. TypeOK'
    BY <1>1, <1>3 DEF LoopsInv, TypeOK, ComesBack, GoesTo, Live
  <2>2. NeverCrashes'
    BY <1>3 DEF ComesBack, NeverCrashes
  <2>3. Nested'
    BY <1>1, <1>3 DEF LoopsInv, TypeOK, Nested, Loops, ComesBack, GoesTo, Live, LoopPairs
  <2> QED BY <2>1, <2>2, <2>3 DEF LoopsInv
<1> QED BY <1>3, <1>4
-----------------------------------------------------------------------------
(* The entries. *)

LEMMA EntriesTyped ==
  ASSUME WalkTypeOK
  PROVE  DOMAIN entries \subseteq Nat \ {0} /\ \A k \in DOMAIN entries : entries[k] \in Entries
<1>1. PICK n \in 0..MaxEntries : entries \in [1..n -> Entries]
  BY DEF WalkTypeOK
<1> QED BY <1>1, MaxEntriesAssumption

\* The transformers find what is annotated, and its text.
LEMMA EntryShape ==
  ASSUME WalkTypeOK, NEW k \in DOMAIN entries
  PROVE  /\ Annotated(entries[k]) # Null <=> Fits(k)
         /\ Fits(k) => (TextArray(entries[k]) = Null <=> ~HasText(k))
         /\ Fits(k) /\ HasText(k) =>
              TextArray(entries[k]).text = TextOf(k) /\ TextOf(k) \in Seq(Characters)
<1> DEFINE e == entries[k]
<1>1. e \in Entries
  BY EntriesTyped
<1>2. /\ e # Null
      /\ e.kind = "struct" =>
           /\ e.operands[1] # Null /\ e.operands[1].operands[1] # Null
           /\ e.operands[1].operands[1].kind = Wanted => e.operands[1].kind = "cast"
           /\ e.operands[2] # Null /\ e.operands[2].operands[1] # Null
           /\ e.operands[2].operands[1].kind = "global"
           /\ e.operands[2].operands[1].operands[1] # Null
           /\ e.operands[2].operands[1].operands[1].kind = "data" =>
                e.operands[2].operands[1].operands[1].text \in Seq(Characters)
  BY <1>1, EntriesAssumption
<1>3. Annotated(e) # Null <=> Fits(k)
  <2>1. CASE e.kind = "struct"
    <3>1. Operand(Operand(Cast(e, "struct"), 0), 0) = e.operands[1].operands[1]
      BY <1>2, <2>1 DEF Operand, Cast
    <3>2. Annotated(e) # Null <=> e.operands[1].operands[1].kind = Wanted
      BY <1>2, <2>1, <3>1 DEF Annotated, Cast
    <3> QED BY <1>2, <2>1, <3>2 DEF Fits
  <2>2. CASE e.kind # "struct"
    <3>1. Annotated(e) = Null
      BY <2>2 DEF Annotated, Operand, Cast
    <3> QED BY <2>2, <3>1 DEF Fits
  <2> QED BY <2>1, <2>2
<1>4. ASSUME Fits(k)
      PROVE  /\ TextArray(e) = Null <=> ~HasText(k)
             /\ HasText(k) => TextArray(e).text = TextOf(k) /\ TextOf(k) \in Seq(Characters)
  <2>1. e.kind = "struct"
    BY <1>4 DEF Fits
  <2>2. Operand(Operand(Cast(e, "struct"), 1), 0) = e.operands[2].operands[1]
    BY <1>2, <2>1 DEF Operand, Cast
  <2>3. Operand(Cast(Operand(Operand(Cast(e, "struct"), 1), 0), "global"), 0)
          = e.operands[2].operands[1].operands[1]
    BY <1>2, <2>1, <2>2 DEF Operand, Cast
  <2> QED BY <1>2, <2>1, <2>3 DEF TextArray, Cast, HasText, TextOf, Text
<1> QED BY <1>3, <1>4

\* The least element.
LEMMA MinLeast ==
  ASSUME NEW S, S \subseteq Nat, S # {}
  PROVE  Min(S) \in S /\ \A y \in S : Min(S) <= y
<1>1. PICK x \in S : \A y \in S : <<y, x>> \notin OpToRel(<, Nat)
  BY NatLessThanWellFounded, WFMin, Zenon
<1>2. \A y \in S : ~(y < x)
  BY <1>1, Zenon DEF OpToRel
<1>3. \A y \in S : x <= y
  BY <1>2
<1>4. \E least \in S : \A y \in S : least <= y
  BY <1>3
<1> QED BY <1>4, Zenon DEF Min
-----------------------------------------------------------------------------
(* Cutting a text at its dots. *)

\* cut shows that CutUpTo.
Cut(text, a, end, cut) ==
  /\ cut \in [0..Len(a) -> 0..end]
  /\ cut[0] = 0 /\ cut[Len(a)] = end
  /\ \A i, j \in 0..Len(a) : i < j => cut[i] < cut[j]
  /\ \A i \in 1..Len(a) :
       /\ a[i] = SubSeq(text, cut[i - 1] + 1, cut[i] - 1) /\ Undotted(a[i])
       /\ cut[i] <= Len(text) => text[cut[i]] = Dot

LEMMA CutShows ==
  ASSUME NEW text, NEW a, NEW end
  PROVE  CutUpTo(text, a, end) <=> \E cut \in [0..Len(a) -> 0..end] : Cut(text, a, end, cut)
  BY Zenon DEF CutUpTo, Cut

\* A text that holds no dot between two places is undotted there.
LEMMA UndottedSlice ==
  ASSUME NEW text \in Seq(Characters), NEW m \in Nat, NEW n \in Nat, m < n, n <= Len(text) + 1
  PROVE  /\ SubSeq(text, m + 1, n - 1) \in Seq(Characters)
         /\ Len(SubSeq(text, m + 1, n - 1)) = n - 1 - m
         /\ \A i \in 1..(n - 1 - m) : SubSeq(text, m + 1, n - 1)[i] = text[m + i]
         /\ Undotted(SubSeq(text, m + 1, n - 1)) <=> \A i \in (m + 1)..(n - 1) : text[i] # Dot
<1> DEFINE t == SubSeq(text, m + 1, n - 1)
<1>1. \A i \in (m + 1)..(n - 1) : text[i] \in Characters
  BY ElementOfSeq
<1>2. /\ t \in Seq(Characters) /\ Len(t) = n - 1 - m
      /\ \A i \in 1..(n - 1 - m) : t[i] = text[m + i]
  BY <1>1, SubSeqProperties
<1>3. DOMAIN t = 1..(n - 1 - m)
  BY <1>2
<1> HIDE DEF t
<1>4. ASSUME Undotted(t), NEW i \in (m + 1)..(n - 1) PROVE text[i] # Dot
  <2>1. i - m \in 1..(n - 1 - m) /\ m + (i - m) = i
    OBVIOUS
  <2>2. t[i - m] = text[i]
    BY <1>2, <2>1
  <2> QED BY <1>3, <1>4, <2>1, <2>2 DEF Undotted
<1>5. ASSUME \A i \in (m + 1)..(n - 1) : text[i] # Dot PROVE Undotted(t)
  <2>1. ASSUME NEW i \in 1..(n - 1 - m) PROVE t[i] # Dot
    <3>1. m + i \in (m + 1)..(n - 1)
      OBVIOUS
    <3> QED BY <1>2, <1>5, <3>1
  <2> QED BY <1>3, <2>1 DEF Undotted
<1>6. Undotted(t) <=> \A i \in (m + 1)..(n - 1) : text[i] # Dot
  BY <1>4, <1>5
<1> QED BY <1>2, <1>6 DEF t

LEMMA CutGrows ==
  ASSUME NEW text \in Seq(Characters), NEW a \in Seq(Seq(Characters)), NEW end \in Nat, NEW next \in Nat,
         end < next, next <= Len(text) + 1, CutUpTo(text, a, end),
         \A i \in (end + 1)..(next - 1) : text[i] # Dot,
         next <= Len(text) => text[next] = Dot
  PROVE  CutUpTo(text, Append(a, SubSeq(text, end + 1, next - 1)), next)
<1> DEFINE t == SubSeq(text, end + 1, next - 1)
           b == Append(a, t)
<1>1. PICK cut \in [0..Len(a) -> 0..end] : Cut(text, a, end, cut)
  BY CutShows
<1>2. t \in Seq(Characters) /\ Undotted(t)
  BY UndottedSlice
<1> DEFINE longer == [i \in 0..(Len(a) + 1) |-> IF i <= Len(a) THEN cut[i] ELSE next]
<1> HIDE DEF t
<1>3. Len(a) \in Nat
  OBVIOUS
<1>4. b \in Seq(Seq(Characters)) /\ Len(b) = Len(a) + 1 /\ b[Len(a) + 1] = t
      /\ \A i \in 1..Len(a) : b[i] = a[i]
  BY <1>2
<1> HIDE DEF b
<1>5. longer \in [0..Len(b) -> 0..next] /\ longer[0] = 0 /\ longer[Len(b)] = next
  BY <1>1, <1>3, <1>4 DEF Cut
<1>6. \A i, j \in 0..Len(b) : i < j => longer[i] < longer[j]
  <2> SUFFICES ASSUME NEW i \in 0..Len(b), NEW j \in 0..Len(b), i < j PROVE longer[i] < longer[j]
    OBVIOUS
  <2>1. i \in 0..Len(a) /\ longer[i] = cut[i]
    BY <1>3, <1>4
  <2>2. cut[i] \in 0..end
    BY <2>1
  <2>3. CASE j = Len(a) + 1
    <3>1. longer[j] = next
      BY <1>3, <2>3
    <3> QED BY <2>1, <2>2, <3>1
  <2>4. CASE j \in 0..Len(a)
    <3>1. longer[j] = cut[j]
      BY <1>3, <2>4
    <3> QED BY <1>1, <2>1, <2>4, <3>1 DEF Cut
  <2> QED BY <1>3, <1>4, <2>3, <2>4
<1>7. ASSUME NEW i \in 1..Len(b)
      PROVE  /\ b[i] = SubSeq(text, longer[i - 1] + 1, longer[i] - 1) /\ Undotted(b[i])
             /\ longer[i] <= Len(text) => text[longer[i]] = Dot
  <2>1. CASE i <= Len(a)
    <3>1. i \in 1..Len(a) /\ longer[i] = cut[i] /\ longer[i - 1] = cut[i - 1] /\ b[i] = a[i]
      BY <1>3, <1>4, <2>1
    <3> HIDE DEF longer
    <3> QED BY <1>1, <3>1 DEF Cut
  <2>2. CASE i = Len(a) + 1
    <3>1. longer[i] = next /\ longer[i - 1] = end /\ b[i] = t
      BY <1>1, <1>3, <1>4, <2>2 DEF Cut
    <3> HIDE DEF longer
    <3> QED BY <1>2, <3>1 DEF t
  <2>3. i <= Len(a) \/ i = Len(a) + 1
    BY <1>3, <1>4
  <2> HIDE DEF longer
  <2> QED BY <2>1, <2>2, <2>3
<1> HIDE DEF longer
<1>8. Cut(text, b, next, longer)
  BY <1>5, <1>6, <1>7 DEF Cut
<1>9. CutUpTo(text, b, next)
  BY <1>5, <1>8, CutShows
<1> QED BY <1>9 DEF b, t

\* There is one next dot.
LEMMA NextDotIsOne ==
  ASSUME NEW text \in Seq(Characters), NEW p \in Nat, NEW q \in Nat, NEW r \in Nat,
         p < q, q <= Len(text) + 1, \A i \in (p + 1)..(q - 1) : text[i] # Dot,
         q <= Len(text) => text[q] = Dot,
         p < r, r <= Len(text), \A i \in (p + 1)..(r - 1) : text[i] # Dot, text[r] = Dot
  PROVE  r = q
<1>1. ASSUME r < q PROVE FALSE
  <2>1. r \in (p + 1)..(q - 1)
    BY <1>1
  <2> QED BY <2>1
<1>2. ASSUME q < r PROVE FALSE
  <2>1. q \in (p + 1)..(r - 1) /\ q <= Len(text)
    BY <1>2
  <2> QED BY <2>1
<1> QED BY <1>1, <1>2

\* The places where a text is cut are where its dots are: a text that is cut
\* up to its end, and cut up to a dot, is cut at the same places.
LEMMA CutsAgree ==
  ASSUME NEW text \in Seq(Characters), NEW a \in Seq(Seq(Characters)), NEW b \in Seq(Seq(Characters)),
         NEW end \in 0..Len(text), NEW c, NEW d,
         Cut(text, a, Len(text) + 1, c), Cut(text, b, end, d),
         NEW place \in 0..Len(b)
  PROVE  Len(b) < Len(a) /\ d[place] = c[place]
<1>1. Len(a) \in Nat /\ Len(b) \in Nat /\ Len(text) \in Nat
      /\ end \in Nat /\ end <= Len(text)
  OBVIOUS
<1>2. /\ c \in [0..Len(a) -> 0..(Len(text) + 1)] /\ c[0] = 0 /\ c[Len(a)] = Len(text) + 1
      /\ d \in [0..Len(b) -> 0..end] /\ d[0] = 0 /\ d[Len(b)] = end
  BY Zenon DEF Cut
<1> DEFINE Bad == {i \in 0..Len(b) : i >= Len(a) \/ d[i] # c[i]}
<1>3. Bad \subseteq Nat
  BY <1>1
<1>4. ASSUME NEW k \in Bad, \A i \in Bad : k <= i PROVE FALSE
  <2>1. k \in 0..Len(b) /\ (k >= Len(a) \/ d[k] # c[k])
    OBVIOUS
  <2>2. k # 0
    BY <1>1, <1>2, <2>1
  <2>3. k \in 1..Len(b) /\ k - 1 \in 0..Len(b)
    BY <1>1, <2>1, <2>2
  <2>4. k - 1 \notin Bad
    <3> HIDE DEF Bad
    <3> QED BY <1>4, <2>3
  <2>5. ~(k - 1 >= Len(a)) /\ d[k - 1] = c[k - 1]
    BY <2>3, <2>4
  <2> HIDE DEF Bad
  <2>6. k \in 1..Len(a) /\ k \in 0..Len(a) /\ k - 1 \in 0..Len(a) /\ k - 1 < k
    BY <1>1, <2>3, <2>5
  <2>7. c[k] \in 0..(Len(text) + 1) /\ c[k - 1] \in 0..(Len(text) + 1)
    BY <1>2, <2>6
  <2>8. /\ c[k - 1] < c[k]
        /\ a[k] = SubSeq(text, c[k - 1] + 1, c[k] - 1) /\ Undotted(a[k])
        /\ c[k] <= Len(text) => text[c[k]] = Dot
    BY <2>6, Zenon DEF Cut
  <2>9. d[k] \in 0..end /\ d[k - 1] \in 0..end
    BY <1>2, <2>1, <2>3
  <2>10. /\ d[k - 1] < d[k]
         /\ b[k] = SubSeq(text, d[k - 1] + 1, d[k] - 1) /\ Undotted(b[k])
         /\ d[k] <= Len(text) => text[d[k]] = Dot
    BY <2>1, <2>3, <2>6, Zenon DEF Cut
  <2>11. \A i \in (c[k - 1] + 1)..(c[k] - 1) : text[i] # Dot
    <3>1. c[k - 1] \in Nat /\ c[k] \in Nat /\ c[k] <= Len(text) + 1
      BY <1>1, <2>7
    <3> QED BY <2>8, <3>1, UndottedSlice
  <2>12. d[k - 1] \in Nat /\ d[k] \in Nat /\ d[k] <= Len(text)
    BY <1>1, <2>9
  <2>13. \A i \in (d[k - 1] + 1)..(d[k] - 1) : text[i] # Dot
    <3>1. d[k] <= Len(text) + 1
      BY <1>1, <2>12
    <3> QED BY <2>10, <2>12, <3>1, UndottedSlice
  <2>14. d[k] = c[k]
    <3>1. c[k - 1] \in Nat /\ c[k] \in Nat /\ c[k] <= Len(text) + 1
      BY <1>1, <2>7
    <3>2. c[k - 1] < c[k] /\ c[k - 1] < d[k]
      BY <2>5, <2>8, <2>10
    <3>3. \A i \in (c[k - 1] + 1)..(d[k] - 1) : text[i] # Dot
      BY <2>5, <2>13
    <3>4. (c[k] <= Len(text) => text[c[k]] = Dot) /\ text[d[k]] = Dot
      BY <2>8, <2>10, <2>12
    <3> QED BY <2>11, <2>12, <3>1, <3>2, <3>3, <3>4, NextDotIsOne
  <2>15. k = Len(a)
    BY <1>1, <2>1, <2>6, <2>14
  <2> QED BY <1>1, <1>2, <2>12, <2>14, <2>15
<1>5. Bad = {}
  <2> HIDE DEF Bad
  <2> QED BY <1>3, <1>4, MinLeast
<1>6. \A i \in 0..Len(b) : i < Len(a) /\ d[i] = c[i]
  <2>1. \A i \in 0..Len(b) : ~(i >= Len(a)) /\ d[i] = c[i]
    BY <1>5
  <2> QED BY <1>1, <2>1
<1> QED BY <1>1, <1>6

\* What is cut up to a dot is a proper prefix of all parts.
LEMMA PrefixOfParts ==
  ASSUME NEW text \in Seq(Characters), NEW a \in Seq(Seq(Characters)), NEW b \in Seq(Seq(Characters)),
         CutUpTo(text, a, Len(text) + 1)
  PROVE  (\E end \in 0..Len(text) : CutUpTo(text, b, end)) <=> InNamespace(a, b)
<1>1. PICK c \in [0..Len(a) -> 0..(Len(text) + 1)] : Cut(text, a, Len(text) + 1, c)
  BY CutShows
<1>2. Len(a) \in Nat /\ Len(b) \in Nat /\ Len(text) \in Nat /\ DOMAIN b = 1..Len(b)
  OBVIOUS
<1>3. ASSUME NEW end \in 0..Len(text), CutUpTo(text, b, end) PROVE InNamespace(a, b)
  <2>1. PICK d \in [0..Len(b) -> 0..end] : Cut(text, b, end, d)
    BY <1>3, CutShows
  <2>2. Len(b) < Len(a) /\ \A i \in 0..Len(b) : d[i] = c[i]
    <3>1. Cut(text, a, Len(text) + 1, c) /\ Cut(text, b, end, d)
      BY <1>1, <2>1
    <3>2. text \in Seq(Characters) /\ a \in Seq(Seq(Characters)) /\ b \in Seq(Seq(Characters)) /\ end \in 0..Len(text)
      OBVIOUS
    <3>3. Len(b) < Len(a)
      <4>1. 0 \in 0..Len(b)
        BY <1>2
      <4> QED BY <3>1, <3>2, <4>1, CutsAgree
    <3>4. ASSUME NEW i \in 0..Len(b) PROVE d[i] = c[i]
      <4>1. \A x, y : Cut(text, a, Len(text) + 1, x) /\ Cut(text, b, end, y) => y[i] = x[i]
        BY <3>2, CutsAgree
      <4> QED BY <3>1, <4>1, Zenon
    <3> QED BY <3>3, <3>4
  <2>3. ASSUME NEW i \in 1..Len(b) PROVE a[i] = b[i]
    <3>1. i \in 1..Len(a) /\ i \in 0..Len(b) /\ i - 1 \in 0..Len(b)
      BY <1>2, <2>2
    <3>2. d[i] = c[i] /\ d[i - 1] = c[i - 1]
      BY <2>2, <3>1
    <3> QED BY <1>1, <2>1, <3>1, <3>2 DEF Cut
  <2> QED BY <1>2, <2>2, <2>3 DEF InNamespace
<1>4. ASSUME InNamespace(a, b) PROVE \E end \in 0..Len(text) : CutUpTo(text, b, end)
  <2> DEFINE end == c[Len(b)]
             d == [i \in 0..Len(b) |-> c[i]]
  <2>1. Len(b) < Len(a) /\ \A i \in 1..Len(b) : a[i] = b[i]
    BY <1>2, <1>4 DEF InNamespace
  <2>2. end \in 0..Len(text)
    <3>1. c[Len(b)] < c[Len(a)] /\ c[Len(a)] = Len(text) + 1 /\ c[Len(b)] \in 0..(Len(text) + 1)
      BY <1>1, <1>2, <2>1 DEF Cut
    <3> QED BY <1>2, <3>1
  <2>3. d \in [0..Len(b) -> 0..end] /\ d[0] = 0 /\ d[Len(b)] = end
    <3>1. ASSUME NEW i \in 0..Len(b) PROVE c[i] \in 0..end
      <4>0. \A l, m \in Nat : m < l =>
              m \in 0..l /\ \A j \in 0..m : j \in 0..l /\ (j = m \/ j < m)
        OBVIOUS
      <4>1. i \in 0..Len(a) /\ Len(b) \in 0..Len(a) /\ (i = Len(b) \/ i < Len(b))
        BY <1>2, <2>1, <4>0, Zenon
      <4>2. i = Len(b) \/ c[i] < c[Len(b)]
        BY <1>1, <4>1, Zenon DEF Cut
      <4>3. c[i] \in 0..(Len(text) + 1) /\ c[Len(b)] \in 0..(Len(text) + 1)
        BY <1>1, <4>1
      <4>4. c[i] \in Nat /\ c[Len(b)] \in Nat /\ c[i] <= c[Len(b)]
        <5>1. c[i] \in Nat /\ c[Len(b)] \in Nat
          BY <1>2, <4>3
        <5>2. CASE i = Len(b)
          BY <5>1, <5>2
        <5>3. CASE c[i] < c[Len(b)]
          BY <5>1, <5>3
        <5> QED BY <4>2, <5>1, <5>2, <5>3
      <4> QED BY <4>4
    <3> QED BY <1>1, <1>2, <3>1 DEF Cut
  <2>4. \A i, j \in 0..Len(b) : i < j => d[i] < d[j]
    BY <1>1, <1>2, <2>1 DEF Cut
  <2>5. ASSUME NEW i \in 1..Len(b)
        PROVE  /\ b[i] = SubSeq(text, d[i - 1] + 1, d[i] - 1) /\ Undotted(b[i])
               /\ d[i] <= Len(text) => text[d[i]] = Dot
    <3>1. i \in 1..Len(a) /\ d[i] = c[i] /\ d[i - 1] = c[i - 1] /\ b[i] = a[i]
      BY <1>2, <2>1
    <3> HIDE DEF d
    <3> QED BY <1>1, <3>1 DEF Cut
  <2> HIDE DEF d, end
  <2>6. Cut(text, b, end, d)
    BY <2>3, <2>4, <2>5 DEF Cut
  <2> QED BY <2>2, <2>3, <2>6, CutShows
<1> QED BY <1>3, <1>4

\* A text and a dot begin another text.
LEMMA BeginsWithDot ==
  ASSUME NEW q \in Seq(Characters), NEW text \in Seq(Characters)
  PROVE  IsPrefix(q \o <<Dot>>, text)
           <=> /\ Len(q) + 1 <= Len(text) /\ text[Len(q) + 1] = Dot
               /\ \A i \in 1..Len(q) : text[i] = q[i]
<1> DEFINE S == Characters \cup {Dot}
           s == q \o <<Dot>>
<1>1. /\ Len(q) \in Nat /\ Len(text) \in Nat
      /\ q \in Seq(S) /\ text \in Seq(S) /\ <<Dot>> \in Seq(S)
  OBVIOUS
<1>2. /\ s \in Seq(S) /\ Len(s) = Len(q) + 1 /\ s[Len(q) + 1] = Dot
      /\ \A i \in 1..Len(q) : s[i] = q[i]
  BY <1>1
<1> HIDE DEF s, S
<1>3. SubSeq(s, 1, Len(s)) = s
  BY <1>2, SubSeqFull
<1>4. IsPrefix(s, text) <=> Len(q) + 1 <= Len(text) /\ s = SubSeq(text, 1, Len(q) + 1)
  BY <1>2, <1>3 DEF IsPrefix
<1>5. ASSUME Len(q) + 1 <= Len(text)
      PROVE  s = SubSeq(text, 1, Len(q) + 1) <=>
               text[Len(q) + 1] = Dot /\ \A i \in 1..Len(q) : text[i] = q[i]
  <2> DEFINE t == SubSeq(text, 1, Len(q) + 1)
  <2>1. t \in Seq(S) /\ Len(t) = Len(q) + 1 /\ \A i \in 1..(Len(q) + 1) : t[i] = text[i]
    BY <1>1, <1>5
  <2> HIDE DEF t
  <2>2. s = t <=> \A i \in 1..(Len(q) + 1) : s[i] = text[i]
    BY <1>1, <1>2, <2>1, SeqEqual
  <2>3. (\A i \in 1..(Len(q) + 1) : s[i] = text[i])
          <=> text[Len(q) + 1] = Dot /\ \A i \in 1..Len(q) : text[i] = q[i]
    <3>1. \A i : i \in 1..(Len(q) + 1) <=> i \in 1..Len(q) \/ i = Len(q) + 1
      BY <1>1
    <3> QED BY <1>2, <3>1
  <2> QED BY <2>2, <2>3 DEF t
<1> QED BY <1>4, <1>5 DEF s

\* A part is what lies between its dots.
IsSlice(text, a, end, c, i) ==
  /\ c[i] \in Nat /\ c[i - 1] \in Nat /\ c[i - 1] < c[i] /\ c[i] <= end
  /\ a[i] \in Seq(Characters) /\ Len(a[i]) = c[i] - 1 - c[i - 1] /\ Undotted(a[i])
  /\ \A j \in 1..(c[i] - 1 - c[i - 1]) : a[i][j] = text[c[i - 1] + j]
  /\ c[i] <= Len(text) => text[c[i]] = Dot

LEMMA Slice ==
  ASSUME NEW text \in Seq(Characters), NEW a \in Seq(Seq(Characters)), NEW end \in Nat, NEW c,
         end <= Len(text) + 1, Cut(text, a, end, c), NEW i \in 1..Len(a)
  PROVE  IsSlice(text, a, end, c, i)
<1>1. Len(a) \in Nat /\ Len(text) \in Nat
  OBVIOUS
<1>2. i \in 0..Len(a) /\ i - 1 \in 0..Len(a) /\ i - 1 < i
  BY <1>1
<1>3. c \in [0..Len(a) -> 0..end]
  BY Zenon DEF Cut
<1>4. c[i] \in 0..end /\ c[i - 1] \in 0..end
  BY <1>2, <1>3
<1>5. c[i] \in Nat /\ c[i - 1] \in Nat /\ c[i] <= end /\ c[i] <= Len(text) + 1
  BY <1>1, <1>4
<1>6. /\ c[i - 1] < c[i] /\ a[i] = SubSeq(text, c[i - 1] + 1, c[i] - 1) /\ Undotted(a[i])
      /\ c[i] <= Len(text) => text[c[i]] = Dot
  BY <1>2, Zenon DEF Cut
<1> DEFINE m == c[i - 1]
           n == c[i]
<1>7. m \in Nat /\ n \in Nat /\ m < n /\ n <= Len(text) + 1 /\ a[i] = SubSeq(text, m + 1, n - 1)
  BY <1>5, <1>6
<1> HIDE DEF m, n
<1>8. a[i] \in Seq(Characters) /\ Len(a[i]) = n - 1 - m /\ \A j \in 1..(n - 1 - m) : a[i][j] = text[m + j]
  BY <1>7, UndottedSlice
<1> QED BY <1>5, <1>6, <1>8, Zenon DEF m, n, IsSlice

\* What is cut up to the dot after it is begun by the text that the parts are of.
LEMMA PrefixOfText ==
  ASSUME NEW q \in Seq(Characters), NEW text \in Seq(Characters), NEW b \in Seq(Seq(Characters)),
         CutUpTo(q, b, Len(q) + 1)
  PROVE  (\E end \in 0..Len(text) : CutUpTo(text, b, end)) <=> IsPrefix(q \o <<Dot>>, text)
<1>1. PICK e \in [0..Len(b) -> 0..(Len(q) + 1)] : Cut(q, b, Len(q) + 1, e)
  BY CutShows
<1>2. Len(q) \in Nat /\ Len(b) \in Nat /\ Len(text) \in Nat
  OBVIOUS
<1>3. e[0] = 0 /\ e[Len(b)] = Len(q) + 1 /\ Len(b) # 0
  <2>1. e[0] = 0 /\ e[Len(b)] = Len(q) + 1
    BY <1>1, Zenon DEF Cut
  <2> QED BY <1>2, <2>1
\* The slices of q.
<1>4. ASSUME NEW i \in 1..Len(b)
      PROVE  /\ e[i] \in Nat /\ e[i - 1] \in Nat /\ e[i - 1] < e[i] /\ e[i] <= Len(q) + 1
             /\ b[i] \in Seq(Characters) /\ Len(b[i]) = e[i] - 1 - e[i - 1] /\ Undotted(b[i])
             /\ \A j \in 1..(e[i] - 1 - e[i - 1]) : b[i][j] = q[e[i - 1] + j]
             /\ e[i] <= Len(q) => q[e[i]] = Dot
  <2>1. Len(q) + 1 \in Nat /\ Len(q) + 1 <= Len(q) + 1
    BY <1>2
  <2>2. IsSlice(q, b, Len(q) + 1, e, i)
    BY <1>1, <2>1, Slice
  <2> QED BY <2>2, Zenon DEF IsSlice
<1>5. ASSUME IsPrefix(q \o <<Dot>>, text) PROVE CutUpTo(text, b, Len(q) + 1) /\ Len(q) + 1 \in 0..Len(text)
  <2>1. /\ Len(q) + 1 <= Len(text) /\ text[Len(q) + 1] = Dot
        /\ \A i \in 1..Len(q) : text[i] = q[i]
    BY <1>5, BeginsWithDot
  <2>2. ASSUME NEW i \in 1..Len(b)
        PROVE  /\ b[i] = SubSeq(text, e[i - 1] + 1, e[i] - 1) /\ Undotted(b[i])
               /\ e[i] <= Len(text) => text[e[i]] = Dot
    <3> DEFINE t == SubSeq(text, e[i - 1] + 1, e[i] - 1)
    <3>1. e[i] <= Len(text) + 1
      BY <1>2, <1>4, <2>1
    <3>2. /\ t \in Seq(Characters) /\ Len(t) = e[i] - 1 - e[i - 1]
          /\ \A j \in 1..(e[i] - 1 - e[i - 1]) : t[j] = text[e[i - 1] + j]
      <4>1. e[i] \in Nat /\ e[i - 1] \in Nat /\ e[i - 1] < e[i]
        BY <1>4
      <4> QED BY <3>1, <4>1, UndottedSlice, Zenon
    <3> HIDE DEF t
    <3>3. ASSUME NEW j \in 1..(e[i] - 1 - e[i - 1]) PROVE b[i][j] = t[j]
      <4>1. e[i - 1] + j \in 1..Len(q)
        BY <1>2, <1>4
      <4> QED BY <1>4, <2>1, <3>2, <4>1
    <3>4. b[i] = t
      <4>1. b[i] \in Seq(Characters) /\ Len(b[i]) = e[i] - 1 - e[i - 1]
        BY <1>4, Zenon
      <4>2. Len(b[i]) = Len(t) /\ \A j \in 1..Len(b[i]) : b[i][j] = t[j]
        BY <3>2, <3>3, <4>1, Zenon
      <4> QED BY <3>2, <4>1, <4>2, SeqEqual, Zenon
    <3>5. text[e[i]] = Dot
      <4>1. CASE e[i] <= Len(q)
        <5>1. q[e[i]] = Dot /\ e[i] \in Nat /\ e[i - 1] \in Nat /\ e[i - 1] < e[i]
          BY <1>4, <4>1, Zenon
        <5>2. e[i] \in 1..Len(q)
          BY <1>2, <4>1, <5>1
        <5> QED BY <2>1, <5>1, <5>2
      <4>2. CASE e[i] = Len(q) + 1
        BY <2>1, <4>2
      <4> QED BY <1>2, <1>4, <4>1, <4>2
    <3> QED BY <1>4, <3>4, <3>5 DEF t
  <2>3. Cut(text, b, Len(q) + 1, e)
    BY <1>1, <1>3, <2>2 DEF Cut
  <2> QED BY <1>2, <2>1, <2>3, CutShows
<1>6. ASSUME NEW end \in 0..Len(text), CutUpTo(text, b, end) PROVE IsPrefix(q \o <<Dot>>, text)
  <2>1. PICK d \in [0..Len(b) -> 0..end] : Cut(text, b, end, d)
    BY <1>6, CutShows
  <2>2. end \in Nat /\ end <= Len(text)
    BY <1>2
  <2>3. d[0] = 0 /\ d[Len(b)] = end
    BY <2>1, Zenon DEF Cut
  <2>4. ASSUME NEW i \in 1..Len(b)
        PROVE  /\ d[i] \in Nat /\ d[i - 1] \in Nat /\ d[i - 1] < d[i] /\ d[i] <= Len(text)
               /\ Len(b[i]) = d[i] - 1 - d[i - 1]
               /\ \A j \in 1..(d[i] - 1 - d[i - 1]) : b[i][j] = text[d[i - 1] + j]
               /\ text[d[i]] = Dot
    <3>1. end <= Len(text) + 1
      BY <1>2, <2>2
    <3>2. /\ d[i] \in Nat /\ d[i - 1] \in Nat /\ d[i - 1] < d[i] /\ d[i] <= end
          /\ Len(b[i]) = d[i] - 1 - d[i - 1]
          /\ \A j \in 1..(d[i] - 1 - d[i - 1]) : b[i][j] = text[d[i - 1] + j]
          /\ d[i] <= Len(text) => text[d[i]] = Dot
      <4>1. IsSlice(text, b, end, d, i)
        BY <2>1, <2>2, <3>1, Slice
      <4> QED BY <4>1, Zenon DEF IsSlice
    <3>3. d[i] <= Len(text)
      BY <1>2, <2>2, <3>2
    <3> QED BY <3>2, <3>3
  <2> DEFINE Bad == {i \in 0..Len(b) : d[i] # e[i]}
  <2>5. Bad \subseteq Nat
    BY <1>2
  <2>6. ASSUME NEW k \in Bad, \A i \in Bad : k <= i PROVE FALSE
    <3>1. k \in 0..Len(b) /\ d[k] # e[k]
      OBVIOUS
    <3>2. k # 0
      BY <1>3, <2>3, <3>1
    <3>3. k \in 1..Len(b) /\ k - 1 \in 0..Len(b) /\ ~(k <= k - 1)
      BY <1>2, <3>1, <3>2
    <3>4. d[k - 1] = e[k - 1]
      <4>1. k - 1 \notin Bad
        <5> HIDE DEF Bad
        <5> QED BY <2>6, <3>3
      <4> QED BY <3>3, <4>1
    <3> HIDE DEF Bad
    <3>5. Len(b[k]) = e[k] - 1 - e[k - 1] /\ e[k] \in Nat /\ e[k - 1] \in Nat
      BY <1>4, <3>3
    <3>6. Len(b[k]) = d[k] - 1 - d[k - 1] /\ d[k] \in Nat /\ d[k - 1] \in Nat
      BY <2>4, <3>3
    <3>7. \A x, y, z, l : x \in Nat /\ y \in Nat /\ z \in Nat /\ l = x - 1 - z /\ l = y - 1 - z => x = y
      OBVIOUS
    <3>8. d[k] = e[k]
      BY <3>4, <3>5, <3>6, <3>7, Zenon
    <3> QED BY <3>1, <3>8
  <2>7. ASSUME NEW i \in 0..Len(b) PROVE d[i] = e[i]
    <3>1. Bad = {}
      <4> HIDE DEF Bad
      <4> QED BY <2>5, <2>6, MinLeast
    <3> QED BY <3>1
  <2>8. Len(q) + 1 <= Len(text) /\ text[Len(q) + 1] = Dot
    <3>1. Len(b) \in 1..Len(b) /\ Len(b) \in 0..Len(b)
      BY <1>2, <1>3
    <3>2. d[Len(b)] = Len(q) + 1
      BY <1>3, <2>7, <3>1
    <3> QED BY <2>4, <3>1, <3>2
  <2>9. ASSUME NEW j \in 1..Len(q) PROVE text[j] = q[j]
    <3> DEFINE K == {i \in 1..Len(b) : j <= e[i]}
    <3>1. K \subseteq Nat /\ Len(b) \in K
      BY <1>2, <1>3
    <3>2. PICK k \in K : \A i \in K : k <= i
      <4> HIDE DEF K
      <4> QED BY <3>1, MinLeast
    <3>3. k \in 1..Len(b) /\ j <= e[k] /\ k \in 0..Len(b) /\ k - 1 \in 0..Len(b)
      BY <1>2
    <3>4. e[k - 1] < j
      <4>1. CASE k = 1
        BY <1>2, <1>3, <4>1
      <4>2. CASE k # 1
        <5>1. k - 1 \in 1..Len(b) /\ ~(k <= k - 1)
          BY <1>2, <3>3, <4>2
        <5>2. k - 1 \notin K
          <6> HIDE DEF K
          <6> QED BY <3>2, <5>1
        <5>3. ~(j <= e[k - 1]) /\ e[k - 1] \in Nat
          BY <1>4, <3>3, <5>1, <5>2
        <5> QED BY <1>2, <5>3
      <4> QED BY <4>1, <4>2
    <3> HIDE DEF K
    <3>5. d[k] = e[k] /\ d[k - 1] = e[k - 1] /\ e[k] \in Nat /\ e[k - 1] \in Nat
      BY <1>4, <2>7, <3>3
    <3>6. CASE j = e[k]
      <4>1. e[k] <= Len(q)
        BY <3>6
      <4>2. q[e[k]] = Dot /\ text[d[k]] = Dot
        BY <1>4, <2>4, <3>3, <4>1
      <4> QED BY <3>5, <3>6, <4>2
    <3>7. CASE j < e[k]
      <4>1. j - e[k - 1] \in 1..(e[k] - 1 - e[k - 1]) /\ e[k - 1] + (j - e[k - 1]) = j
        BY <3>4, <3>5, <3>7
      <4>2. b[k][j - e[k - 1]] = q[j]
        BY <1>4, <3>3, <4>1
      <4>3. b[k][j - e[k - 1]] = text[j]
        <5>1. \A i \in 1..(d[k] - 1 - d[k - 1]) : b[k][i] = text[d[k - 1] + i]
          BY <2>4, <3>3, Zenon
        <5>2. \A i \in 1..(e[k] - 1 - e[k - 1]) : b[k][i] = text[e[k - 1] + i]
          BY <3>5, <5>1, Zenon
        <5> QED BY <4>1, <5>2
      <4> QED BY <4>2, <4>3
    <3> QED BY <3>3, <3>5, <3>6, <3>7
  <2> QED BY <2>8, <2>9, BeginsWithDot
<1> QED BY <1>5, <1>6
-----------------------------------------------------------------------------
(* Parts put together again: what folds over them give. *)

\* f gives the concatenations of the first up to n parts.
Concatenates(f, s, n) == f = [i \in 1..n |-> IF i = 1 THEN s[i] ELSE f[i - 1] \o s[i]]

\* The concatenations of the first n parts exist.
LEMMA ConcatenationExists ==
  ASSUME NEW s, Len(s) \in Nat
  PROVE  \E f : Concatenates(f, s, Len(s))
<1> DEFINE S == {n \in Nat : ~\E f : Concatenates(f, s, n)}
<1>1. ASSUME S # {} PROVE FALSE
  <2>1. PICK n \in S : \A y \in S : n <= y
    BY <1>1, MinLeast
  <2>2. Concatenates([i \in 1..0 |-> <<>>], s, 0)
    BY DEF Concatenates
  <2>3. n # 0
    BY <2>1, <2>2
  <2>4. n - 1 \in Nat /\ n - 1 \notin S
    BY <2>1, <2>3
  <2>5. PICK f : Concatenates(f, s, n - 1)
    BY <2>4
  <2> DEFINE g == [i \in 1..n |-> IF i < n THEN f[i] ELSE IF n = 1 THEN s[n] ELSE f[n - 1] \o s[n]]
  <2>6. \A i \in 1..n : g[i] = IF i = 1 THEN s[i] ELSE g[i - 1] \o s[i]
    <3> SUFFICES ASSUME NEW i \in 1..n PROVE g[i] = IF i = 1 THEN s[i] ELSE g[i - 1] \o s[i]
      OBVIOUS
    <3>1. CASE i < n
      <4>1. i \in 1..(n - 1) /\ f[i] = IF i = 1 THEN s[i] ELSE f[i - 1] \o s[i]
        <5>1. i \in 1..(n - 1)
          BY <2>1, <2>4, <3>1
        <5>2. f = [k \in 1..(n - 1) |-> IF k = 1 THEN s[k] ELSE f[k - 1] \o s[k]]
          BY <2>5, Zenon DEF Concatenates
        <5> QED BY <5>1, <5>2, Zenon
      <4>2. g[i] = f[i] /\ (i # 1 => g[i - 1] = f[i - 1])
        BY <2>1, <3>1
      <4> QED BY <4>1, <4>2
    <3>2. CASE i = n
      BY <2>1, <3>2
    <3> QED BY <2>1, <3>1, <3>2
  <2>7. g = [i \in 1..n |-> IF i = 1 THEN s[i] ELSE g[i - 1] \o s[i]]
    BY <2>6
  <2>8. Concatenates(g, s, n)
    <3> HIDE DEF g
    <3> QED BY <2>7 DEF Concatenates
  <2> QED BY <2>1, <2>8
<1>2. Len(s) \notin S
  BY <1>1
<1> QED BY <1>2

LEMMA FlattenSeqIs ==
  ASSUME NEW s, Len(s) \in Nat, Len(s) # 0
  PROVE  \E f : Concatenates(f, s, Len(s)) /\ FlattenSeq(s) = f[Len(s)]
<1>1. FlattenSeq(s) = (CHOOSE f : Concatenates(f, s, Len(s)))[Len(s)]
  BY DEF FlattenSeq, Concatenates
<1> QED BY <1>1, ConcatenationExists, Zenon

Join(x, y) == x \o (IF x # <<>> THEN <<Dot>> ELSE <<>>) \o y

\* f gives what str makes of the parts at some places.
Prints(f, a, places) ==
  f = [s \in SUBSET places |-> IF s = {} THEN <<>> ELSE Join(f[s \ {Max(s)}], a[Max(s)])]

LEMMA MaxGreatest ==
  ASSUME NEW n \in Nat, NEW s \in SUBSET (1..(n + 1)), n + 1 \in s
  PROVE  Max(s) = n + 1 /\ s \ {Max(s)} \subseteq 1..n
<1>1. \E x \in s : \A y \in s : x >= y
  OBVIOUS
<1>2. Max(s) \in s /\ \A y \in s : Max(s) >= y
  BY <1>1, Zenon DEF Max
<1>3. Max(s) \in 1..(n + 1) /\ Max(s) >= n + 1
  BY <1>2
<1>4. Max(s) = n + 1
  BY <1>3
<1>5. ASSUME NEW x \in s, x # n + 1 PROVE x \in 1..n
  <2>1. x \in 1..(n + 1)
    OBVIOUS
  <2> QED BY <1>5, <2>1
<1> QED BY <1>4, <1>5

LEMMA PrintingExists ==
  ASSUME NEW a, NEW m \in Nat
  PROVE  \E f : Prints(f, a, 1..m)
<1> DEFINE S == {n \in Nat : ~\E f : Prints(f, a, 1..n)}
<1>1. ASSUME S # {} PROVE FALSE
  <2>1. PICK n \in S : \A y \in S : n <= y
    BY <1>1, MinLeast
  <2>2. Prints([s \in SUBSET {} |-> <<>>], a, {})
    BY DEF Prints
  <2>3. n # 0
    <3>1. 1..0 = {}
      OBVIOUS
    <3> QED BY <2>1, <2>2, <3>1
  <2>4. n - 1 \in Nat /\ n - 1 \notin S
    BY <2>1, <2>3
  <2>5. PICK f : Prints(f, a, 1..(n - 1))
    BY <2>4
  <2> DEFINE g == [s \in SUBSET (1..n) |->
                     IF s \subseteq 1..(n - 1) THEN f[s]
                     ELSE Join(f[s \ {Max(s)}], a[Max(s)])]
  <2>6. ASSUME NEW s \in SUBSET (1..n)
        PROVE  g[s] = IF s = {} THEN <<>> ELSE Join(g[s \ {Max(s)}], a[Max(s)])
    <3>1. CASE s \subseteq 1..(n - 1)
      <4>1. g[s] = f[s] /\ f[s] = IF s = {} THEN <<>> ELSE Join(f[s \ {Max(s)}], a[Max(s)])
        BY <2>5, <3>1 DEF Prints
      <4>2. s \ {Max(s)} \subseteq 1..(n - 1) /\ s \ {Max(s)} \in SUBSET (1..n)
        BY <3>1
      <4>3. g[s \ {Max(s)}] = f[s \ {Max(s)}]
        BY <4>2
      <4> HIDE DEF g
      <4> QED BY <4>1, <4>3
    <3>2. CASE ~(s \subseteq 1..(n - 1))
      <4>1. n \in s /\ (n - 1) + 1 = n
        BY <2>1, <2>4, <3>2
      <4>2. Max(s) = n /\ s \ {Max(s)} \subseteq 1..(n - 1)
        BY <2>4, <4>1, MaxGreatest
      <4>3. g[s \ {Max(s)}] = f[s \ {Max(s)}] /\ s # {}
        BY <4>1, <4>2
      <4>4. g[s] = Join(f[s \ {Max(s)}], a[Max(s)])
        BY <3>2
      <4> HIDE DEF g
      <4> QED BY <4>3, <4>4
    <3> QED BY <3>1, <3>2
  <2>7. g = [s \in SUBSET (1..n) |-> IF s = {} THEN <<>> ELSE Join(g[s \ {Max(s)}], a[Max(s)])]
    <3> HIDE DEF g
    <3>1. g = [s \in SUBSET (1..n) |-> g[s]]
      BY DEF g
    <3> QED BY <2>6, <3>1
  <2>8. Prints(g, a, 1..n)
    <3> HIDE DEF g
    <3> QED BY <2>7 DEF Prints
  <2> QED BY <2>1, <2>8
<1> QED BY <1>1

\* What str makes of the first parts.
Printed(g, a) ==
  /\ g[0] = <<>> /\ g[Len(a)] = Str(a)
  /\ \A i \in 1..Len(a) : g[i] = Join(g[i - 1], a[i])

LEMMA StrIs ==
  ASSUME NEW T, NEW a \in Seq(T)
  PROVE  \E g : Printed(g, a)
<1>1. Str(a) = (CHOOSE f : Prints(f, a, DOMAIN a))[DOMAIN a]
  BY DEF FoldLeft, MapThenFoldSet, Str, Prints, Join
<1>2. DOMAIN a = 1..Len(a) /\ Len(a) \in Nat
  OBVIOUS
<1>3. PICK f : Prints(f, a, 1..Len(a)) /\ Str(a) = f[1..Len(a)]
  BY <1>1, <1>2, PrintingExists, Zenon
<1> DEFINE g == [i \in 0..Len(a) |-> f[1..i]]
<1>4. g[0] = <<>> /\ g[Len(a)] = Str(a)
  <2>1. 1..0 = {} /\ f[{}] = <<>>
    BY <1>3 DEF Prints
  <2> QED BY <1>2, <1>3, <2>1
<1>5. ASSUME NEW i \in 1..Len(a) PROVE g[i] = Join(g[i - 1], a[i])
  <2>1. i \in 1..i /\ 1..i \in SUBSET (1..((i - 1) + 1)) /\ i - 1 \in Nat /\ (i - 1) + 1 = i
    OBVIOUS
  <2>2. Max(1..i) = i
    BY <2>1, MaxGreatest
  <2>3. (1..i) \ {i} = 1..(i - 1)
    OBVIOUS
  <2>6. 1..i # {} /\ 1..i \in SUBSET (1..Len(a))
    <3>1. \A k \in 1..i : k \in 1..Len(a)
      BY <1>2
    <3> QED BY <2>1, <3>1
  <2>4. f[1..i] = Join(f[1..(i - 1)], a[i])
    BY <1>3, <2>2, <2>3, <2>6 DEF Prints
  <2>5. i \in 0..Len(a) /\ i - 1 \in 0..Len(a)
    BY <1>2
  <2> QED BY <2>4, <2>5
<1> HIDE DEF g
<1>6. Printed(g, a)
  BY <1>4, <1>5 DEF Printed
<1> QED BY <1>6

\* A slice, the dot after it, and the slice after that are one slice.
LEMMA SlicesMeet ==
  ASSUME NEW text \in Seq(Characters), NEW m \in Nat \ {0}, NEW p \in Nat, NEW q \in Nat,
         m <= p, p < q, q <= Len(text) + 1, text[p] = Dot
  PROVE  SubSeq(text, m, p - 1) \o (<<Dot>> \o SubSeq(text, p + 1, q - 1)) = SubSeq(text, m, q - 1)
<1> DEFINE x == SubSeq(text, m, p - 1)
           y == SubSeq(text, p + 1, q - 1)
           z == SubSeq(text, m, q - 1)
<1>1. \A i \in 1..Len(text) : text[i] \in Characters
  BY ElementOfSeq
<1>2. /\ x \in Seq(Characters) /\ Len(x) = p - m
      /\ \A i \in 1..(p - m) : x[i] = text[m + i - 1]
  BY <1>1, SubSeqProperties
<1>3. /\ y \in Seq(Characters) /\ Len(y) = q - 1 - p
      /\ \A i \in 1..(q - 1 - p) : y[i] = text[p + i]
  BY <1>1, SubSeqProperties
<1>4. /\ z \in Seq(Characters) /\ Len(z) = q - m
      /\ \A i \in 1..(q - m) : z[i] = text[m + i - 1]
  BY <1>1, SubSeqProperties
<1> HIDE DEF x, y, z
<1>5. Dot \in Characters /\ <<Dot>> \in Seq(Characters)
  <2>1. p \in 1..Len(text)
    OBVIOUS
  <2> QED BY <1>1, <2>1
<1> DEFINE w == <<Dot>> \o y
           v == x \o w
<1>6. /\ w \in Seq(Characters) /\ Len(w) = q - p /\ w[1] = Dot
      /\ \A i \in 2..(q - p) : w[i] = text[p + i - 1]
  BY <1>3, <1>5
<1> HIDE DEF w
<1> HIDE DEF v
<1>7. /\ v \in Seq(Characters) /\ Len(v) = q - m
      /\ \A i \in 1..(q - m) : v[i] = IF i <= p - m THEN x[i] ELSE w[i - (p - m)]
  <2>1. /\ v \in Seq(Characters) /\ Len(v) = Len(x) + Len(w)
        /\ \A i \in 1..Len(x) + Len(w) : v[i] = IF i <= Len(x) THEN x[i] ELSE w[i - Len(x)]
    BY <1>2, <1>6, ConcatProperties, Zenon DEF v
  <2>2. Len(x) + Len(w) = q - m
    BY <1>2, <1>6
  <2> QED BY <1>2, <2>1, <2>2
<1>8. ASSUME NEW i \in 1..(q - m) PROVE v[i] = text[m + i - 1]
  <2>1. CASE i <= p - m
    BY <1>2, <1>7, <2>1
  <2>2. CASE i = p - m + 1
    <3>1. v[i] = w[1] /\ m + i - 1 = p
      BY <1>7, <2>2
    <3> QED BY <1>6, <3>1
  <2>3. CASE i > p - m + 1
    <3>1. i - (p - m) \in 2..(q - p) /\ p + (i - (p - m)) - 1 = m + i - 1
      BY <2>3
    <3>2. v[i] = w[i - (p - m)]
      BY <1>7, <2>3
    <3> QED BY <1>6, <3>1, <3>2
  <2> QED BY <2>1, <2>2, <2>3
<1>9. v = z
  BY <1>4, <1>7, <1>8, SeqEqual
<1> QED BY <1>9 DEF v, w, x, y, z

\* The i-th part of a text that is cut up to its end, and the dot after it.
IsPart(text, a, cut, i) ==
  /\ cut[i] \in Nat /\ cut[i - 1] \in Nat /\ cut[i - 1] < cut[i] /\ cut[i] <= Len(text) + 1
  /\ a[i] = SubSeq(text, cut[i - 1] + 1, cut[i] - 1)
  /\ Undotted(a[i])
  /\ i < Len(a) => text[cut[i]] = Dot

LEMMA CutPlaces ==
  ASSUME NEW text \in Seq(Characters), NEW a \in Seq(Seq(Characters)),
         NEW cut, Cut(text, a, Len(text) + 1, cut)
  PROVE  /\ Len(a) \in Nat /\ Len(a) # 0 /\ Len(text) \in Nat
         /\ cut[0] = 0 /\ cut[Len(a)] = Len(text) + 1
         /\ \A i \in 1..Len(a) : IsPart(text, a, cut, i)
<1>1. Len(a) \in Nat /\ Len(text) \in Nat
  OBVIOUS
<1>2. Len(a) # 0
  BY <1>1 DEF Cut
<1>3. ASSUME NEW i \in 1..Len(a) PROVE IsPart(text, a, cut, i)
  <2> DEFINE end == Len(text) + 1
  <2>1. end \in Nat /\ end <= Len(text) + 1 /\ Cut(text, a, end, cut)
    BY <1>1
  <2> HIDE DEF end
  <2>2. IsSlice(text, a, end, cut, i)
    BY <2>1, Slice
  <2>3. a[i] = SubSeq(text, cut[i - 1] + 1, cut[i] - 1)
    BY Zenon DEF Cut
  <2>4. /\ cut[i] \in Nat /\ cut[i - 1] \in Nat /\ cut[i - 1] < cut[i] /\ cut[i] <= end
        /\ cut[i] <= Len(text) => text[cut[i]] = Dot
        /\ Undotted(a[i])
    BY <2>2, Zenon DEF IsSlice
  <2>5. i < Len(a) => cut[i] < end
    <3>1. i \in 0..Len(a) /\ Len(a) \in 0..Len(a)
      BY <1>1
    <3>2. i < Len(a) => cut[i] < cut[Len(a)]
      BY <3>1, Zenon DEF Cut
    <3> QED BY <3>2, Zenon DEF Cut, end
  <2>6. i < Len(a) => text[cut[i]] = Dot
    BY <1>1, <2>4, <2>5 DEF end
  <2> QED BY <1>1, <2>3, <2>4, <2>6, Zenon DEF IsPart, end
<1>4. cut[0] = 0 /\ cut[Len(a)] = Len(text) + 1
  BY Zenon DEF Cut
<1> QED BY <1>1, <1>2, <1>3, <1>4

\* The parts of a text, with dots between them, are the text again.
LEMMA JoinedIsText ==
  ASSUME NEW text \in Seq(Characters), NEW a \in Seq(Seq(Characters)),
         CutUpTo(text, a, Len(text) + 1)
  PROVE  Joined(a) = text
<1>1. PICK cut \in [0..Len(a) -> 0..(Len(text) + 1)] : Cut(text, a, Len(text) + 1, cut)
  BY CutShows
<1>2. /\ Len(a) \in Nat /\ Len(a) # 0 /\ Len(text) \in Nat
      /\ cut[0] = 0 /\ cut[Len(a)] = Len(text) + 1
      /\ \A i \in 1..Len(a) : IsPart(text, a, cut, i)
  BY <1>1, CutPlaces, Zenon
<1> DEFINE s == [i \in DOMAIN a |-> IF i = 1 THEN a[i] ELSE <<Dot>> \o a[i]]
<1>3. Len(s) = Len(a) /\ \A i \in 1..Len(a) : s[i] = IF i = 1 THEN a[i] ELSE <<Dot>> \o a[i]
  <2>1. DOMAIN s = 1..Len(a)
    OBVIOUS
  <2>2. DOMAIN a = 1..Len(a)
    OBVIOUS
  <2> QED BY <1>2, <2>1, <2>2
<1>11. Joined(a) = FlattenSeq(s)
  BY DEF Joined
<1> HIDE DEF s
<1>4. PICK f : Concatenates(f, s, Len(s)) /\ FlattenSeq(s) = f[Len(s)]
  BY <1>2, <1>3, FlattenSeqIs
<1>5. \A i \in 1..Len(a) : f[i] = IF i = 1 THEN a[1] ELSE f[i - 1] \o (<<Dot>> \o a[i])
  <2> SUFFICES ASSUME NEW i \in 1..Len(a)
               PROVE  f[i] = IF i = 1 THEN a[1] ELSE f[i - 1] \o (<<Dot>> \o a[i])
    OBVIOUS
  <2>2. f = [k \in 1..Len(a) |-> IF k = 1 THEN s[k] ELSE f[k - 1] \o s[k]]
    BY <1>3, <1>4, Zenon DEF Concatenates
  <2>3. f[i] = IF i = 1 THEN s[i] ELSE f[i - 1] \o s[i]
    BY <2>2, Zenon
  <2> QED BY <1>3, <2>3
<1> DEFINE Off == {i \in 1..Len(a) : f[i] # SubSeq(text, 1, cut[i] - 1)}
<1>6. ASSUME Off # {} PROVE FALSE
  <2>1. Off \subseteq Nat
    BY <1>2
  <2>2. PICK k \in Off : \A y \in Off : k <= y
    BY <1>6, <2>1, MinLeast
  <2>3. k \in 1..Len(a) /\ f[k] # SubSeq(text, 1, cut[k] - 1) /\ IsPart(text, a, cut, k)
    BY <1>2
  <2>4. CASE k = 1
    <3>1. cut[0] + 1 = 1 /\ k - 1 = 0
      BY <1>2, <2>4
    <3>2. a[1] = SubSeq(text, 1, cut[1] - 1)
      BY <2>3, <2>4, <3>1, Zenon DEF IsPart
    <3> QED BY <1>5, <2>3, <2>4, <3>2
  <2>5. CASE k # 1
    <3>1. k - 1 \in 1..Len(a) /\ k - 1 < k /\ k - 1 < Len(a) /\ ~(k <= k - 1)
      BY <1>2, <2>3, <2>5
    <3>2. k - 1 \notin Off
      BY <2>2, <3>1
    <3>3. f[k - 1] = SubSeq(text, 1, cut[k - 1] - 1)
      BY <3>1, <3>2
    <3>4. IsPart(text, a, cut, k - 1)
      BY <1>2, <3>1
    <3> DEFINE p == cut[k - 1]
               q == cut[k]
    <3>5. p \in Nat /\ p # 0 /\ q \in Nat /\ p < q /\ q <= Len(text) + 1 /\ text[p] = Dot
      <4>1. /\ cut[k - 1] \in Nat /\ cut[(k - 1) - 1] \in Nat /\ cut[(k - 1) - 1] < cut[k - 1]
            /\ text[cut[k - 1]] = Dot
        BY <3>1, <3>4, Zenon DEF IsPart
      <4>2. cut[k] \in Nat /\ cut[k - 1] < cut[k] /\ cut[k] <= Len(text) + 1
        BY <2>3, Zenon DEF IsPart
      <4> HIDE DEF p, q
      <4>3. p \in Nat /\ q \in Nat /\ p < q /\ q <= Len(text) + 1 /\ text[p] = Dot
        BY <4>1, <4>2, Zenon DEF p, q
      <4>4. p # 0
        BY <4>1 DEF p
      <4> QED BY <4>3, <4>4
    <3>6. a[k] = SubSeq(text, p + 1, q - 1)
      BY <2>3, Zenon DEF IsPart
    <3> HIDE DEF p, q
    <3>7. SubSeq(text, 1, p - 1) \o (<<Dot>> \o SubSeq(text, p + 1, q - 1)) = SubSeq(text, 1, q - 1)
      <4>1. 1 \in Nat \ {0} /\ 1 <= p
        BY <3>5
      <4> QED BY <3>5, <4>1, SlicesMeet
    <3>8. f[k] = f[k - 1] \o (<<Dot>> \o a[k])
      BY <1>5, <2>3, <2>5
    <3> QED BY <2>3, <3>3, <3>6, <3>7, <3>8, Zenon DEF p, q
  <2> QED BY <2>4, <2>5
<1>7. f[Len(a)] = SubSeq(text, 1, cut[Len(a)] - 1)
  <2>1. Len(a) \in 1..Len(a) /\ Len(a) \notin Off
    BY <1>2, <1>6
  <2> QED BY <2>1
<1>8. cut[Len(a)] - 1 = Len(text)
  BY <1>2
<1>9. SubSeq(text, 1, Len(text)) = text
  OBVIOUS
<1> QED BY <1>3, <1>4, <1>7, <1>8, <1>9, <1>11

\* What str has made of the first i parts: nothing, while these are empty, or
\* the text from its first character that is no dot.
Blank(text, cut, g, i) ==
  /\ g[i] = <<>> /\ cut[i] = i
  /\ \A k \in 1..i : k <= Len(text) => text[k] = Dot

BegunAt(text, cut, g, i, dots) ==
  /\ dots + 1 < cut[i] /\ text[dots + 1] # Dot
  /\ \A k \in 1..dots : text[k] = Dot
  /\ g[i] = SubSeq(text, dots + 1, cut[i] - 1)

StrUpto(text, cut, g, i) ==
  Blank(text, cut, g, i) \/ \E dots \in Nat : BegunAt(text, cut, g, i, dots)

LEMMA Regrouped ==
  ASSUME NEW s \in Seq(Characters), NEW t \in Seq(Characters), NEW u \in Seq(Characters)
  PROVE  (s \o t) \o u = s \o (t \o u)
<1>1. /\ s \o t \in Seq(Characters) /\ t \o u \in Seq(Characters)
      /\ Len(s \o t) = Len(s) + Len(t) /\ Len(t \o u) = Len(t) + Len(u)
      /\ (s \o t) \o u \in Seq(Characters) /\ s \o (t \o u) \in Seq(Characters)
  OBVIOUS
<1>2. Len((s \o t) \o u) = Len(s \o (t \o u))
  BY <1>1
<1>3. \A i \in 1..Len((s \o t) \o u) : ((s \o t) \o u)[i] = (s \o (t \o u))[i]
  BY <1>1
<1> QED BY <1>1, <1>2, <1>3, SeqEqual

LEMMA StrGrows ==
  ASSUME NEW text \in Seq(Characters), NEW a \in Seq(Seq(Characters)), NEW cut,
         Cut(text, a, Len(text) + 1, cut), NEW g, Printed(g, a),
         NEW i \in 1..Len(a), StrUpto(text, cut, g, i - 1)
  PROVE  StrUpto(text, cut, g, i)
<1>1. /\ Len(a) \in Nat /\ Len(a) # 0 /\ Len(text) \in Nat
      /\ cut[0] = 0 /\ cut[Len(a)] = Len(text) + 1
      /\ IsPart(text, a, cut, i) /\ (i # 1 => IsPart(text, a, cut, i - 1))
  <2>1. i # 1 => i - 1 \in 1..Len(a)
    OBVIOUS
  <2> QED BY <2>1, CutPlaces
<1>2. g[i] = Join(g[i - 1], a[i])
  BY DEF Printed
<1> DEFINE p == cut[i - 1]
           q == cut[i]
<1>3. /\ p \in Nat /\ q \in Nat /\ p < q /\ q <= Len(text) + 1
      /\ a[i] = SubSeq(text, p + 1, q - 1) /\ Undotted(a[i])
      /\ i < Len(a) => text[q] = Dot
      /\ i = Len(a) => q = Len(text) + 1
      /\ i # 1 => text[p] = Dot
      /\ i = 1 => p = 0
  <2>1. i # 1 => i - 1 < Len(a)
    BY <1>1
  <2>2. i # 1 => text[p] = Dot
    BY <1>1, <2>1, Zenon DEF IsPart
  <2>3. i = 1 => p = 0
    BY <1>1
  <2>4. i = Len(a) => q = Len(text) + 1
    BY <1>1, Zenon
  <2> QED BY <1>1, <2>2, <2>3, <2>4, Zenon DEF IsPart
<1> HIDE DEF p, q
<1>4. /\ a[i] \in Seq(Characters) /\ Len(a[i]) = q - 1 - p
      /\ \A k \in (p + 1)..(q - 1) : text[k] # Dot
  <2> DEFINE y == SubSeq(text, p + 1, q - 1)
  <2>1. /\ y \in Seq(Characters) /\ Len(y) = q - 1 - p
        /\ Undotted(y) <=> \A k \in (p + 1)..(q - 1) : text[k] # Dot
    BY <1>3, UndottedSlice, Zenon
  <2>2. y = a[i] /\ Undotted(y)
    BY <1>3
  <2> QED BY <2>1, <2>2, Zenon
<1>5. CASE Blank(text, cut, g, i - 1)
  <2>1. p = i - 1 /\ g[i - 1] = <<>> /\ \A k \in 1..(i - 1) : k <= Len(text) => text[k] = Dot
    BY <1>5, Zenon DEF Blank, p
  <2>2. g[i] = a[i]
    <3>1. g[i] = <<>> \o <<>> \o a[i]
      BY <1>2, <2>1, Zenon DEF Join
    <3> QED BY <1>4, <3>1
  <2>3. CASE q = i
    <3>1. a[i] = <<>>
      BY <1>4, <2>1, <2>3
    <3>2. i <= Len(text) => text[i] = Dot
      BY <1>1, <1>3, <2>3
    <3>3. \A k \in 1..i : k <= Len(text) => text[k] = Dot
      BY <2>1, <3>2
    <3>4. cut[i] = i
      BY <2>3 DEF q
    <3> QED BY <2>2, <3>1, <3>3, <3>4, Zenon DEF StrUpto, Blank
  <2>4. CASE q # i
    <3>1. i - 1 \in Nat /\ (i - 1) + 1 < q /\ text[(i - 1) + 1] # Dot
      BY <1>3, <1>4, <2>1, <2>4
    <3>2. \A k \in 1..(i - 1) : text[k] = Dot
      BY <1>1, <1>3, <2>1
    <3>3. g[i] = SubSeq(text, (i - 1) + 1, q - 1)
      BY <1>3, <2>1, <2>2
    <3> QED BY <3>1, <3>2, <3>3, Zenon DEF StrUpto, BegunAt, q
  <2> QED BY <2>3, <2>4
<1>6. ASSUME NEW dots \in Nat, BegunAt(text, cut, g, i - 1, dots) PROVE StrUpto(text, cut, g, i)
  <2> DEFINE x == g[i - 1]
             m == dots + 1
  <2>1. /\ dots + 1 < p /\ text[dots + 1] # Dot /\ \A k \in 1..dots : text[k] = Dot
        /\ x = SubSeq(text, m, p - 1)
    BY <1>6, Zenon DEF BegunAt, p
  <2>2. i # 1 /\ text[p] = Dot
    BY <1>3, <2>1
  <2>3. x \in Seq(Characters) /\ Len(x) = p - 1 - dots
    BY <1>1, <1>3, <2>1, UndottedSlice
  <2> HIDE DEF x, m
  <2>4. x # <<>>
    <3>1. Len(x) # 0
      BY <2>1, <2>3, <1>3
    <3> QED BY <3>1
  <2>5. Dot \in Characters /\ <<Dot>> \in Seq(Characters)
    <3>1. p \in 1..Len(text)
      BY <1>1, <1>3, <2>1
    <3>2. text[p] \in Characters
      BY <3>1, ElementOfSeq
    <3> QED BY <2>2, <3>2
  <2>6. g[i] = x \o (<<Dot>> \o a[i])
    <3>1. g[i] = x \o <<Dot>> \o a[i]
      BY <1>2, <2>4, Zenon DEF Join, x
    <3>2. \A s, t, u \in Seq(Characters) : (s \o t) \o u = s \o (t \o u)
      BY Regrouped
    <3>3. x \in Seq(Characters) /\ a[i] \in Seq(Characters)
      BY <1>4, <2>3
    <3>4. (x \o <<Dot>>) \o a[i] = x \o (<<Dot>> \o a[i])
      BY <2>5, <3>2, <3>3, Zenon
    <3> QED BY <3>1, <3>4
  <2>7. x \o (<<Dot>> \o a[i]) = SubSeq(text, m, q - 1)
    <3>1. m \in Nat \ {0} /\ m <= p
      BY <1>3, <2>1 DEF m
    <3>2. SubSeq(text, m, p - 1) \o (<<Dot>> \o SubSeq(text, p + 1, q - 1)) = SubSeq(text, m, q - 1)
      BY <1>3, <2>2, <3>1, SlicesMeet
    <3> QED BY <1>3, <2>1, <3>2
  <2>8. dots + 1 < q
    BY <1>3, <2>1
  <2> QED BY <2>1, <2>6, <2>7, <2>8, Zenon DEF StrUpto, BegunAt, m, q
<1> QED BY <1>5, <1>6, Zenon DEF StrUpto

\* A text is printed without the dots that it begins with.
LEMMA StrIsText ==
  ASSUME NEW text \in Seq(Characters), NEW a \in Seq(Seq(Characters)),
         CutUpTo(text, a, Len(text) + 1)
  PROVE  \E dots \in 0..Len(text) :
           /\ \A i \in 1..dots : text[i] = Dot
           /\ Str(a) = SubSeq(text, dots + 1, Len(text))
           /\ Str(a) # <<>> => Head(Str(a)) # Dot
<1>1. PICK cut \in [0..Len(a) -> 0..(Len(text) + 1)] : Cut(text, a, Len(text) + 1, cut)
  BY CutShows
<1>2. /\ Len(a) \in Nat /\ Len(a) # 0 /\ Len(text) \in Nat
      /\ cut[0] = 0 /\ cut[Len(a)] = Len(text) + 1
  BY <1>1, CutPlaces, Zenon
<1>3. PICK g : Printed(g, a)
  BY StrIs
<1>4. StrUpto(text, cut, g, 0)
  <2>1. g[0] = <<>>
    BY <1>3, Zenon DEF Printed
  <2> QED BY <1>2, <2>1 DEF StrUpto, Blank
<1> DEFINE Off == {i \in 0..Len(a) : ~StrUpto(text, cut, g, i)}
<1>5. ASSUME Off # {} PROVE FALSE
  <2>1. Off \subseteq Nat
    BY <1>2
  <2>2. PICK k \in Off : \A y \in Off : k <= y
    BY <1>5, <2>1, MinLeast
  <2>3. k \in 1..Len(a) /\ ~StrUpto(text, cut, g, k)
    BY <1>4
  <2>4. k - 1 \in 0..Len(a) /\ ~(k <= k - 1)
    BY <2>3
  <2>5. k - 1 \notin Off
    BY <2>2, <2>4
  <2>6. StrUpto(text, cut, g, k - 1)
    BY <2>4, <2>5
  <2> QED BY <1>1, <1>3, <2>3, <2>6, StrGrows
<1>6. StrUpto(text, cut, g, Len(a))
  <2>1. Len(a) \in 0..Len(a)
    BY <1>2
  <2>2. Len(a) \notin Off
    BY <1>5, Zenon
  <2> QED BY <2>1, <2>2
<1>7. g[Len(a)] = Str(a)
  BY <1>3, Zenon DEF Printed
<1>8. CASE Blank(text, cut, g, Len(a))
  <2>1. Str(a) = <<>> /\ Len(a) = Len(text) + 1 /\ \A k \in 1..Len(a) : k <= Len(text) => text[k] = Dot
    BY <1>2, <1>7, <1>8, Zenon DEF Blank
  <2>2. \A k \in 1..Len(text) : text[k] = Dot
    BY <1>2, <2>1
  <2>3. SubSeq(text, Len(text) + 1, Len(text)) = <<>>
    BY <1>2
  <2>4. Len(text) \in 0..Len(text)
    BY <1>2
  <2> QED BY <2>1, <2>2, <2>3, <2>4
<1>9. ASSUME NEW dots \in Nat, BegunAt(text, cut, g, Len(a), dots)
      PROVE  /\ dots \in 0..Len(text) /\ \A i \in 1..dots : text[i] = Dot
             /\ Str(a) = SubSeq(text, dots + 1, Len(text))
             /\ Str(a) # <<>> => Head(Str(a)) # Dot
  <2>1. /\ dots + 1 < Len(text) + 1 /\ text[dots + 1] # Dot
        /\ \A k \in 1..dots : text[k] = Dot
        /\ Str(a) = SubSeq(text, dots + 1, (Len(text) + 1) - 1)
    BY <1>2, <1>7, <1>9, Zenon DEF BegunAt
  <2>2. Str(a) = SubSeq(text, dots + 1, Len(text))
    BY <1>2, <2>1
  <2>3. Head(SubSeq(text, dots + 1, Len(text))) = text[dots + 1]
    BY <1>2, <2>1
  <2> QED BY <1>2, <2>1, <2>2, <2>3
<1> QED BY <1>6, <1>8, <1>9, Zenon DEF StrUpto

-----------------------------------------------------------------------------
(* NestedIInv. *)

LEMMA FirstOfTwo ==
  ASSUME NEW S, NEW a \in S, NEW b \in S PROVE SubSeq(<<a, b>>, 1, 1) = <<a>>
<1> DEFINE two == <<a, b>>
           one == <<a>>
<1>1. two \in Seq(S) /\ Len(two) = 2 /\ two[1] = a
  OBVIOUS
<1>2. one \in Seq(S) /\ Len(one) = 1 /\ one[1] = a
  OBVIOUS
<1> DEFINE first == SubSeq(two, 1, 1)
<1> HIDE DEF one, two
<1>3. first \in Seq(S) /\ Len(first) = 1 /\ first[1] = a
  BY <1>1
<1> HIDE DEF first
<1>4. first = one
  BY <1>2, <1>3, SeqEqual
<1> QED BY <1>4 DEF first, one, two

\* One coroutine runs, or both do; and a resumed one that comes back.
LEMMA RunningStacks ==
  /\ Len(<<>>) = 0 /\ Len(<<"in_namespace">>) = 1 /\ Len(<<"in_namespace", "enumerate">>) = 2
  /\ <<"in_namespace">> # <<>>
  /\ <<"in_namespace", "enumerate">> # <<>>
  /\ <<"in_namespace">> # <<"in_namespace", "enumerate">>
  /\ SubSeq(<<"in_namespace">>, 1, 0) = <<>>
  /\ SubSeq(<<"in_namespace", "enumerate">>, 1, 1) = <<"in_namespace">>
<1>1. Len(<<>>) = 0 /\ Len(<<"in_namespace">>) = 1 /\ Len(<<"in_namespace", "enumerate">>) = 2
  OBVIOUS
<1>2. SubSeq(<<"in_namespace">>, 1, 0) = <<>>
  OBVIOUS
<1>3. SubSeq(<<"in_namespace", "enumerate">>, 1, 1) = <<"in_namespace">>
  <2> DEFINE S == {"in_namespace", "enumerate"}
  <2>1. "in_namespace" \in S /\ "enumerate" \in S
    OBVIOUS
  <2> HIDE DEF S
  <2> QED BY <2>1, FirstOfTwo, Zenon
<1> QED BY <1>1, <1>2, <1>3

LEMMA NestedIInvInit == WalkInit => NestedIInv
<1> SUFFICES ASSUME WalkInit PROVE NestedIInv
  OBVIOUS
<1> USE DEF WalkInit, Init
<1>1. WalkTypeOK
  <2>1. TypeOK
    BY MaxEntriesAssumption DEF TypeOK, Live
  <2> QED BY <2>1 DEF WalkTypeOK
<1>2. Nested /\ NeverCrashes
  BY DEF Nested, Loops, NeverCrashes, Live
<1>3. Suspended
  BY DEF Suspended, AtElement, Client
<1>4. ThrowPropagates /\ CrashesAtEmpty
  BY DEF ThrowPropagates, CrashesAtEmpty
<1>5. Behind /\ SeesInOrder
  BY DEF Behind, SeesInOrder
<1> QED BY <1>1, <1>2, <1>3, <1>4, <1>5 DEF NestedIInv

LEMMA ParserKeeps ==
  ASSUME NestedIInv, ParsePart \/ ParseAsked
  PROVE  NestedIInv' /\ UNCHANGED vars
<1>1. UNCHANGED <<frames, module, pos, passed, running, loop, seen>>
  BY DEF ParsePart, ParseAsked
<1>2. WalkTypeOK' /\ Nested' /\ NeverCrashes'
  BY <1>1 DEF NestedIInv, WalkTypeOK, TypeOK, Nested, Loops, NeverCrashes, frames, module
<1>3. Suspended' /\ ThrowPropagates' /\ CrashesAtEmpty'
  BY <1>1 DEF NestedIInv, Suspended, AtElement, Client, ThrowPropagates, CrashesAtEmpty, Fits, HasText, Text, frames, module
<1>4. Behind' /\ SeesInOrder'
  BY <1>1 DEF NestedIInv, Behind, Client, SeesInOrder, frames
<1> QED BY <1>1, <1>2, <1>3, <1>4 DEF NestedIInv, frames, vars

LEMMA EnterKeeps == ASSUME NestedIInv, Enter PROVE NestedIInv' /\ LoopNext
<1>1. LoopsInv /\ Call("client", "in_namespace")
  BY DEF NestedIInv, WalkTypeOK, LoopsInv, Enter
<1>2. /\ LoopNext /\ LoopsInv'
      /\ GoesTo("in_namespace", "start") /\ UNCHANGED <<raised, yields>>
  BY <1>1, CallLoops DEF LoopPairs
<1>3. /\ loop = "before" /\ loop' = "in" /\ running = <<>>
      /\ UNCHANGED <<module, pos, passed, running, seen>>
  BY DEF Enter, Client
<1>4. WalkTypeOK'
  BY <1>2, <1>3 DEF LoopsInv, NestedIInv, WalkTypeOK, module
<1>5. state'["in_namespace"] = "start" /\ state'["enumerate"] = "unmade"
  BY <1>2, <1>3 DEF NestedIInv, WalkTypeOK, TypeOK, Suspended, GoesTo
<1>6. Suspended' /\ ThrowPropagates'
  BY <1>3, <1>5 DEF Suspended, AtElement, Client, ThrowPropagates
<1>7. CrashesAtEmpty'
  BY <1>3 DEF NestedIInv, CrashesAtEmpty, Fits, HasText, Text, module
<1>8. Behind' /\ SeesInOrder'
  BY <1>2, <1>3 DEF NestedIInv, Behind, Client, SeesInOrder
<1> QED BY <1>2, <1>4, <1>6, <1>7, <1>8 DEF NestedIInv, LoopsInv

\* A body is resumed, or the client leaves the loop.
LEMMA SwitchKeeps ==
  ASSUME NestedIInv, Continue \/ ContinueInner \/ Leave
  PROVE  NestedIInv' /\ UNCHANGED vars
<1>1. UNCHANGED <<frames, module, pos, passed, seen>>
  BY DEF Continue, ContinueInner, Leave
<1>2. running' \in {running, <<"in_namespace">>, <<"in_namespace", "enumerate">>} /\ loop' \in {loop, "leaving"}
  BY DEF Continue, ContinueInner, Leave
<1>3. WalkTypeOK' /\ Nested' /\ NeverCrashes'
  BY <1>1, <1>2 DEF NestedIInv, WalkTypeOK, TypeOK, Nested, Loops, NeverCrashes, frames, module
<1>4. Suspended'
  <2>1. state' = state /\ passed' = passed /\ pos' = pos
    BY <1>1 DEF frames
  <2>2. CASE Continue
    BY <2>1, <2>2, RunningStacks DEF NestedIInv, Suspended, AtElement, Client, Continue
  <2>3. CASE ContinueInner
    BY <2>1, <2>3, RunningStacks DEF NestedIInv, Suspended, AtElement, Client, OuterRuns, ContinueInner
  <2>4. CASE Leave
    BY <2>1, <2>4, RunningStacks DEF NestedIInv, Suspended, AtElement, Client, Leave
  <2> QED BY <2>2, <2>3, <2>4
<1>5. loop \in {"in"} /\ loop' \in {"in", "leaving"}
  BY DEF Continue, ContinueInner, Leave, Client, OuterRuns
<1>6. ThrowPropagates' /\ CrashesAtEmpty'
  BY <1>1, <1>5 DEF NestedIInv, ThrowPropagates, CrashesAtEmpty, Fits, HasText, Text, frames, module
<1>7. Behind' /\ SeesInOrder'
  <2>1. running' = running \/ Len(seen) = yields["in_namespace"]
    BY RunningStacks DEF NestedIInv, Behind, Client, OuterRuns, Continue, ContinueInner, Leave
  <2> QED BY <1>1, <2>1 DEF NestedIInv, Behind, Client, SeesInOrder, frames
<1> QED BY <1>1, <1>3, <1>4, <1>6, <1>7 DEF NestedIInv, frames, vars

LEMMA LoopBodyKeeps == ASSUME NestedIInv, LoopBody PROVE NestedIInv' /\ LoopNext
<1>1. /\ Client /\ loop = "in" /\ state["in_namespace"] = "yielded"
      /\ Len(seen) < yields["in_namespace"] /\ Read("client")
      /\ seen' = Append(seen, pos)
      /\ UNCHANGED <<module, pos, passed, running, loop>>
  BY DEF LoopBody
<1>2. LoopNext /\ LoopsInv' /\ UNCHANGED <<state, raised, yields>>
  BY <1>1, ReadLoops DEF NestedIInv, WalkTypeOK, LoopsInv
<1>3. pos \in Nat /\ passed \in Nat /\ passed = pos /\ seen \in Seq(Nat)
  BY <1>1, EntriesTyped DEF NestedIInv, WalkTypeOK, Suspended, AtElement
<1>4. WalkTypeOK'
  BY <1>1, <1>2, <1>3 DEF LoopsInv, NestedIInv, WalkTypeOK, module
<1>5. Suspended' /\ ThrowPropagates' /\ CrashesAtEmpty'
  BY <1>1, <1>2 DEF NestedIInv, Suspended, AtElement, Client, ThrowPropagates, CrashesAtEmpty, Fits, HasText, Text, module
<1>6. Len(seen) + 1 = yields["in_namespace"] /\ \A i \in DOMAIN seen : seen[i] < passed
  BY <1>1 DEF NestedIInv, Behind
<1>7. Len(seen') = Len(seen) + 1 /\ \A i \in DOMAIN seen' : seen'[i] = IF i \in DOMAIN seen THEN seen[i] ELSE pos
  BY <1>1, <1>3
<1>8. Behind'
  BY <1>1, <1>2, <1>3, <1>6, <1>7 DEF Behind, Client
<1>9. SeesInOrder'
  BY <1>1, <1>3, <1>6, <1>7 DEF NestedIInv, SeesInOrder
<1> QED BY <1>2, <1>4, <1>5, <1>8, <1>9 DEF NestedIInv, LoopsInv

LEMMA DestroyInnerKeeps == ASSUME NestedIInv, DestroyInner \/ LeaveInner PROVE NestedIInv' /\ LoopNext
<1>1. LoopsInv /\ Destroy("nested") /\ UNCHANGED <<module, pos, passed, running, loop, seen>>
  BY DEF NestedIInv, WalkTypeOK, LoopsInv, DestroyInner, LeaveInner
<1>2. /\ LoopNext /\ LoopsInv' /\ state["enumerate"] \in Live
      /\ GoesTo("enumerate", "freed") /\ UNCHANGED <<raised, yields>>
  BY <1>1, DestroyLoops DEF LoopPairs
<1>3. WalkTypeOK'
  BY <1>1, <1>2 DEF LoopsInv, NestedIInv, WalkTypeOK, module
<1>4. state'["in_namespace"] = state["in_namespace"] /\ state'["enumerate"] = "freed"
  BY <1>2 DEF NestedIInv, WalkTypeOK, TypeOK, GoesTo
<1>5. Suspended'
  <2>1. CASE DestroyInner
    BY <1>1, <1>4, <2>1, RunningStacks DEF NestedIInv, Suspended, AtElement, Client, DestroyInner
  <2>2. CASE LeaveInner
    BY <1>1, <1>4, <2>2, RunningStacks DEF NestedIInv, Suspended, AtElement, Client, OuterRuns, LeaveInner
  <2> QED BY <2>1, <2>2
<1>6. ThrowPropagates' /\ CrashesAtEmpty'
  BY <1>1, <1>2, <1>4 DEF NestedIInv, ThrowPropagates, CrashesAtEmpty, Fits, HasText, Text, module
<1>7. Behind' /\ SeesInOrder'
  BY <1>1, <1>2 DEF NestedIInv, Behind, Client, SeesInOrder
<1> QED BY <1>2, <1>3, <1>5, <1>6, <1>7 DEF NestedIInv, LoopsInv

LEMMA DestroyOuterKeeps == ASSUME NestedIInv, DestroyOuter PROVE NestedIInv' /\ LoopNext
<1>1. /\ LoopsInv /\ Destroy("client") /\ UNCHANGED <<module, pos, passed, running, seen>>
      /\ loop = "leaving" /\ loop' = "after" /\ Client /\ held["nested"] = "gone"
  BY DEF NestedIInv, WalkTypeOK, LoopsInv, DestroyOuter
<1>2. /\ LoopNext /\ LoopsInv'
      /\ GoesTo("in_namespace", "freed") /\ UNCHANGED <<raised, yields>>
  BY <1>1, DestroyLoops DEF LoopPairs
<1>3. WalkTypeOK'
  BY <1>1, <1>2 DEF LoopsInv, NestedIInv, WalkTypeOK, module
<1>4. state'["in_namespace"] = "freed" /\ state'["enumerate"] = "freed"
  BY <1>1, <1>2 DEF NestedIInv, WalkTypeOK, TypeOK, GoesTo, Suspended, Nested, Loops, Live
<1>5. Suspended'
  BY <1>1, <1>4 DEF Suspended, AtElement, Client
<1>6. ThrowPropagates' /\ CrashesAtEmpty'
  BY <1>1, <1>4 DEF NestedIInv, ThrowPropagates, CrashesAtEmpty, Fits, HasText, Text, module
<1>7. Behind' /\ SeesInOrder'
  BY <1>1, <1>2 DEF NestedIInv, Behind, Client, SeesInOrder
<1> QED BY <1>2, <1>3, <1>5, <1>6, <1>7 DEF NestedIInv, LoopsInv

LEMMA CallEnumerateKeeps == ASSUME NestedIInv, CallEnumerate PROVE NestedIInv' /\ LoopNext
<1>1. /\ LoopsInv /\ Call("nested", "enumerate") /\ OuterRuns
      /\ UNCHANGED <<module, pos, passed, running, loop, seen>>
  BY DEF NestedIInv, WalkTypeOK, LoopsInv, CallEnumerate
<1>2. /\ LoopNext /\ LoopsInv'
      /\ GoesTo("enumerate", "start") /\ UNCHANGED <<raised, yields>>
  BY <1>1, CallLoops DEF LoopPairs
<1>3. WalkTypeOK'
  BY <1>1, <1>2 DEF LoopsInv, NestedIInv, WalkTypeOK, module
<1>4. state'["in_namespace"] = state["in_namespace"] /\ state'["enumerate"] = "start"
  BY <1>2 DEF NestedIInv, WalkTypeOK, TypeOK, GoesTo
<1>5. Suspended'
  BY <1>1, <1>4 DEF NestedIInv, Suspended, AtElement, Client, OuterRuns
<1>6. ThrowPropagates' /\ CrashesAtEmpty'
  BY <1>1, <1>2, <1>4 DEF NestedIInv, ThrowPropagates, CrashesAtEmpty, Fits, HasText, Text, module
<1>7. Behind' /\ SeesInOrder'
  BY <1>1, <1>2 DEF NestedIInv, Behind, Client, SeesInOrder
<1> QED BY <1>2, <1>3, <1>5, <1>6, <1>7 DEF NestedIInv, LoopsInv

\* A resumed coroutine comes back to the loop that resumed it.
LEMMA BackRunning ==
  ASSUME NEW owner, NEW frame, NEW st, Back(owner, frame, st)
  PROVE  /\ OuterRuns => running' = <<>>
         /\ InnerRuns => running' = <<"in_namespace">>
<1>1. ASSUME OuterRuns PROVE running' = <<>>
  <2>1. running = <<"in_namespace">> /\ Len(running) - 1 = 0
    BY <1>1, RunningStacks DEF OuterRuns
  <2> QED BY <2>1, RunningStacks, Zenon DEF Back
<1>2. ASSUME InnerRuns PROVE running' = <<"in_namespace">>
  <2>1. running = <<"in_namespace", "enumerate">> /\ Len(running) - 1 = 1
    BY <1>2, RunningStacks DEF InnerRuns
  <2> QED BY <2>1, RunningStacks, Zenon DEF Back
<1> QED BY <1>1, <1>2

LEMMA PassOnKeeps == ASSUME NestedIInv, PassOn PROVE NestedIInv' /\ LoopNext
<1>1. /\ OuterRuns /\ state["enumerate"] = "yielded" /\ passed # pos
      /\ Back("client", "in_namespace", "yielded")
      /\ passed' = pos /\ UNCHANGED <<module, pos, loop, seen>>
  BY DEF PassOn
<1>2. running # <<>> /\ loop = "in" /\ state["in_namespace"] \in {"start", "yielded"}
  BY <1>1, RunningStacks DEF NestedIInv, Suspended, OuterRuns
<1>3. LoopNext /\ LoopsInv' /\ ComesBack("client", "in_namespace", "yielded")
  BY <1>1, <1>2, BackLoops DEF LoopPairs, NestedIInv, WalkTypeOK, LoopsInv
<1>4. running' = <<>>
  BY <1>1, BackRunning
<1>5. pos \in Nat /\ passed \in Nat /\ passed < pos
  BY <1>1, EntriesTyped DEF NestedIInv, WalkTypeOK
<1>6. WalkTypeOK'
  BY <1>1, <1>3, <1>4, <1>5 DEF LoopsInv, NestedIInv, WalkTypeOK, module
<1>7. state'["in_namespace"] = "yielded" /\ state'["enumerate"] = "yielded"
  BY <1>1, <1>3 DEF NestedIInv, WalkTypeOK, TypeOK, ComesBack, GoesTo
<1>8. Suspended' /\ ThrowPropagates'
  BY <1>1, <1>2, <1>4, <1>7, RunningStacks DEF Suspended, AtElement, Client, ThrowPropagates
<1>9. CrashesAtEmpty'
  BY <1>1, <1>2 DEF NestedIInv, CrashesAtEmpty, Fits, HasText, Text, module
<1>10. Len(seen) = yields["in_namespace"] /\ \A i \in DOMAIN seen : seen[i] <= passed
  BY <1>2 DEF NestedIInv, Behind, Client
<1>11. yields'["in_namespace"] = Len(seen) + 1
  BY <1>3, <1>10 DEF ComesBack, NestedIInv, WalkTypeOK, TypeOK
<1>12. \A i \in DOMAIN seen : seen[i] < pos
  BY <1>5, <1>10 DEF NestedIInv, WalkTypeOK
<1>13. \A i \in DOMAIN seen : seen[i] <= pos
  BY <1>5, <1>10 DEF NestedIInv, WalkTypeOK
<1>14. Behind' /\ SeesInOrder'
  BY <1>1, <1>4, <1>11, <1>12, <1>13 DEF NestedIInv, Behind, Client, SeesInOrder
<1> QED BY <1>3, <1>6, <1>8, <1>9, <1>14 DEF NestedIInv, LoopsInv

LEMMA OuterEndsKeeps == ASSUME NestedIInv, OuterEnds PROVE NestedIInv' /\ LoopNext
<1>1. /\ OuterRuns /\ state["enumerate"] = "freed"
      /\ Back("client", "in_namespace", "ended")
      /\ status' = IF "enumerate" \in raised THEN "threw" ELSE "ok"
      /\ UNCHANGED <<module, pos, passed, loop, seen>>
  BY DEF OuterEnds
<1>2. running # <<>> /\ loop = "in" /\ state["in_namespace"] \in {"start", "yielded"}
  BY <1>1, RunningStacks DEF NestedIInv, Suspended, OuterRuns
<1>3. LoopNext /\ LoopsInv' /\ ComesBack("client", "in_namespace", "ended")
  BY <1>1, <1>2, BackLoops DEF LoopPairs, NestedIInv, WalkTypeOK, LoopsInv
<1>4. running' = <<>>
  BY <1>1, BackRunning
<1>5. WalkTypeOK'
  BY <1>1, <1>3, <1>4 DEF LoopsInv, NestedIInv, WalkTypeOK, module
<1>6. state'["in_namespace"] = "ended" /\ state'["enumerate"] = "freed"
  BY <1>1, <1>3 DEF NestedIInv, WalkTypeOK, TypeOK, ComesBack, GoesTo
<1>7. Suspended'
  BY <1>1, <1>2, <1>4, <1>6, RunningStacks DEF Suspended, AtElement, Client
<1>8. "in_namespace" \notin raised
  BY <1>2 DEF NestedIInv, Nested, Loops
<1>9. ThrowPropagates'
  BY <1>1, <1>3, <1>8 DEF ThrowPropagates, ComesBack
<1>10. CrashesAtEmpty'
  BY <1>1, <1>2 DEF NestedIInv, CrashesAtEmpty, Fits, HasText, Text, module
<1>11. Behind' /\ SeesInOrder'
  BY <1>1, <1>2, <1>3, <1>4 DEF NestedIInv, Behind, Client, SeesInOrder, ComesBack
<1> QED BY <1>3, <1>5, <1>7, <1>9, <1>10, <1>11 DEF NestedIInv, LoopsInv

LEMMA ReachKeeps == ASSUME NestedIInv, Reach PROVE NestedIInv' /\ UNCHANGED vars
<1>1. /\ InnerRuns /\ Fitting # {} /\ pos' = Min(Fitting)
      /\ loop' = IF TextArray(entries[pos']) = Null THEN "crashed" ELSE "in"
      /\ UNCHANGED <<frames, module, passed, running, seen>>
  BY DEF Reach, InnerRuns
<1>2. running = <<"in_namespace", "enumerate">> /\ loop = "in"
  BY <1>1 DEF InnerRuns
<1>3. Fitting \subseteq DOMAIN entries /\ Fitting \subseteq Nat /\ pos \in Nat
  BY EntriesTyped DEF Fitting, NestedIInv, WalkTypeOK
<1>4. pos' \in Fitting /\ \A k \in Fitting : pos' <= k
  BY <1>1, <1>3, MinLeast
<1>5. pos' \in DOMAIN entries /\ pos' > pos /\ Annotated(entries[pos']) # Null
  BY <1>4, Zenon DEF Fitting
<1>6. WalkTypeOK'
  <2>1. TypeOK'
    BY <1>1 DEF NestedIInv, WalkTypeOK, TypeOK, frames
  <2>2. pos' \in DOMAIN entries \cup {0} /\ passed \in 0..pos'
    BY <1>3, <1>4, <1>5 DEF NestedIInv, WalkTypeOK
  <2> QED BY <1>1, <2>1, <2>2 DEF NestedIInv, WalkTypeOK, module
<1>7. Nested' /\ NeverCrashes'
  BY <1>1 DEF NestedIInv, Nested, Loops, NeverCrashes, frames
<1>8. Suspended' /\ ThrowPropagates'
  BY <1>1, <1>2, RunningStacks DEF NestedIInv, Suspended, AtElement, Client, ThrowPropagates, frames
<1>9. CrashesAtEmpty'
  <2>1. Fits(pos') /\ (TextArray(entries[pos']) = Null <=> ~HasText(pos'))
    BY <1>5, EntryShape DEF NestedIInv
  <2>2. ASSUME NEW k \in 1..pos', k # pos', Fits(k) PROVE HasText(k)
    <3>1. CASE k \in 1..pos
      BY <1>2, <2>2, <3>1 DEF NestedIInv, CrashesAtEmpty
    <3>2. CASE k > pos
      <4>1. k \in DOMAIN entries
        BY <1>3, <1>4, <1>5 DEF NestedIInv, WalkTypeOK
      <4>2. k \in Fitting
        BY <2>2, <3>2, <4>1, EntryShape DEF Fitting, NestedIInv
      <4> QED BY <1>3, <1>4, <2>2, <4>2
    <3> QED BY <1>3, <3>1, <3>2
  <2>3. UNCHANGED entries
    BY <1>1 DEF module
  <2> QED BY <1>1, <2>1, <2>2, <2>3 DEF CrashesAtEmpty, Fits, HasText, Text
<1>10. Behind' /\ SeesInOrder'
  BY <1>1 DEF NestedIInv, Behind, Client, SeesInOrder, frames
<1> QED BY <1>1, <1>6, <1>7, <1>8, <1>9, <1>10 DEF NestedIInv, frames, vars

\* enumerate comes back to the loop of enumerate_in_namespace.
LEMMA InnerBackKeeps ==
  ASSUME NestedIInv, YieldNext \/ InnerEnds
  PROVE  NestedIInv' /\ LoopNext
<1>1. PICK st \in {"yielded", "ended"} : Back("nested", "enumerate", st)
  BY DEF YieldNext, InnerEnds
<1>2. InnerRuns /\ UNCHANGED <<module, pos, passed, loop, seen>>
  BY DEF YieldNext, InnerEnds
<1>3. /\ running # <<>> /\ loop = "in" /\ state["in_namespace"] \in {"start", "yielded"}
      /\ state["enumerate"] \in {"start", "yielded"}
  BY <1>2, RunningStacks DEF NestedIInv, Suspended, InnerRuns
<1>4. LoopNext /\ LoopsInv' /\ ComesBack("nested", "enumerate", st)
  BY <1>1, <1>3, BackLoops DEF LoopPairs, NestedIInv, WalkTypeOK, LoopsInv
<1>5. running' = <<"in_namespace">>
  BY <1>1, <1>2, BackRunning
<1>6. WalkTypeOK'
  BY <1>2, <1>4, <1>5 DEF LoopsInv, NestedIInv, WalkTypeOK, module
<1>7. state'["in_namespace"] = state["in_namespace"]
  BY <1>4 DEF NestedIInv, WalkTypeOK, TypeOK, ComesBack, GoesTo
<1>8. Suspended' /\ ThrowPropagates'
  BY <1>2, <1>3, <1>5, <1>7, RunningStacks DEF Suspended, AtElement, Client, ThrowPropagates
<1>9. CrashesAtEmpty'
  BY <1>2, <1>3 DEF NestedIInv, CrashesAtEmpty, Fits, HasText, Text, module
<1>10. yields'["in_namespace"] = yields["in_namespace"]
  BY <1>4 DEF ComesBack, NestedIInv, WalkTypeOK, TypeOK
<1>11. Behind' /\ SeesInOrder'
  BY <1>2, <1>3, <1>10 DEF NestedIInv, Behind, Client, SeesInOrder
<1> QED BY <1>4, <1>6, <1>8, <1>9, <1>11 DEF NestedIInv, LoopsInv
-----------------------------------------------------------------------------
\* Each step of the walk keeps NestedIInv, and is a step that the contract of a
\* loop allows, or none of the generators.
LEMMA NestedIInvStep == NestedIInv /\ [WalkNext]_walk => NestedIInv' /\ [LoopNext]_vars
<1> SUFFICES ASSUME NestedIInv, [WalkNext]_walk PROVE NestedIInv' /\ [LoopNext]_vars
  OBVIOUS
<1>1. CASE ParsePart \/ ParseAsked
  BY <1>1, ParserKeeps
<1>2. CASE Enter \/ LoopBody \/ DestroyInner \/ DestroyOuter
  BY <1>2, EnterKeeps, LoopBodyKeeps, DestroyInnerKeeps, DestroyOuterKeeps
<1>3. CASE Continue \/ ContinueInner \/ Leave
  BY <1>3, SwitchKeeps
<1>4. CASE CallEnumerate \/ PassOn \/ LeaveInner \/ OuterEnds
  BY <1>4, CallEnumerateKeeps, PassOnKeeps, DestroyInnerKeeps, OuterEndsKeeps
<1>5. CASE Reach \/ YieldNext \/ InnerEnds
  BY <1>5, ReachKeeps, InnerBackKeeps
<1>6. CASE UNCHANGED walk
  <2>1. UNCHANGED <<frames, module, pos, passed, running, loop, seen>>
    BY <1>6 DEF walk
  <2>2. WalkTypeOK' /\ Nested' /\ NeverCrashes'
    BY <2>1 DEF NestedIInv, WalkTypeOK, TypeOK, Nested, Loops, NeverCrashes, frames, module
  <2>3. Suspended' /\ ThrowPropagates' /\ CrashesAtEmpty'
    BY <2>1 DEF NestedIInv, Suspended, AtElement, Client, ThrowPropagates, CrashesAtEmpty, Fits, HasText, Text, frames, module
  <2>4. Behind' /\ SeesInOrder'
    BY <2>1 DEF NestedIInv, Behind, Client, SeesInOrder, frames
  <2> QED BY <2>1, <2>2, <2>3, <2>4 DEF NestedIInv, frames, vars
<1> QED BY <1>1, <1>2, <1>3, <1>4, <1>5, <1>6, Zenon DEF WalkNext

LEMMA NestedIInvAlways == WalkSpec => []NestedIInv
  BY NestedIInvInit, NestedIInvStep, PTL DEF WalkSpec

\* The two loops, of which one resumes the other's coroutine, keep the contract
\* of a loop over a generator in each step (annotation.tpp:29-53,
\* generator.hpp:82-130, 158-167).
THEOREM NestedLoopsKeepContract == WalkSpec => KeepsContract
<1>1. WalkInit => Init
  BY DEF WalkInit
<1> QED BY <1>1, NestedIInvInit, NestedIInvStep, PTL DEF WalkSpec, KeepsContract, LoopSpec

\* The element the client reads lives (annotation.tpp:42, 51-53).
THEOREM ElementStaysAlive == WalkSpec => []ElementAlive
<1>1. NestedIInv => ElementAlive
  BY DEF NestedIInv, Suspended, ElementAlive
<1> QED BY <1>1, NestedIInvAlways, PTL

\* The client meets each annotation once, in the order of the module
\* (annotation.tpp:31-44, 49-54).
THEOREM SeenInOrder == WalkSpec => []SeesInOrder
<1>1. NestedIInv => SeesInOrder
  BY DEF NestedIInv
<1> QED BY <1>1, NestedIInvAlways, PTL

\* The loop crashes at the first annotation that has an empty text, and only
\* there (annotation.tpp:36-42).
THEOREM EmptyTextCrashes == WalkSpec => []CrashesAtEmpty
<1>1. NestedIInv => CrashesAtEmpty
  BY DEF NestedIInv
<1> QED BY <1>1, NestedIInvAlways, PTL

\* However the loop was left, both frames are destroyed after it.
THEOREM NestedFramesFreed == WalkSpec => []NothingLeaks
<1>1. NestedIInv => NothingLeaks
  <2> SUFFICES ASSUME NestedIInv, loop = "after", NEW f \in DOMAIN state PROVE state[f] \notin Live
    BY DEF NothingLeaks
  <2>1. f \in {"enumerate", "in_namespace"}
    BY DEF NestedIInv, WalkTypeOK, TypeOK
  <2>2. state[f] = "freed"
    BY <2>1 DEF NestedIInv, Suspended
  <2> QED BY <2>2 DEF Live
<1> QED BY <1>1, NestedIInvAlways, PTL

\* An exception passes through both coroutines to the client, and there is no
\* other that it could get (annotation.tpp:49-54, generator.hpp:58, 113-120).
THEOREM ExceptionReachesClient == WalkSpec => []ThrowPropagates
<1>1. NestedIInv => ThrowPropagates
  BY DEF NestedIInv
<1> QED BY <1>1, NestedIInvAlways, PTL
-----------------------------------------------------------------------------
(* WalkIInv. *)

LEMMA AskedTyped ==
  ASSUME ParserTypeOK
  PROVE  /\ asked.by \in {"text", "parts"}
         /\ asked.by = "text" => asked.of \in Seq(Characters)
         /\ asked.by = "parts" => asked.of \in Seq(Seq(Characters))
  BY QuestionsAssumption DEF ParserTypeOK

\* What the body compares decides whether the text is below the namespace.
LEMMA BelowIsInNamespace ==
  ASSUME ParserTypeOK, Made, NEW text \in Seq(Characters),
         CutUpTo(text, parts, Len(text) + 1)
  PROVE  Below(text) <=> InNamespace(Current, ns)
<1>1. parts \in Seq(Seq(Characters)) /\ ns \in Seq(Seq(Characters)) /\ Current = parts
  BY DEF ParserTypeOK, Current
<1>2. (\E end \in 0..Len(text) : CutUpTo(text, ns, end)) <=> InNamespace(parts, ns)
  BY <1>1, PrefixOfParts
<1>3. CASE asked.by = "text"
  <2>1. asked.of \in Seq(Characters) /\ CutUpTo(asked.of, ns, Len(asked.of) + 1)
    BY <1>3, AskedTyped DEF Made
  <2>2. (\E end \in 0..Len(text) : CutUpTo(text, ns, end)) <=> IsPrefix(asked.of \o <<Dot>>, text)
    BY <1>1, <2>1, PrefixOfText
  <2> QED BY <1>1, <1>2, <1>3, <2>2 DEF Below
<1>4. CASE asked.by # "text"
  <2>1. ns = asked.of
    BY <1>4 DEF Made
  <2> QED BY <1>1, <1>2, <1>4, <2>1 DEF Below
<1> QED BY <1>3, <1>4

\* The text that is parsed.
LEMMA SourceTyped ==
  ASSUME NestedIInv, ParserTypeOK, Parsing, offset # 0
  PROVE  /\ Source \in Seq(Characters)
         /\ InnerRuns => Source = TextOf(pos) /\ Fits(pos) /\ HasText(pos) /\ pos \in DOMAIN entries
         /\ ~InnerRuns => Source = asked.of /\ loop = "before" /\ asked.by = "text"
<1>1. CASE InnerRuns
  <2>1. loop = "in" /\ pos # 0 /\ Fits(pos) /\ HasText(pos)
    BY <1>1 DEF Parsing, InnerRuns
  <2>2. pos \in DOMAIN entries
    BY <2>1 DEF NestedIInv, WalkTypeOK
  <2>3. TextArray(entries[pos]).text = TextOf(pos) /\ TextOf(pos) \in Seq(Characters)
    BY <2>1, <2>2, EntryShape DEF NestedIInv
  <2> QED BY <1>1, <2>1, <2>2, <2>3 DEF Source
<1>2. CASE ~InnerRuns
  <2>1. loop = "before" /\ asked.by = "text"
    BY <1>2 DEF Parsing
  <2> QED BY <1>2, <2>1, AskedTyped DEF Source
<1> QED BY <1>1, <1>2

\* While nothing is parsed that way, neither is the client's text.
LEMMA NoneParsed ==
  ASSUME NestedIInv, Parsing, ~InnerRuns, loop # "before"
  PROVE  offset = 0 /\ Made
  BY DEF Parsing

\* The part that a dot follows, or the last one.
LEMMA PartParsed ==
  ASSUME NestedIInv, ParserTypeOK, Parsing, offset # 0
  PROVE  /\ Dots # {} =>
              LET a == Append(parts, SubSeq(Source, offset, NextDot - 1))
              IN  /\ NextDot \in Nat /\ NextDot <= Len(Source)
                  /\ a \in Seq(Seq(Characters)) /\ CutUpTo(Source, a, NextDot)
         /\ Dots = {} =>
              Parsed \in Seq(Seq(Characters)) /\ CutUpTo(Source, Parsed, Len(Source) + 1)
<1> DEFINE end == offset - 1
<1>1. /\ Source \in Seq(Characters) /\ parts \in Seq(Seq(Characters))
      /\ end \in Nat /\ end + 1 = offset /\ end <= Len(Source) /\ Len(Source) \in Nat
      /\ CutUpTo(Source, parts, end)
  BY SourceTyped DEF ParserTypeOK, Parsing
<1>2. Dots = {i \in offset..Len(Source) : Source[i] = Dot} /\ Dots \subseteq Nat
  BY <1>1 DEF Dots, ParserTypeOK
<1> HIDE DEF end
<1>3. ASSUME Dots # {}
      PROVE  /\ NextDot \in Nat /\ NextDot <= Len(Source)
             /\ Append(parts, SubSeq(Source, offset, NextDot - 1)) \in Seq(Seq(Characters))
             /\ CutUpTo(Source, Append(parts, SubSeq(Source, offset, NextDot - 1)), NextDot)
  <2> DEFINE next == NextDot
  <2>1. next \in Dots /\ \A i \in Dots : next <= i
    BY <1>2, <1>3, MinLeast DEF NextDot
  <2> HIDE DEF next
  <2>2. next \in Nat /\ end < next /\ next <= Len(Source) /\ next <= Len(Source) + 1 /\ Source[next] = Dot
    BY <1>1, <1>2, <2>1
  <2>3. ASSUME NEW i \in (end + 1)..(next - 1) PROVE Source[i] # Dot
    <3>1. i \in offset..Len(Source) /\ ~(next <= i)
      BY <1>1, <2>2
    <3> QED BY <1>2, <2>1, <3>1
  <2>4. CutUpTo(Source, Append(parts, SubSeq(Source, end + 1, next - 1)), next)
    BY <1>1, <2>2, <2>3, CutGrows
  <2>5. SubSeq(Source, end + 1, next - 1) \in Seq(Characters)
    BY <1>1, <2>2, UndottedSlice
  <2> QED BY <1>1, <2>2, <2>4, <2>5 DEF next
<1>4. ASSUME Dots = {} PROVE Parsed \in Seq(Seq(Characters)) /\ CutUpTo(Source, Parsed, Len(Source) + 1)
  <2> DEFINE next == Len(Source) + 1
  <2>1. next \in Nat /\ end < next /\ next <= Len(Source) + 1 /\ ~(next <= Len(Source)) /\ next - 1 = Len(Source)
    BY <1>1
  <2>2. \A i \in (end + 1)..(next - 1) : Source[i] # Dot
    BY <1>1, <1>2, <1>4, <2>1
  <2> HIDE DEF next
  <2>3. CutUpTo(Source, Append(parts, SubSeq(Source, end + 1, next - 1)), next)
    BY <1>1, <2>1, <2>2, CutGrows
  <2>4. SubSeq(Source, end + 1, next - 1) \in Seq(Characters)
    BY <1>1, <2>1, UndottedSlice
  <2> QED BY <1>1, <2>1, <2>3, <2>4 DEF next, Parsed
<1> QED BY <1>3, <1>4

\* Nothing is parsed at first.
LEMMA CutsNothing == ASSUME NEW text PROVE CutUpTo(text, <<>>, 0)
<1> DEFINE cut == [i \in 0..0 |-> 0]
           none == <<>>
<1>1. Len(none) = 0 /\ cut \in [0..0 -> 0..0] /\ \A i \in 0..0 : cut[i] = 0
  OBVIOUS
<1>2. /\ cut \in [0..Len(none) -> 0..0]
      /\ cut[0] = 0 /\ cut[Len(none)] = 0
      /\ \A i, j \in 0..Len(none) : ~(i < j)
      /\ \A i \in 1..Len(none) : FALSE
  BY <1>1
<1> HIDE DEF cut, none
<1>3. Cut(text, none, 0, cut)
  BY <1>2, Zenon DEF Cut
<1>4. CutUpTo(text, none, 0)
  BY <1>1, <1>2, <1>3, CutShows
<1> QED BY <1>4 DEF none

\* What the entries and the client's namespace decide stays.
LEMMA SelectedStays ==
  ASSUME UNCHANGED module
  PROVE  /\ Selected' = Selected
         /\ \A k : (Fits(k)' <=> Fits(k)) /\ (HasText(k)' <=> HasText(k)) /\ TextOf(k)' = TextOf(k)
<1>1. entries' = entries /\ asked' = asked
  BY DEF module
<1>2. \A k : (Fits(k)' <=> Fits(k)) /\ (HasText(k)' <=> HasText(k)) /\ TextOf(k)' = TextOf(k)
  BY <1>1 DEF Fits, HasText, TextOf, Text
<1>3. \A text : Below(text)' <=> Below(text)
  BY <1>1 DEF Below
<1>4. Selected' = Selected
  BY <1>1, <1>2, <1>3 DEF Selected
<1> QED BY <1>2, <1>4

LEMMA WalkIInvInit == WalkInit => WalkIInv
<1> SUFFICES ASSUME WalkInit PROVE WalkIInv
  OBVIOUS
<1>1. NestedIInv
  BY NestedIInvInit
<1>2. ParserTypeOK
  <2>1. asked \in Questions /\ parts = <<>> /\ offset \in Nat
    BY DEF WalkInit
  <2>2. asked.by = "parts" => asked.of \in Seq(Seq(Characters))
    BY <2>1, QuestionsAssumption
  <2>3. ns \in Seq(Seq(Characters))
    BY <2>2 DEF WalkInit
  <2> QED BY <2>1, <2>3 DEF ParserTypeOK
<1>3. Parsing
  <2>1. loop = "before" /\ parts = <<>> /\ Source = asked.of /\ state["enumerate"] = "unmade"
    BY DEF WalkInit, Init, Source
  <2>2. CASE asked.by = "parts"
    <3>1. offset = 0 /\ ns = asked.of
      BY <2>2 DEF WalkInit
    <3> QED BY <2>1, <2>2, <3>1 DEF Parsing, Made
  <2>3. CASE asked.by = "text"
    <3>1. offset = 1 /\ asked.of \in Seq(Characters)
      BY <1>2, <2>3, AskedTyped DEF WalkInit
    <3>2. offset - 1 = 0 /\ 0 <= Len(asked.of) /\ CutUpTo(Source, parts, 0)
      BY <2>1, <3>1, CutsNothing
    <3> QED BY <2>1, <2>3, <3>1, <3>2 DEF Parsing
  <2> QED BY <1>2, <2>2, <2>3, AskedTyped
<1>4. Complete
  <2>1. /\ passed = 0 /\ pos = 0 /\ seen = <<>> /\ running = <<>> /\ state["enumerate"] = "unmade"
        /\ loop = "before"
    BY DEF WalkInit, Init
  <2>2. Selected \subseteq Nat \ {0}
    BY <1>1, EntriesTyped DEF NestedIInv, Selected
  <2>3. Seen = {} /\ ~InnerRuns
    BY <2>1 DEF Seen, InnerRuns
  <2>4. \A k \in Selected : ~(k < pos)
    BY <2>1, <2>2
  <2> QED BY <2>1, <2>3, <2>4 DEF Complete
<1> QED BY <1>1, <1>2, <1>3, <1>4 DEF WalkIInv

LEMMA ParsePartSelects ==
  ASSUME WalkIInv, NestedIInv', ParsePart PROVE WalkIInv'
<1>1. /\ offset # 0 /\ Dots # {}
      /\ parts' = Append(parts, SubSeq(Source, offset, NextDot - 1)) /\ offset' = NextDot + 1
      /\ UNCHANGED <<frames, module, ns, pos, passed, running, loop, seen>>
  BY DEF ParsePart
<1>2. NestedIInv /\ ParserTypeOK /\ Parsing /\ Complete
  BY DEF WalkIInv
<1>3. /\ NextDot \in Nat /\ NextDot <= Len(Source)
      /\ parts' \in Seq(Seq(Characters)) /\ CutUpTo(Source, parts', NextDot)
  BY <1>1, <1>2, PartParsed
<1>4. Source' = Source /\ (InnerRuns' <=> InnerRuns) /\ Client' = Client /\ Seen' = Seen /\ (Made' <=> Made)
  BY <1>1 DEF Source, InnerRuns, Client, Seen, Made, module
<1>5. offset' # 0 /\ offset' - 1 = NextDot /\ offset' \in Nat
  BY <1>1, <1>3
<1>6. ParserTypeOK'
  BY <1>1, <1>2, <1>3, <1>5 DEF ParserTypeOK, module
<1>7. Parsing'
  <2>1. state["enumerate"] # "yielded" \/ Len(running) = 2
    BY <1>1, <1>2, RunningStacks DEF Parsing, InnerRuns, NestedIInv, Suspended
  <2>2. (Fits(pos)' <=> Fits(pos)) /\ (HasText(pos)' <=> HasText(pos))
    BY <1>1, SelectedStays
  <2> QED BY <1>1, <1>2, <1>3, <1>4, <1>5, <2>1, <2>2 DEF Parsing, frames, module
<1>8. Complete'
  <2>1. Selected' = Selected
    BY <1>1, SelectedStays
  <2> QED BY <1>1, <1>2, <1>4, <1>5, <2>1 DEF Complete, frames
<1> QED BY <1>6, <1>7, <1>8 DEF WalkIInv

LEMMA ParseAskedSelects ==
  ASSUME WalkIInv, NestedIInv', ParseAsked PROVE WalkIInv'
<1>1. /\ Client /\ loop = "before" /\ offset # 0 /\ Dots = {}
      /\ ns' = Parsed /\ parts' = <<>> /\ offset' = 0
      /\ UNCHANGED <<frames, module, pos, passed, running, loop, seen>>
  BY DEF ParseAsked
<1>2. NestedIInv /\ ParserTypeOK /\ Parsing /\ Complete
  BY DEF WalkIInv
<1>3. Parsed \in Seq(Seq(Characters)) /\ CutUpTo(Source, Parsed, Len(Source) + 1)
  BY <1>1, <1>2, PartParsed
<1>4. ~InnerRuns /\ Source = asked.of /\ asked.by = "text"
  BY <1>1, <1>2, SourceTyped DEF InnerRuns
<1>5. ~InnerRuns' /\ Seen' = Seen /\ state["enumerate"] = "unmade"
  BY <1>1, <1>2 DEF InnerRuns, Seen, NestedIInv, Suspended
<1>6. ParserTypeOK'
  BY <1>1, <1>2, <1>3 DEF ParserTypeOK, module
<1>7. Made'
  BY <1>1, <1>3, <1>4 DEF Made, module
<1>8. Parsing'
  BY <1>1, <1>5, <1>7 DEF Parsing, frames
<1>9. Complete'
  <2>1. Selected' = Selected
    BY <1>1, SelectedStays
  <2> QED BY <1>1, <1>2, <1>5, <2>1 DEF Complete, frames
<1> QED BY <1>6, <1>8, <1>9 DEF WalkIInv

\* What a step may do to the two loops that changes nothing else.
Quiet ==
  /\ offset = 0 /\ Made /\ ~InnerRuns'
  /\ UNCHANGED <<module, ns, parser, pos, passed, seen>>
  /\ yields'["in_namespace"] = yields["in_namespace"]
  /\ state'["enumerate"] = "yielded" => state["enumerate"] = "yielded" /\ Len(running) # 2
  /\ state'["enumerate"] \in {"unmade", "start"} =>
       state["enumerate"] \in {"unmade", "start"} /\ Len(running) # 2
  /\ state'["enumerate"] \in {"ended", "freed"} /\ "enumerate" \notin raised'
       /\ (loop' = "in" \/ state'["in_namespace"] = "ended") =>
       /\ state["enumerate"] \in {"ended", "freed"} /\ "enumerate" \notin raised
       /\ loop = "in" \/ state["in_namespace"] = "ended"

LEMMA QuietSelects ==
  ASSUME WalkIInv, NestedIInv', Quiet PROVE WalkIInv'
<1>1. UNCHANGED <<module, ns, parser, pos, passed, seen>> /\ offset = 0 /\ Made /\ ~InnerRuns'
  BY DEF Quiet
<1>2. NestedIInv /\ ParserTypeOK /\ Parsing /\ Complete
  BY DEF WalkIInv
<1>3. ParserTypeOK' /\ Made' /\ Seen' = Seen /\ offset' = 0 /\ parts' = parts
  BY <1>1, <1>2 DEF ParserTypeOK, Made, Seen, module, parser
<1>4. /\ Selected' = Selected
      /\ (Fits(pos)' <=> Fits(pos)) /\ (HasText(pos)' <=> HasText(pos)) /\ TextOf(pos)' = TextOf(pos)
  BY <1>1, SelectedStays
<1>5. Parsing'
  BY <1>1, <1>2, <1>3, <1>4 DEF Parsing, Quiet
<1>6. Complete'
  BY <1>1, <1>2, <1>3, <1>4 DEF Complete, Quiet
<1> QED BY <1>3, <1>5, <1>6 DEF WalkIInv

\* The steps that make, free, leave or resume, and the end of the outer coroutine.
LEMMA LoopsSelect ==
  ASSUME WalkIInv, NestedIInv',
         \/ Enter \/ Continue \/ Leave \/ DestroyInner \/ DestroyOuter
         \/ CallEnumerate \/ LeaveInner \/ OuterEnds
  PROVE  WalkIInv'
<1>1. NestedIInv /\ ParserTypeOK /\ Parsing /\ Complete
  BY DEF WalkIInv
<1>2. LoopsInv
  BY <1>1 DEF NestedIInv, WalkTypeOK, LoopsInv
<1>3. UNCHANGED <<module, ns, parser, pos, passed, seen>>
  BY DEF Enter, Continue, Leave, DestroyInner, DestroyOuter, CallEnumerate, LeaveInner, OuterEnds
<1>4. ~InnerRuns /\ offset = 0 /\ Made
  <2>1. ~InnerRuns /\ (loop = "before" => offset = 0)
    BY RunningStacks DEF Enter, Continue, Leave, DestroyInner, DestroyOuter, CallEnumerate, LeaveInner,
       OuterEnds, InnerRuns, Client, OuterRuns
  <2>2. offset = 0
    BY <1>1, <2>1, NoneParsed
  <2> QED BY <1>1, <2>1, <2>2 DEF Parsing
<1>5. state \in [{"enumerate", "in_namespace"} -> {"unmade", "start", "yielded", "ended", "freed"}]
  BY <1>2 DEF LoopsInv, TypeOK, Live
<1>6. CASE Enter
  <2>1. GoesTo("in_namespace", "start") /\ UNCHANGED <<raised, yields>>
    BY <1>2, <1>6, CallLoops DEF LoopPairs, Enter
  <2>2. loop = "before" /\ Client /\ Len(running) = 0 /\ state["enumerate"] = "unmade"
    BY <1>1, <1>6, RunningStacks DEF Enter, Client, NestedIInv, Suspended
  <2>3. state'["enumerate"] = "unmade" /\ ~InnerRuns'
    BY <1>5, <1>6, <2>1, <2>2, RunningStacks DEF GoesTo, Enter, Client, InnerRuns
  <2>4. Quiet
    BY <1>3, <1>4, <2>1, <2>2, <2>3 DEF Quiet
  <2> QED BY <2>4, QuietSelects
<1>7. CASE Continue
  <2>1. /\ UNCHANGED <<state, raised, yields, loop>> /\ loop = "in"
        /\ Len(running) = 0 /\ running' = <<"in_namespace">>
    BY <1>7, RunningStacks DEF Continue, Client, frames
  <2>2. ~InnerRuns'
    BY <2>1, RunningStacks DEF InnerRuns
  <2>3. Quiet
    BY <1>3, <1>4, <2>1, <2>2 DEF Quiet
  <2> QED BY <2>3, QuietSelects
<1>8. CASE Leave
  <2>1. /\ UNCHANGED <<state, raised, yields, running>> /\ loop = "in" /\ loop' = "leaving" /\ Len(running) = 0
    BY <1>8, RunningStacks DEF Leave, Client, frames
  <2>2. ~InnerRuns'
    BY <2>1 DEF InnerRuns
  <2>3. Quiet
    BY <1>3, <1>4, <2>1, <2>2 DEF Quiet
  <2> QED BY <2>3, QuietSelects
<1>9. CASE DestroyInner \/ LeaveInner
  <2>1. /\ GoesTo("enumerate", "freed") /\ UNCHANGED <<raised, yields, running, loop>>
        /\ state["enumerate"] \in Live
    BY <1>2, <1>9, DestroyLoops DEF LoopPairs, DestroyInner, LeaveInner
  <2>2. state'["enumerate"] = "freed" /\ state'["in_namespace"] = state["in_namespace"] /\ ~InnerRuns'
    BY <1>4, <1>5, <2>1 DEF GoesTo, InnerRuns
  <2>3. loop = "in" \/ state["in_namespace"] = "ended" => state["enumerate"] = "ended"
    <3>1. CASE DestroyInner
      BY <1>1, <2>1, <3>1 DEF DestroyInner, NestedIInv, Suspended, Live
    <3>2. CASE LeaveInner
      BY <3>2 DEF LeaveInner
    <3> QED BY <1>9, <3>1, <3>2
  <2>4. Quiet
    BY <1>3, <1>4, <2>1, <2>2, <2>3 DEF Quiet
  <2> QED BY <2>4, QuietSelects
<1>10. CASE DestroyOuter
  <2>1. GoesTo("in_namespace", "freed") /\ UNCHANGED <<raised, yields, running>> /\ loop' = "after"
    BY <1>2, <1>10, DestroyLoops DEF LoopPairs, DestroyOuter
  <2>2. /\ state'["in_namespace"] = "freed" /\ state'["enumerate"] = state["enumerate"] /\ ~InnerRuns'
        /\ Len(running) = 0
    BY <1>5, <1>10, <2>1, RunningStacks DEF GoesTo, InnerRuns, DestroyOuter, Client
  <2>3. Quiet
    BY <1>3, <1>4, <2>1, <2>2 DEF Quiet
  <2> QED BY <2>3, QuietSelects
<1>11. CASE CallEnumerate
  <2>1. /\ GoesTo("enumerate", "start") /\ UNCHANGED <<raised, yields, running>> /\ OuterRuns
        /\ state["enumerate"] = "unmade"
    BY <1>2, <1>11, CallLoops DEF LoopPairs, CallEnumerate
  <2>2. state'["enumerate"] = "start" /\ Len(running) = 1 /\ ~InnerRuns'
    BY <1>5, <2>1, RunningStacks DEF GoesTo, InnerRuns, OuterRuns
  <2>3. Quiet
    BY <1>3, <1>4, <2>1, <2>2 DEF Quiet
  <2> QED BY <2>3, QuietSelects
<1>12. CASE OuterEnds
  <2>1. /\ OuterRuns /\ state["enumerate"] = "freed" /\ loop = "in"
        /\ Back("client", "in_namespace", "ended") /\ state["in_namespace"] \in {"start", "yielded"}
    BY <1>1, <1>12, RunningStacks DEF OuterEnds, OuterRuns, NestedIInv, Suspended
  <2>2. ComesBack("client", "in_namespace", "ended") /\ running' = <<>>
    BY <1>2, <2>1, BackLoops, BackRunning DEF LoopPairs
  <2>3. /\ state'["enumerate"] = "freed" /\ raised \subseteq raised' /\ ~InnerRuns'
        /\ yields' = yields
    BY <1>5, <2>1, <2>2, RunningStacks DEF ComesBack, GoesTo, InnerRuns
  <2>4. Quiet
    BY <1>3, <1>4, <2>1, <2>3 DEF Quiet
  <2> QED BY <2>4, QuietSelects
<1> QED BY <1>6, <1>7, <1>8, <1>9, <1>10, <1>11, <1>12

LEMMA LoopBodySelects ==
  ASSUME WalkIInv, NestedIInv', LoopBody PROVE WalkIInv'
<1>1. /\ Client /\ loop = "in" /\ state["in_namespace"] = "yielded"
      /\ Len(seen) < yields["in_namespace"] /\ Read("client")
      /\ seen' = Append(seen, pos)
      /\ UNCHANGED <<module, ns, parser, pos, passed, running, loop>>
  BY DEF LoopBody
<1>2. NestedIInv /\ ParserTypeOK /\ Parsing /\ Complete
  BY DEF WalkIInv
<1>3. UNCHANGED <<state, raised, yields>>
  BY <1>1, <1>2, ReadLoops DEF NestedIInv, WalkTypeOK, LoopsInv
<1>4. ~InnerRuns /\ ~InnerRuns' /\ Len(running) = 0 /\ offset = 0 /\ Made
  <2>1. ~InnerRuns /\ ~InnerRuns' /\ Len(running) = 0
    BY <1>1, RunningStacks DEF InnerRuns, Client
  <2> QED BY <1>1, <1>2, <2>1, NoneParsed
<1>5. state["enumerate"] = "yielded" /\ passed = pos /\ pos # 0
  BY <1>1, <1>2, <1>4 DEF NestedIInv, Suspended, AtElement, Parsing
<1>6. pos \in Selected
  BY <1>2, <1>5 DEF Complete
<1>7. Len(seen) + 1 = yields["in_namespace"] /\ seen \in Seq(Nat) /\ pos \in Nat
  BY <1>1, <1>2, EntriesTyped DEF NestedIInv, Behind, WalkTypeOK
<1>8. Seen' = Seen \cup {pos}
  <2>1. /\ DOMAIN seen' = DOMAIN seen \cup {Len(seen) + 1} /\ Len(seen) + 1 \notin DOMAIN seen
        /\ \A i \in DOMAIN seen : seen'[i] = seen[i]
        /\ seen'[Len(seen) + 1] = pos
    BY <1>1, <1>7
  <2> QED BY <2>1, Zenon DEF Seen
<1>9. /\ Selected' = Selected
      /\ (Fits(pos)' <=> Fits(pos)) /\ (HasText(pos)' <=> HasText(pos)) /\ TextOf(pos)' = TextOf(pos)
  BY <1>1, SelectedStays
<1>10. ParserTypeOK' /\ Made'
  BY <1>1, <1>2, <1>4 DEF ParserTypeOK, Made, module, parser
<1>11. Parsing'
  BY <1>1, <1>2, <1>3, <1>4, <1>9, <1>10 DEF Parsing, parser
<1>12. Complete'
  BY <1>1, <1>2, <1>3, <1>4, <1>5, <1>6, <1>8, <1>9 DEF Complete
<1> QED BY <1>10, <1>11, <1>12 DEF WalkIInv

\* The element that enumerate has yielded is selected if it is in the namespace.
LEMMA YieldedIsSelected ==
  ASSUME WalkIInv, OuterRuns, state["enumerate"] = "yielded"
  PROVE  pos \in Selected <=> InNamespace(Current, ns)
<1>1. NestedIInv /\ ParserTypeOK /\ Parsing
  BY DEF WalkIInv
<1>2. Len(running) # 2 /\ ~InnerRuns /\ loop = "in"
  BY RunningStacks DEF OuterRuns, InnerRuns
<1>3. pos # 0 /\ Fits(pos) /\ HasText(pos) /\ CutUpTo(TextOf(pos), parts, Len(TextOf(pos)) + 1)
  BY <1>1, <1>2 DEF Parsing
<1>4. pos \in DOMAIN entries /\ TextOf(pos) \in Seq(Characters)
  BY <1>1, <1>3, EntryShape DEF NestedIInv, WalkTypeOK
<1>5. Below(TextOf(pos)) <=> InNamespace(Current, ns)
  BY <1>1, <1>2, <1>3, <1>4, NoneParsed, BelowIsInNamespace
<1> QED BY <1>3, <1>4, <1>5 DEF Selected

LEMMA ContinueInnerSelects ==
  ASSUME WalkIInv, NestedIInv', ContinueInner PROVE WalkIInv'
<1>1. /\ OuterRuns /\ running' = <<"in_namespace", "enumerate">>
      /\ UNCHANGED <<frames, module, ns, parser, pos, passed, loop, seen>>
      /\ \/ state["enumerate"] = "start"
         \/ /\ state["enumerate"] = "yielded"
            /\ InNamespace(Current, ns) => passed = pos
  BY DEF ContinueInner
<1>2. NestedIInv /\ ParserTypeOK /\ Parsing /\ Complete
  BY DEF WalkIInv
<1>3. /\ ~InnerRuns /\ ~Client /\ loop = "in" /\ Len(running) = 1 /\ Len(running') = 2
  BY <1>1, RunningStacks DEF OuterRuns, InnerRuns, Client
<1>4. offset = 0 /\ Made
  BY <1>2, <1>3, NoneParsed
<1>5. Selected' = Selected /\ Seen' = Seen /\ 0 \notin Selected
  BY <1>1, <1>2, SelectedStays, EntriesTyped DEF Seen, Selected, NestedIInv
<1>6. pos \in Selected => pos \in Seen
  <2>1. CASE state["enumerate"] = "start"
    BY <1>2, <1>3, <1>5, <2>1 DEF Complete
  <2>2. CASE state["enumerate"] = "yielded" /\ (InNamespace(Current, ns) => passed = pos)
    <3>1. Len(seen) = yields["in_namespace"]
      BY <1>2, <1>3 DEF NestedIInv, Behind
    <3>2. pos \in Selected => passed = pos
      BY <1>1, <2>2, YieldedIsSelected
    <3> QED BY <1>2, <1>5, <3>1, <3>2 DEF Complete
  <2> QED BY <1>1, <2>1, <2>2
<1>7. ParserTypeOK' /\ Made'
  BY <1>1, <1>2, <1>4 DEF ParserTypeOK, Made, module, parser
<1>8. Parsing'
  BY <1>1, <1>3, <1>4, <1>7 DEF Parsing, parser
<1>9. Complete'
  BY <1>1, <1>2, <1>3, <1>5, <1>6 DEF Complete, frames
<1> QED BY <1>7, <1>8, <1>9 DEF WalkIInv

LEMMA PassOnSelects ==
  ASSUME WalkIInv, NestedIInv', PassOn PROVE WalkIInv'
<1>1. /\ OuterRuns /\ state["enumerate"] = "yielded" /\ InNamespace(Current, ns)
      /\ Back("client", "in_namespace", "yielded")
      /\ passed' = pos /\ UNCHANGED <<module, ns, parser, pos, loop, seen>>
  BY DEF PassOn
<1>2. NestedIInv /\ ParserTypeOK /\ Parsing /\ Complete
  BY DEF WalkIInv
<1>3. ~InnerRuns /\ ~Client /\ loop = "in" /\ Len(running) = 1 /\ state["in_namespace"] \in {"start", "yielded"}
  BY <1>1, <1>2, RunningStacks DEF OuterRuns, InnerRuns, Client, NestedIInv, Suspended
<1>4. offset = 0 /\ Made
  BY <1>2, <1>3, NoneParsed
<1>5. ComesBack("client", "in_namespace", "yielded") /\ running' = <<>>
  BY <1>1, <1>2, <1>3, BackLoops, BackRunning DEF LoopPairs, NestedIInv, WalkTypeOK, LoopsInv
<1>6. /\ state'["enumerate"] = "yielded" /\ state'["in_namespace"] = "yielded"
      /\ yields'["in_namespace"] = yields["in_namespace"] + 1 /\ ~InnerRuns'
  BY <1>1, <1>2, <1>5, RunningStacks DEF ComesBack, GoesTo, NestedIInv, WalkTypeOK, TypeOK, InnerRuns
<1>7. Len(seen) = yields["in_namespace"] /\ Len(seen) # yields'["in_namespace"]
  BY <1>2, <1>3, <1>6 DEF NestedIInv, Behind, WalkTypeOK
<1>8. pos \in Selected
  BY <1>1, YieldedIsSelected
<1>9. /\ Selected' = Selected /\ Seen' = Seen
      /\ (Fits(pos)' <=> Fits(pos)) /\ (HasText(pos)' <=> HasText(pos)) /\ TextOf(pos)' = TextOf(pos)
  BY <1>1, SelectedStays DEF Seen
<1>10. ParserTypeOK' /\ Made'
  BY <1>1, <1>2, <1>4 DEF ParserTypeOK, Made, module, parser
<1>11. Parsing'
  BY <1>1, <1>2, <1>3, <1>4, <1>9, <1>10 DEF Parsing, parser
<1>12. Complete'
  BY <1>1, <1>2, <1>6, <1>7, <1>8, <1>9 DEF Complete
<1> QED BY <1>10, <1>11, <1>12 DEF WalkIInv

\* All before the next one that fits is seen when enumerate goes on to it.
LEMMA BeforeFitting ==
  ASSUME WalkIInv, InnerRuns, offset = 0, NEW k \in Selected, k \notin Fitting
  PROVE  k \in Seen
<1>1. NestedIInv /\ Complete
  BY DEF WalkIInv
<1>2. k \in DOMAIN entries /\ Fits(k) /\ k \in Nat /\ pos \in Nat
  BY <1>1, EntriesTyped DEF Selected, NestedIInv, WalkTypeOK
<1>3. ~(k > pos)
  BY <1>1, <1>2, EntryShape DEF Fitting, NestedIInv
<1>4. k < pos \/ k = pos
  BY <1>2, <1>3
<1> QED BY <1>1, <1>4 DEF Complete

LEMMA ReachSelects ==
  ASSUME WalkIInv, NestedIInv', Reach PROVE WalkIInv'
<1>1. /\ InnerRuns /\ offset = 0 /\ Fitting # {} /\ pos' = Min(Fitting) /\ parts' = <<>>
      /\ UNCHANGED <<frames, module, ns, passed, running, seen>>
      /\ IF TextArray(entries[pos']) = Null
         THEN loop' = "crashed" /\ offset' = offset ELSE offset' = 1 /\ loop' = loop
  BY DEF Reach
<1>2. NestedIInv /\ ParserTypeOK /\ Parsing /\ Complete
  BY DEF WalkIInv
<1>3. loop = "in" /\ Len(running) = 2 /\ Len(running') = 2 /\ loop' \in {"in", "crashed"}
  BY <1>1, RunningStacks DEF InnerRuns
<1>4. Fitting \subseteq Nat /\ Fitting \subseteq DOMAIN entries
  BY <1>2, EntriesTyped DEF Fitting, NestedIInv
<1>5. pos' \in Fitting /\ \A k \in Fitting : pos' <= k
  BY <1>1, <1>4, MinLeast
<1>6. pos' \in DOMAIN entries /\ pos' # 0 /\ Fits(pos')
  BY <1>2, <1>4, <1>5, EntriesTyped, EntryShape DEF NestedIInv, Fitting
<1>7. /\ Selected' = Selected /\ Seen' = Seen /\ entries' = entries
      /\ \A k : (Fits(k)' <=> Fits(k)) /\ (HasText(k)' <=> HasText(k))
  BY <1>1, SelectedStays DEF Seen, module
<1>8. ParserTypeOK' /\ Made'
  <2>1. offset' \in Nat /\ parts' \in Seq(Seq(Characters))
    BY <1>1
  <2>2. Made
    BY <1>2, <1>3 DEF Parsing
  <2> QED BY <1>1, <1>2, <2>1, <2>2 DEF ParserTypeOK, Made, module
<1>9. Parsing'
  <2>1. ASSUME offset' # 0
        PROVE  /\ offset' - 1 <= Len(Source') /\ CutUpTo(Source', parts', offset' - 1)
               /\ InnerRuns' /\ Fits(pos)' /\ HasText(pos)'
    <3>1. offset' = 1 /\ loop' = "in" /\ TextArray(entries[pos']) # Null
      BY <1>1, <1>3, <2>1
    <3>2. Fits(pos') /\ HasText(pos')
      BY <1>2, <1>6, <3>1, EntryShape DEF NestedIInv
    <3>3. Source' = TextOf(pos') /\ TextOf(pos') \in Seq(Characters)
      <4>1. Source' = TextArray(entries[pos']).text
        BY <1>7, <3>1 DEF Source, TextArray, Cast, Operand
      <4> QED BY <1>2, <1>6, <3>2, <4>1, EntryShape DEF NestedIInv
    <3>4. InnerRuns'
      BY <1>1, <3>1 DEF InnerRuns
    <3>5. offset' - 1 = 0 /\ 0 <= Len(Source')
      BY <3>1, <3>3
    <3>6. CutUpTo(Source', parts', 0)
      BY <1>1, CutsNothing
    <3>7. Fits(pos)' /\ HasText(pos)'
      BY <1>7, <3>2 DEF Fits, HasText, Text
    <3> QED BY <3>4, <3>5, <3>6, <3>7
  <2> QED BY <1>3, <1>6, <1>8, <2>1 DEF Parsing
<1>10. Complete'
  <2>1. ASSUME NEW k \in Selected, k < pos' PROVE k \in Seen
    <3>1. k \notin Fitting
      <4>1. k \in Nat /\ pos' \in Nat
        BY <1>2, <1>4, <1>5, EntriesTyped DEF Selected, NestedIInv
      <4>2. ~(pos' <= k)
        BY <2>1, <4>1
      <4> QED BY <1>5, <4>2
    <3> QED BY <1>1, <3>1, BeforeFitting
  <2>2. ~(InnerRuns' /\ offset' = 0)
    BY <1>1, <1>3 DEF InnerRuns
  <2>3. state["enumerate"] \in {"start", "yielded"}
    BY <1>2, <1>3 DEF NestedIInv, Suspended
  <2> QED BY <1>1, <1>2, <1>3, <1>7, <2>1, <2>2, <2>3 DEF Complete, frames
<1> QED BY <1>8, <1>9, <1>10 DEF WalkIInv

LEMMA InnerBackSelects ==
  ASSUME WalkIInv, NestedIInv', YieldNext \/ InnerEnds PROVE WalkIInv'
<1>1. /\ InnerRuns /\ UNCHANGED <<module, ns, pos, passed, loop, seen>> /\ offset' = 0
      /\ Back("nested", "enumerate", IF YieldNext THEN "yielded" ELSE "ended")
  BY DEF YieldNext, InnerEnds
<1>2. NestedIInv /\ ParserTypeOK /\ Parsing /\ Complete
  BY DEF WalkIInv
<1>3. loop = "in" /\ Len(running) = 2 /\ state["enumerate"] \in {"start", "yielded"} /\ ~Client
  BY <1>1, <1>2, RunningStacks DEF InnerRuns, NestedIInv, Suspended, Client
<1>4. PICK st \in {"yielded", "ended"} :
        /\ st = (IF YieldNext THEN "yielded" ELSE "ended") /\ Back("nested", "enumerate", st)
  BY <1>1
<1>5. ComesBack("nested", "enumerate", st) /\ running' = <<"in_namespace">>
  BY <1>1, <1>2, <1>3, <1>4, BackLoops, BackRunning DEF LoopPairs, NestedIInv, WalkTypeOK, LoopsInv
<1>6. /\ state'["enumerate"] = st /\ state'["in_namespace"] = state["in_namespace"]
      /\ yields'["in_namespace"] = yields["in_namespace"]
      /\ ~InnerRuns' /\ Len(running') = 1
  BY <1>2, <1>5, RunningStacks DEF ComesBack, GoesTo, NestedIInv, WalkTypeOK, TypeOK, InnerRuns
<1>7. /\ Selected' = Selected /\ Seen' = Seen
      /\ (Fits(pos)' <=> Fits(pos)) /\ (HasText(pos)' <=> HasText(pos)) /\ TextOf(pos)' = TextOf(pos)
  BY <1>1, SelectedStays DEF Seen
<1>8. Made'
  BY <1>1, <1>2, <1>3 DEF Parsing, Made, module
<1>9. CASE YieldNext
  <2>1. offset # 0 /\ Dots = {} /\ parts' = Parsed /\ st = "yielded"
    BY <1>4, <1>9 DEF YieldNext
  <2>2. /\ Source = TextOf(pos) /\ Fits(pos) /\ HasText(pos) /\ pos # 0
        /\ parts' \in Seq(Seq(Characters)) /\ CutUpTo(Source, parts', Len(Source) + 1)
    BY <1>1, <1>2, <2>1, SourceTyped, PartParsed, EntriesTyped DEF NestedIInv
  <2>3. ParserTypeOK'
    BY <1>1, <1>2, <2>2 DEF ParserTypeOK, module
  <2>4. Parsing'
    BY <1>1, <1>7, <1>8, <2>2 DEF Parsing
  <2>5. Complete'
    BY <1>1, <1>2, <1>6, <1>7, <2>1 DEF Complete
  <2> QED BY <2>3, <2>4, <2>5 DEF WalkIInv
<1>10. CASE ~YieldNext
  <2>1. /\ st = "ended" /\ parts' = parts
        /\ (offset = 0 /\ Fitting = {}) \/ status' = "threw"
    BY <1>4, <1>10 DEF YieldNext, InnerEnds
  <2>2. ParserTypeOK'
    BY <1>1, <1>2, <2>1 DEF ParserTypeOK, module
  <2>3. Parsing'
    BY <1>1, <1>6, <1>8, <2>1 DEF Parsing
  <2>4. "enumerate" \in raised' \/ Selected \subseteq Seen
    <3>1. CASE offset = 0 /\ Fitting = {}
      BY <1>1, <3>1, BeforeFitting
    <3>2. CASE status' = "threw"
      BY <1>5, <3>2 DEF ComesBack
    <3> QED BY <2>1, <3>1, <3>2
  <2>5. Complete'
    BY <1>1, <1>2, <1>6, <1>7, <2>1, <2>4 DEF Complete
  <2> QED BY <2>2, <2>3, <2>5 DEF WalkIInv
<1> QED BY <1>9, <1>10

LEMMA WalkIInvStep == WalkIInv /\ [WalkNext]_walk => WalkIInv'
<1> SUFFICES ASSUME WalkIInv, [WalkNext]_walk PROVE WalkIInv'
  OBVIOUS
<1>1. NestedIInv'
  BY NestedIInvStep DEF WalkIInv
<1>2. CASE ParsePart \/ ParseAsked
  BY <1>1, <1>2, ParsePartSelects, ParseAskedSelects
<1>3. CASE \/ Enter \/ Continue \/ Leave \/ DestroyInner \/ DestroyOuter
           \/ CallEnumerate \/ LeaveInner \/ OuterEnds
  BY <1>1, <1>3, LoopsSelect
<1>4. CASE LoopBody \/ ContinueInner \/ PassOn
  BY <1>1, <1>4, LoopBodySelects, ContinueInnerSelects, PassOnSelects
<1>5. CASE Reach \/ YieldNext \/ InnerEnds
  BY <1>1, <1>5, ReachSelects, InnerBackSelects
<1>6. CASE UNCHANGED walk
  <2>1. UNCHANGED <<frames, module, ns, parser, pos, passed, running, loop, seen>>
    BY <1>6 DEF walk
  <2>2. NestedIInv /\ ParserTypeOK /\ Parsing /\ Complete
    BY DEF WalkIInv
  <2>3. /\ Selected' = Selected /\ Seen' = Seen /\ InnerRuns' = InnerRuns
        /\ (Fits(pos)' <=> Fits(pos)) /\ (HasText(pos)' <=> HasText(pos)) /\ TextOf(pos)' = TextOf(pos)
    BY <2>1, SelectedStays DEF Seen, InnerRuns
  <2>4. ParserTypeOK' /\ Source' = Source /\ (Made' <=> Made)
    BY <2>1, <2>2 DEF ParserTypeOK, Source, Made, module, parser
  <2>5. Parsing'
    BY <2>1, <2>2, <2>3, <2>4 DEF Parsing, frames, parser, module
  <2>6. Complete'
    BY <2>1, <2>2, <2>3 DEF Complete, frames, parser
  <2> QED BY <1>1, <2>4, <2>5, <2>6 DEF WalkIInv
<1> QED BY <1>2, <1>3, <1>4, <1>5, <1>6, Zenon DEF WalkNext

LEMMA WalkIInvAlways == WalkSpec => []WalkIInv
  BY WalkIInvInit, WalkIInvStep, PTL DEF WalkSpec

\* The client sees the annotations below the namespace and no others, in the
\* order of the module, and all of them if it stays to the end
\* (annotation.hpp:41-54, annotation.tpp:29-53).
THEOREM SelectedAreSeen == WalkSpec => []SeesSelected
<1>1. WalkIInv => SeesSelected
  <2> SUFFICES ASSUME WalkIInv PROVE SeesSelected
    OBVIOUS
  <2>1. NestedIInv /\ Complete
    BY DEF WalkIInv
  <2>2. SeesInOrder /\ seen \in Seq(Nat) /\ DOMAIN seen = 1..Len(seen) /\ Len(seen) \in Nat /\ pos \in Nat
    BY <2>1, EntriesTyped DEF NestedIInv, WalkTypeOK
  <2>3. ASSUME NEW i \in DOMAIN seen PROVE seen[i] \in Selected
    BY <2>1, <2>3 DEF Complete, Seen
  <2>4. ASSUME NEW i \in DOMAIN seen, NEW k \in Selected, k < seen[i]
        PROVE  \E j \in 1..i : seen[j] = k
    <3>1. k < pos
      <4>1. seen[i] <= passed /\ passed \in 0..pos /\ seen[i] \in Nat /\ k \in Nat
        BY <2>1, <2>2, <2>4, EntriesTyped DEF NestedIInv, Behind, WalkTypeOK, Selected
      <4> QED BY <2>2, <2>4, <4>1
    <3>2. PICK j \in DOMAIN seen : seen[j] = k
      BY <2>1, <3>1 DEF Complete, Seen
    <3>3. ~(i < j)
      <4>1. seen[i] \in Nat /\ seen[j] \in Nat /\ ~(seen[i] < seen[j])
        BY <2>2, <2>4, <3>2
      <4> QED BY <2>2, <4>1 DEF SeesInOrder
    <3>4. j \in 1..i
      BY <2>2, <3>3
    <3> QED BY <3>2, <3>4
  <2>5. ASSUME state["in_namespace"] = "ended", raised = {} PROVE Selected \subseteq Seen
    <3>1. state["enumerate"] = "freed"
      <4>1. running = <<>> /\ Len(running) # 2
        BY <2>1, <2>5, RunningStacks DEF NestedIInv, Suspended
      <4>2. loop \in {"in", "leaving"}
        BY <2>1, <2>5, <4>1 DEF NestedIInv, Suspended, WalkTypeOK
      <4> QED BY <2>1, <2>5, <4>1, <4>2 DEF NestedIInv, Suspended, Client
    <3> QED BY <2>1, <2>5, <3>1 DEF Complete
  <2> QED BY <2>2, <2>3, <2>4, <2>5 DEF SeesSelected, Seen
<1> QED BY <1>1, WalkIInvAlways, PTL

\* The annotation that the client reads is what its text is cut into at its
\* dots (annotation.hpp:46-54, annotation.tpp:42).
THEOREM ElementIsItsText ==
  WalkSpec => [](AtElement => CutUpTo(TextOf(pos), Current, Len(TextOf(pos)) + 1))
<1>1. WalkIInv => (AtElement => CutUpTo(TextOf(pos), Current, Len(TextOf(pos)) + 1))
  <2> SUFFICES ASSUME WalkIInv, AtElement
               PROVE  CutUpTo(TextOf(pos), Current, Len(TextOf(pos)) + 1)
    OBVIOUS
  <2>1. state["enumerate"] = "yielded" /\ Len(running) # 2
    BY RunningStacks DEF WalkIInv, NestedIInv, Suspended, AtElement, Client
  <2> QED BY <2>1 DEF WalkIInv, Parsing, Current
<1> QED BY <1>1, WalkIInvAlways, PTL

\* What the client reads is the text of its annotation, taken apart at its dots
\* and put together again, printed without the dots that begin it, and in its
\* own namespace (annotation.hpp:46-54, annotation.cpp:22-54).
THEOREM NamesAreTexts == WalkSpec => []NamesSurvive
<1>1. WalkIInv => NamesSurvive
  <2> SUFFICES ASSUME WalkIInv, AtElement PROVE NamesSurvive
    BY DEF NamesSurvive
  <2> DEFINE a == Current
             text == TextOf(pos)
  <2>1. NestedIInv /\ ParserTypeOK /\ Parsing
    BY DEF WalkIInv
  <2>2. state["enumerate"] = "yielded" /\ Len(running) # 2
    BY RunningStacks DEF WalkIInv, NestedIInv, Suspended, AtElement, Client
  <2>3. /\ pos # 0 /\ Fits(pos) /\ HasText(pos)
        /\ CutUpTo(TextOf(pos), parts, Len(TextOf(pos)) + 1)
    BY <2>1, <2>2 DEF Parsing
  <2>4. pos \in DOMAIN entries /\ TextOf(pos) \in Seq(Characters)
    BY <2>1, <2>3, EntryShape DEF NestedIInv, WalkTypeOK
  <2>5. parts \in Seq(Seq(Characters))
    BY <2>1 DEF ParserTypeOK
  <2>6. text \in Seq(Characters) /\ a \in Seq(Seq(Characters)) /\ CutUpTo(text, a, Len(text) + 1)
    BY <2>3, <2>4, <2>5 DEF Current
  <2> HIDE DEF a, text
  <2>7. Joined(a) = text
    BY <2>6, JoinedIsText
  <2>8. \E dots \in 0..Len(text) :
          /\ \A i \in 1..dots : text[i] = Dot
          /\ Str(a) = SubSeq(text, dots + 1, Len(text))
          /\ Str(a) # <<>> => Head(Str(a)) # Dot
    BY <2>6, StrIsText
  <2>9. PICK cut \in [0..Len(a) -> 0..(Len(text) + 1)] : Cut(text, a, Len(text) + 1, cut)
    BY <2>6, CutShows
  <2>10. Len(a) \in Nat /\ Len(a) # 0 /\ DOMAIN a = 1..Len(a)
    BY <2>6, <2>9, CutPlaces
  <2>11. \A i \in DOMAIN a : Undotted(a[i])
    BY <2>6, <2>9, <2>10, CutPlaces DEF IsPart
  <2> DEFINE front == GetNamespace(a)
  <2>12. /\ front \in Seq(Seq(Characters)) /\ Len(front) = Len(a) - 1 /\ DOMAIN front = 1..(Len(a) - 1)
         /\ \A i \in 1..(Len(a) - 1) : front[i] = a[i]
    BY <2>6, <2>10 DEF GetNamespace
  <2> HIDE DEF front
  <2>13. InNamespace(a, front)
    BY <2>10, <2>12 DEF InNamespace
  <2>14. Append(front, Last(a)) = a
    <3> DEFINE b == Append(front, Last(a))
    <3>1. Last(a) = a[Len(a)] /\ Last(a) \in Seq(Characters)
      BY <2>6, <2>10 DEF Last
    <3>2. /\ b \in Seq(Seq(Characters)) /\ Len(b) = Len(a) /\ b[Len(a)] = a[Len(a)]
          /\ \A i \in 1..(Len(a) - 1) : b[i] = a[i]
      <4>1. /\ b \in Seq(Seq(Characters)) /\ Len(b) = Len(front) + 1 /\ b[Len(front) + 1] = Last(a)
            /\ \A i \in 1..Len(front) : b[i] = front[i]
        BY <2>12, <3>1, AppendProperties
      <4> HIDE DEF b
      <4>2. Len(front) + 1 = Len(a)
        BY <2>10, <2>12
      <4> QED BY <2>10, <2>12, <3>1, <4>1, <4>2
    <3> HIDE DEF b
    <3>3. \A i \in 1..Len(a) : b[i] = a[i]
      <4> SUFFICES ASSUME NEW i \in 1..Len(a) PROVE b[i] = a[i]
        OBVIOUS
      <4>1. CASE i = Len(a)
        BY <3>2, <4>1
      <4>2. CASE i # Len(a)
        <5> DEFINE n == Len(a)
        <5>1. n \in Nat /\ i \in 1..n /\ i # n
          BY <2>10, <4>2
        <5> HIDE DEF n
        <5>2. i \in 1..(n - 1)
          BY <5>1
        <5> QED BY <3>2, <5>2 DEF n
      <4> QED BY <4>1, <4>2
    <3>4. b = a
      BY <2>6, <3>2, <3>3, SeqEqual
    <3> QED BY <3>4 DEF b
  <2> QED BY <2>7, <2>8, <2>11, <2>13, <2>14, Zenon DEF NamesSurvive, a, text, front
<1> QED BY <1>1, WalkIInvAlways, PTL
=============================================================================
