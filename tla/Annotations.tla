---------------------------- MODULE Annotations ----------------------------
(***************************************************************************)
(* A loop over annotation::enumerate_in_namespace (annotation.tpp): a      *)
(* coroutine that itself loops over another coroutine, enumerate, and      *)
(* passes on references to what that one yields; and the dotted names that *)
(* it compares (annotation.hpp, annotation.cpp), parsed part by part.      *)
(*                                                                         *)
(* The generators and iterators are those of the two loops, and each step  *)
(* on them is an action of Generator: a resumption shows when the body     *)
(* comes back from it.  A text is a sequence of characters.  An LLVM value *)
(* is a record of its kind and operands, or of its text.                   *)
(***************************************************************************)
EXTENDS Naturals, Sequences, SequencesExt

CONSTANTS
  Characters,  \* what texts are made of
  Dot,         \* the character between parts
  Null,        \* a null pointer to a value
  Wanted,      \* the kind of value whose annotations are enumerated
  Entries,     \* the entries llvm.global.annotations can have
  Questions,   \* the namespaces asked for: [by |-> "text" or "parts", of |-> ...]
  MaxEntries   \* bound: the number of entries

ASSUME MaxEntriesAssumption == MaxEntries \in Nat

\* clang makes an entry of what is annotated and of a pointer to the global
\* that holds the text.  What is annotated has the type of a char or is under
\* a cast: nothing else has what is annotated for its operand.
ASSUME EntriesAssumption ==
  \A e \in Entries :
    /\ e # Null
    /\ e.kind = "struct" =>
         /\ LET value == e.operands[1] IN
              /\ value # Null /\ value.operands[1] # Null
              /\ value.operands[1].kind = Wanted => value.kind = "cast"
         /\ LET pointer == e.operands[2] IN
              /\ pointer # Null /\ pointer.operands[1] # Null
              /\ pointer.operands[1].kind = "global"
              /\ pointer.operands[1].operands[1] # Null
              /\ pointer.operands[1].operands[1].kind = "data" =>
                   pointer.operands[1].operands[1].text \in Seq(Characters)

ASSUME QuestionsAssumption ==
  Questions \subseteq [by : {"text"}, of : Seq(Characters)]
                        \cup [by : {"parts"}, of : Seq(Seq(Characters))]

VARIABLES
  held, at, state, yields, raised, thrown, begun, status,   \* as in Generator
  entries,  \* the entries of the module
  asked,    \* how the client names the namespace
  ns,       \* the annotation that makes of it
  offset,   \* where the next part begins in the text that is parsed, or 0
  parts,    \* the parts parsed: in the end the annotation that enumerate yields
  pos,      \* the entry that enumerate is at
  passed,   \* the entry that enumerate_in_namespace has yielded last
  running,  \* the coroutines that were resumed and have not come back
  loop,     \* the client: "before", "in" its loop, "leaving" it, "after" it,
            \* or "crashed"
  seen      \* the entries the client has read, in order

INSTANCE Generator WITH
  Generators <- {"client", "nested"},
  Iterators  <- {"client", "nested"},
  Frames     <- {"enumerate", "in_namespace"},
  None <- "none", Gone <- "gone",
  MaxYields  <- MaxEntries

frames == <<held, at, state, yields, raised, thrown, begun, status>>
module == <<entries, asked>>
parser == <<offset, parts>>
walk   == <<frames, module, ns, parser, pos, passed, running, loop, seen>>
-----------------------------------------------------------------------------
(* Transformers: a step on null gives null. *)

\* Mutant of Operand: the index is off by one.
OperandBefore(v, k) == IF v = Null THEN Null ELSE v.operands[1]

Operand(v, k) == IF v = Null THEN Null ELSE v.operands[k + 1]

Cast(v, kind) == IF v # Null /\ v.kind = kind THEN v ELSE Null

\* What is annotated, under the cast of its pointer, if it is what is wanted.
Annotated(e) == Cast(Operand(Operand(Cast(e, "struct"), 0), 0), Wanted)

\* The array that holds the text.
TextArray(e) ==
  Cast(Operand(Cast(Operand(Operand(Cast(e, "struct"), 1), 0), "global"), 0), "data")
-----------------------------------------------------------------------------
(* Dotted names. *)

\* Mutant of Str: a dot after every part so far, an empty one too.
StrAlways(a) == FoldLeft(LAMBDA x, y : x \o <<Dot>> \o y, Head(a), Tail(a))

\* str: a dot comes after what is not empty yet.
Str(a) == FoldLeft(LAMBDA x, y : x \o (IF x # <<>> THEN <<Dot>> ELSE <<>>) \o y, <<>>, a)

GetNamespace(a) == SubSeq(a, 1, Len(a) - 1)

\* Mutant of InNamespace: a namespace is in itself.
InNamespaceOrSame(a, n) ==
  Len(n) <= Len(a) /\ \A i \in DOMAIN n : a[i] = n[i]

\* in_namespace: n is a proper prefix.
InNamespace(a, n) ==
  Len(n) < Len(a) /\ \A i \in DOMAIN n : a[i] = n[i]

WalkInit ==
  /\ Init
  /\ entries \in UNION {[1..n -> Entries] : n \in 0..MaxEntries}
  /\ asked \in Questions
  /\ ns = IF asked.by = "parts" THEN asked.of ELSE <<>>
  /\ offset = IF asked.by = "parts" THEN 0 ELSE 1
  /\ parts = <<>>
  /\ pos = 0
  /\ passed = 0
  /\ running = <<>>
  /\ loop = "before"
  /\ seen = <<>>

\* The bodies that run: the client's, enumerate_in_namespace's, enumerate's.
Client     == running = <<>>
OuterRuns  == running = <<"in_namespace">> /\ loop = "in"
InnerRuns  == running = <<"in_namespace", "enumerate">> /\ loop = "in"

\* What a loop does to go on: ++, or begin() the first time.
Advanced(owner, frame) ==
  IF frame \in begun THEN Increment(owner) ELSE Begin(owner, owner)

\* A resumed coroutine comes back in state s, or with an exception.
Back(owner, frame, s) ==
  /\ Advanced(owner, frame)
  /\ state'[frame] = s
  /\ running' = SubSeq(running, 1, Len(running) - 1)
-----------------------------------------------------------------------------
(* The parser of annotations: one round of its loop is a step. *)

\* The text that is parsed: the client's, then that of the entry.
Source == IF loop = "before" THEN asked.of ELSE TextArray(entries[pos]).text

Dots == {i \in offset..Len(Source) : Source[i] = Dot}

NextDot == Min(Dots)

\* A part that a dot follows.
ParsePart ==
  /\ offset # 0 /\ Dots # {}
  /\ parts' = Append(parts, SubSeq(Source, offset, NextDot - 1))
  /\ offset' = NextDot + 1
  /\ UNCHANGED <<frames, module, ns, pos, passed, running, loop, seen>>

\* All parts, the last one included.
Parsed == Append(parts, SubSeq(Source, offset, Len(Source)))

\* The client has the namespace it asks for.
ParseAsked ==
  /\ Client /\ loop = "before"
  /\ offset # 0 /\ Dots = {}
  /\ ns' = Parsed
  /\ parts' = <<>> /\ offset' = 0
  /\ UNCHANGED <<frames, module, pos, passed, running, loop, seen>>
-----------------------------------------------------------------------------
(* The client: a range-based for over enumerate_in_namespace. *)

Enter ==
  /\ Client /\ loop = "before" /\ offset = 0
  /\ Call("client", "in_namespace")
  /\ loop' = "in"
  /\ UNCHANGED <<module, ns, parser, pos, passed, running, seen>>

\* begin() or ++: resumes the coroutine.
Continue ==
  /\ Client /\ loop = "in" /\ Len(seen) = yields["in_namespace"]
  /\ state["in_namespace"] # "ended"
  /\ running' = <<"in_namespace">>
  /\ UNCHANGED <<frames, module, ns, parser, pos, passed, loop, seen>>

\* Mutant of LoopBody: the element may be read after the loop was left.
LoopBodyDangling ==
  /\ Client /\ loop # "before"
  /\ Len(seen) < yields["in_namespace"]
  /\ Read("client")
  /\ seen' = Append(seen, pos)
  /\ UNCHANGED <<module, ns, parser, pos, passed, running, loop>>

\* The body of the loop reads the element, once.
LoopBody ==
  /\ Client /\ loop = "in"
  /\ state["in_namespace"] = "yielded"
  /\ Len(seen) < yields["in_namespace"]
  /\ Read("client")
  /\ seen' = Append(seen, pos)
  /\ UNCHANGED <<module, ns, parser, pos, passed, running, loop>>

\* The loop ends, is left by a break, or by an exception.
Leave ==
  /\ Client /\ loop = "in"
  /\ state["in_namespace"] \in {"yielded", "ended"}
  /\ loop' = "leaving"
  /\ UNCHANGED <<frames, module, ns, parser, pos, passed, running, seen>>

\* The generator of the loop is destroyed, and its frame with it; if that is
\* suspended in its loop, it holds a generator, which goes first.
DestroyInner ==
  /\ Client /\ loop = "leaving"
  /\ held["nested"] # "gone"
  /\ Destroy("nested")
  /\ UNCHANGED <<module, ns, parser, pos, passed, running, loop, seen>>

\* Mutant of DestroyOuter: the locals in the frame are not destroyed.
DestroyOuterAlone ==
  /\ Client /\ loop = "leaving"
  /\ Destroy("client")
  /\ loop' = "after"
  /\ UNCHANGED <<module, ns, parser, pos, passed, running, seen>>

DestroyOuter ==
  /\ Client /\ loop = "leaving"
  /\ held["nested"] = "gone"
  /\ Destroy("client")
  /\ loop' = "after"
  /\ UNCHANGED <<module, ns, parser, pos, passed, running, seen>>
-----------------------------------------------------------------------------
(* enumerate_in_namespace. *)

CallEnumerate ==
  /\ OuterRuns
  /\ state["enumerate"] = "unmade"
  /\ Call("nested", "enumerate")
  /\ UNCHANGED <<module, ns, parser, pos, passed, running, loop, seen>>

Current == parts

\* Mutant of ContinueInner: the loop asks for more once it has ended.
ContinueInnerAnyway ==
  /\ OuterRuns
  /\ \/ state["enumerate"] \in {"start", "ended"}
     \/ /\ state["enumerate"] = "yielded"
        /\ InNamespace(Current, ns) => passed = pos
  /\ running' = <<"in_namespace", "enumerate">>
  /\ UNCHANGED <<frames, module, ns, parser, pos, passed, loop, seen>>

\* Its loop goes on: it begins, or the element is in another namespace, or
\* has been yielded.
ContinueInner ==
  /\ OuterRuns
  /\ \/ state["enumerate"] = "start"
     \/ /\ state["enumerate"] = "yielded"
        /\ InNamespace(Current, ns) => passed = pos
  /\ running' = <<"in_namespace", "enumerate">>
  /\ UNCHANGED <<frames, module, ns, parser, pos, passed, loop, seen>>

\* Mutant of PassOn: the last element is yielded once more at the end.
PassOnAtEnd ==
  /\ OuterRuns
  /\ state["enumerate"] = "ended" \/ (state["enumerate"] = "yielded" /\ passed # pos)
  /\ pos # 0 /\ InNamespace(Current, ns)
  /\ Back("client", "in_namespace", "yielded")
  /\ passed' = pos
  /\ UNCHANGED <<module, ns, parser, pos, loop, seen>>

\* It yields a reference to the element.
PassOn ==
  /\ OuterRuns
  /\ state["enumerate"] = "yielded"
  /\ InNamespace(Current, ns) /\ passed # pos
  /\ Back("client", "in_namespace", "yielded")
  /\ passed' = pos
  /\ UNCHANGED <<module, ns, parser, pos, loop, seen>>

\* Its loop is over, or an exception came out of it: the generator of that
\* loop is destroyed before the coroutine returns or throws.
LeaveInner ==
  /\ OuterRuns
  /\ state["enumerate"] = "ended"
  /\ Destroy("nested")
  /\ UNCHANGED <<module, ns, parser, pos, passed, running, loop, seen>>

\* Mutant of OuterEnds: an exception ends the loop like any end.
OuterEndsQuietly ==
  /\ OuterRuns
  /\ state["enumerate"] = "freed"
  /\ Back("client", "in_namespace", "ended")
  /\ status' = "ok"
  /\ UNCHANGED <<module, ns, parser, pos, passed, loop, seen>>

OuterEnds ==
  /\ OuterRuns
  /\ state["enumerate"] = "freed"
  /\ Back("client", "in_namespace", "ended")
  /\ status' = IF "enumerate" \in raised THEN "threw" ELSE "ok"
  /\ UNCHANGED <<module, ns, parser, pos, passed, loop, seen>>
-----------------------------------------------------------------------------
(* enumerate. *)

\* The entries from the one after pos on whose value fits.
Fitting == {k \in DOMAIN entries : k > pos /\ Annotated(entries[k]) # Null}

\* It goes on to the next one and begins to parse its text, if that is an
\* array of data; that of an empty text is not, and is null.
Reach ==
  /\ InnerRuns /\ offset = 0
  /\ Fitting # {}
  /\ pos' = Min(Fitting)
  /\ parts' = <<>>
  /\ IF TextArray(entries[pos']) = Null
     THEN loop' = "crashed" /\ UNCHANGED offset
     ELSE offset' = 1 /\ UNCHANGED loop
  /\ UNCHANGED <<frames, module, ns, passed, running, seen>>

\* It yields the annotation: a temporary that lives until it is resumed.
YieldNext ==
  /\ InnerRuns /\ offset # 0 /\ Dots = {}
  /\ Back("nested", "enumerate", "yielded")
  /\ parts' = Parsed /\ offset' = 0
  /\ UNCHANGED <<module, ns, pos, passed, loop, seen>>

\* It is through, or fails to copy the text of an annotation.
InnerEnds ==
  /\ InnerRuns
  /\ Back("nested", "enumerate", "ended")
  /\ \/ offset = 0 /\ Fitting = {} /\ status' = "ok"
     \/ offset # 0 /\ status' = "threw"
  /\ offset' = 0
  /\ UNCHANGED <<module, ns, parts, pos, passed, loop, seen>>
-----------------------------------------------------------------------------
WalkNext ==
  \/ ParsePart \/ ParseAsked
  \/ Enter \/ Continue \/ LoopBody \/ Leave \/ DestroyInner \/ DestroyOuter
  \/ CallEnumerate \/ ContinueInner \/ PassOn \/ LeaveInner \/ OuterEnds
  \/ Reach \/ YieldNext \/ InnerEnds

WalkSpec == WalkInit /\ [][WalkNext]_walk /\ WF_walk(WalkNext)
-----------------------------------------------------------------------------
(* What the entries and their texts say, without transformers and parts. *)

\* An entry is about a value of the kind wanted, under the cast of its pointer.
Fits(k) ==
  /\ entries[k].kind = "struct" /\ entries[k].operands[1].kind = "cast"
  /\ entries[k].operands[1].operands[1].kind = Wanted

Text(k) == entries[k].operands[2].operands[1].operands[1]

HasText(k) == Text(k).kind = "data"

TextOf(k) == Text(k).text

Joined(a) ==
  FlattenSeq([i \in DOMAIN a |-> IF i = 1 THEN a[i] ELSE <<Dot>> \o a[i]])

Undotted(text) == \A i \in DOMAIN text : text[i] # Dot

\* Cut at its dots, the text is a up to end, where a dot is, or its own end.
CutUpTo(text, a, end) ==
  \E cut \in [0..Len(a) -> 0..end] :
    /\ cut[0] = 0 /\ cut[Len(a)] = end
    /\ \A i, j \in 0..Len(a) : i < j => cut[i] < cut[j]
    /\ \A i \in 1..Len(a) :
         /\ a[i] = SubSeq(text, cut[i - 1] + 1, cut[i] - 1) /\ Undotted(a[i])
         /\ cut[i] <= Len(text) => text[cut[i]] = Dot

\* A text is below a namespace given as a text if that and a dot begin it;
\* below one given as parts, if it is these up to some dot.
Below(text) ==
  IF asked.by = "text" THEN IsPrefix(asked.of \o <<Dot>>, text)
  ELSE \E end \in 0..Len(text) : CutUpTo(text, asked.of, end)

Selected ==
  {k \in DOMAIN entries : Fits(k) /\ HasText(k) /\ Below(TextOf(k))}

\* Both loops keep the contract of a loop over a generator, whatever is
\* resumed from where: each step is one that LoopSpec allows.
KeepsContract == LoopSpec

\* Does the client have an element to read?
AtElement == Client /\ loop = "in" /\ state["in_namespace"] = "yielded"

\* The element the client reads lies in the frame of enumerate, which is
\* suspended where it made it (annotation.tpp:42, 51-53).
ElementAlive == AtElement => state["enumerate"] = "yielded" /\ passed = pos

\* The client sees each annotation once, in the order of the module.
SeesInOrder == \A i, j \in DOMAIN seen : i < j => seen[i] < seen[j]

\* The client sees the fitting annotations whose texts are below the
\* namespace, in the order of the module; all of them, unless it leaves the
\* loop or it throws (annotation.hpp:41-54, annotation.tpp:29-53).
SeesSelected ==
  /\ SeesInOrder
  /\ \A i \in DOMAIN seen :
       /\ seen[i] \in Selected
       /\ \A k \in Selected : k < seen[i] => \E j \in 1..i : seen[j] = k
  /\ state["in_namespace"] = "ended" /\ raised = {} =>
       Selected \subseteq {seen[i] : i \in DOMAIN seen}

\* An annotation is what its text says: its parts hold no dot, and are the
\* text again with dots between them; it is printed as its text, without the
\* dots that begins with; and it is in its own namespace, named by its last
\* part (annotation.hpp:46-54, annotation.cpp:22-54).
NamesSurvive ==
  AtElement =>
    /\ Joined(Current) = TextOf(pos)
    /\ \A i \in DOMAIN Current : Undotted(Current[i])
    /\ \E dots \in 0..Len(TextOf(pos)) :
         /\ \A i \in 1..dots : TextOf(pos)[i] = Dot
         /\ Str(Current) = SubSeq(TextOf(pos), dots + 1, Len(TextOf(pos)))
         /\ Str(Current) # <<>> => Head(Str(Current)) # Dot
    /\ InNamespace(Current, GetNamespace(Current))
    /\ Joined(Append(GetNamespace(Current), Last(Current))) = TextOf(pos)

\* The loop crashes at an annotation that fits and has an empty text, and
\* never gets past one (annotation.tpp:36-42).
CrashesAtEmpty ==
  /\ loop = "crashed" => Fits(pos) /\ ~HasText(pos)
  /\ loop # "crashed" => \A k \in 1..pos : Fits(k) => HasText(k)

\* However the loop was left, no frame is left behind.
NothingLeaks == loop = "after" => \A f \in DOMAIN state : state[f] \notin Live

\* An exception of enumerate reaches the client of enumerate_in_namespace.
ThrowPropagates ==
  state["in_namespace"] = "ended" =>
    ("enumerate" \in raised <=> "in_namespace" \in raised)

\* Every loop comes to its end, and lets go of its generator, unless it crashes;
\* every text is parsed to its end before.
LoopEnds == <>(loop \in {"after", "crashed"})
-----------------------------------------------------------------------------
(* What these properties rest on. *)

WalkTypeOK ==
  /\ TypeOK
  /\ entries \in UNION {[1..n -> Entries] : n \in 0..MaxEntries}
  /\ pos \in DOMAIN entries \cup {0} /\ passed \in 0..pos
  /\ running \in {<<>>, <<"in_namespace">>, <<"in_namespace", "enumerate">>}
  /\ loop \in {"before", "in", "leaving", "after", "crashed"}
  /\ seen \in Seq(Nat)

\* The loop of owner over frame: it holds the frame while that lives, and its
\* iterator stands on it from the first yield on.
Loops(owner, frame) ==
  /\ held[owner] = IF state[frame] \in Live THEN frame ELSE "gone"
  /\ state[frame] \in {"unmade", "start"} => frame \notin begun
  /\ state[frame] = "yielded" =>
       frame \in begun /\ at[owner] = frame /\ yields[frame] > 0
  /\ frame \in raised => state[frame] \in {"ended", "freed"}

Nested == Loops("client", "in_namespace") /\ Loops("nested", "enumerate")

\* Where the two coroutines are suspended while the bodies run that do.
Suspended ==
  LET outer == state["in_namespace"]
      inner == state["enumerate"]
  IN /\ running # <<>> => loop \in {"in", "crashed"} /\ outer \in {"start", "yielded"}
     /\ Len(running) = 2 => inner \in {"start", "yielded"}
     /\ loop = "crashed" => Len(running) = 2
     /\ loop = "before" => outer = "unmade" /\ inner = "unmade"
     /\ AtElement => inner = "yielded" /\ passed = pos
     /\ Client /\ loop = "in" =>
          \/ outer = "start" /\ inner = "unmade"
          \/ outer = "yielded" /\ inner = "yielded"
          \/ outer = "ended" /\ inner = "freed"
     /\ loop = "leaving" =>
          \/ outer = "yielded" /\ inner \in {"yielded", "freed"}
          \/ outer = "ended" /\ inner = "freed"
     /\ loop = "after" => outer = "freed" /\ inner = "freed"

\* The client has seen every element that was yielded to it but the last one,
\* at which it is if it has not read that yet.
Behind ==
  /\ \A i \in DOMAIN seen : seen[i] <= passed
  /\ \/ Len(seen) = yields["in_namespace"]
     \/ /\ Len(seen) + 1 = yields["in_namespace"]
        /\ Client /\ \A i \in DOMAIN seen : seen[i] < passed

NestedIInv ==
  /\ WalkTypeOK /\ Nested /\ NeverCrashes /\ Suspended
  /\ ThrowPropagates /\ CrashesAtEmpty /\ Behind /\ SeesInOrder
-----------------------------------------------------------------------------
(* What SeesSelected rests on besides. *)

ParserTypeOK ==
  /\ asked \in Questions
  /\ ns \in Seq(Seq(Characters)) /\ parts \in Seq(Seq(Characters)) /\ offset \in Nat

\* The client's namespace is what it asked for.
Made ==
  IF asked.by = "text" THEN CutUpTo(asked.of, ns, Len(asked.of) + 1) ELSE ns = asked.of

\* The text that the walk is at, and how far it is parsed.
Parsing ==
  /\ offset # 0 =>
       /\ offset - 1 <= Len(Source) /\ CutUpTo(Source, parts, offset - 1)
       /\ \/ loop = "before" /\ asked.by = "text"
          \/ InnerRuns /\ pos # 0 /\ Fits(pos) /\ HasText(pos)
  /\ offset = 0 \/ loop # "before" => Made
  /\ state["enumerate"] = "yielded" /\ Len(running) # 2 =>
       /\ pos # 0 /\ Fits(pos) /\ HasText(pos)
       /\ CutUpTo(TextOf(pos), parts, Len(TextOf(pos)) + 1)

Seen == {seen[i] : i \in DOMAIN seen}

\* Nothing else is seen than what is selected, and all of that before pos is;
\* when enumerate goes on from pos or is through, pos too.
Complete ==
  /\ passed \in Selected \cup {0} /\ Seen \subseteq Selected
  /\ Len(seen) = yields["in_namespace"] => passed \in Seen \cup {0}
  /\ state["enumerate"] \in {"unmade", "start"} /\ Len(running) # 2 => pos = 0
  /\ \A k \in Selected : k < pos => k \in Seen
  /\ InnerRuns /\ offset = 0 => (pos \in Selected => pos \in Seen)
  /\ state["enumerate"] \in {"ended", "freed"} /\ "enumerate" \notin raised
       /\ (loop = "in" \/ state["in_namespace"] = "ended") => Selected \subseteq Seen

WalkIInv == NestedIInv /\ ParserTypeOK /\ Parsing /\ Complete
=============================================================================
