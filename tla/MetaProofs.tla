----------------------------- MODULE MetaProofs -----------------------------
(***************************************************************************)
(* Proofs about Meta.  IInv is inductive: what keeps the strings that were *)
(* set is that no two values share a tuple, so that a change in place is a *)
(* change of one value.                                                    *)
(***************************************************************************)
EXTENDS Meta, SequenceTheorems, TLAPS

USE ArityAssumption, StringsAssumption, AnswersAssumption DEF Nodes, metadata

LEMMA ArgsAreKeys == \A f \in Functions : \A i \in 1..Arity[f] : <<f, i>> \in Args /\ <<f, i>> \in Keys
  BY DEF Args, Keys

LEMMA IInvInit == Init => IInv
<1> SUFFICES ASSUME Init PROVE IInv
  OBVIOUS
<1>1. TypeOK
  BY DEF Init, TypeOK
<1>2. TuplesUnshared
  BY DEF Init, TuplesUnshared
<1>3. HoldersWritten
  BY DEF Init, HoldersWritten, Keys
<1>4. ArgumentsWritten
  <2>1. \A f \in Functions : meta[<<f, Arguments>>] = 0
    BY DEF Init, Holders
  <2>2. \A f \in Functions : \A i \in 1..Arity[f] : written[<<f, i>>] = None
    BY ArgsAreKeys DEF Init
  <2> QED BY <2>1, <2>2 DEF ArgumentsWritten
<1> QED BY <1>1, <1>2, <1>3, <1>4 DEF Init, IInv

\* What both setters keep of the tuples there were.
Extends(ts) ==
  /\ ts \in Seq(Seq(Nodes))
  /\ Len(tuples) <= Len(ts)
  /\ \A k \in 1..Len(tuples) : ts[k] = tuples[k]

LEMMA CreatedExtends ==
  ASSUME TypeOK, NEW ops \in Seq(Nodes)
  PROVE  LET new == Created(ops) IN
         /\ Extends(new.tuples)
         /\ new.id = Len(tuples) + 1
         /\ Len(new.tuples) = new.id
         /\ new.tuples[new.id] = ops
  BY DEF Created, Extends, TypeOK
-----------------------------------------------------------------------------
\* A new tuple for a function, an instruction or a global variable.
LEMMA SetKeeps ==
  ASSUME IInv, NEW v \in Holders, NEW tag \in Tags, NEW str \in Strings,
         context # None, Set(v, tag, str), kept' \in BOOLEAN,
         kept' => kept /\ (v \in Functions => tag # Arguments)
  PROVE  IInv'
<1> DEFINE key == <<v, tag>>
           new == Created(<<str>>)
<1>1. /\ Extends(tuples') /\ Len(tuples') = Len(tuples) + 1
      /\ tuples'[Len(tuples) + 1] = <<str>>
      /\ meta' = [meta EXCEPT ![key] = Len(tuples) + 1]
  <2>1. tuples' = new.tuples /\ meta' = [meta EXCEPT ![key] = new.id]
    BY DEF Set, Crash
  <2>2. <<str>> \in Seq(Nodes) /\ TypeOK
    BY DEF IInv
  <2> HIDE DEF new
  <2>3. /\ Extends(new.tuples) /\ new.id = Len(tuples) + 1
        /\ Len(new.tuples) = new.id /\ new.tuples[new.id] = <<str>>
    BY <2>2, CreatedExtends DEF new
  <2> QED BY <2>1, <2>3
<1>2. /\ written' = [written EXCEPT ![key] = str]
      /\ status' = "ok" /\ context' = context /\ answer' = answer
  BY DEF Set, Crash
<1>3. key \in Holders \X Tags /\ key \in Keys
  BY DEF Keys
<1>4. /\ meta \in [Holders \X Tags -> 0..Len(tuples)]
      /\ written \in [Keys -> Nodes \cup {None}]
      /\ context \in Contexts \cup {None} /\ Len(tuples) \in Nat /\ answer \in {None, Dangling}
  BY DEF IInv, TypeOK
<1>5. TypeOK'
  <2>1. meta' \in [Holders \X Tags -> 0..Len(tuples')]
    BY <1>1, <1>3, <1>4
  <2>2. written' \in [Keys -> Nodes \cup {None}]
    BY <1>2, <1>3, <1>4
  <2> QED BY <1>1, <1>2, <1>4, <2>1, <2>2 DEF TypeOK, Extends
<1>6. TuplesUnshared'
  <2> SUFFICES ASSUME NEW k \in Holders \X Tags, NEW l \in Holders \X Tags,
                      meta'[k] = meta'[l], meta'[k] # 0
               PROVE  k = l
    BY <1>1, <1>4 DEF TuplesUnshared
  <2>1. \A x \in Holders \X Tags : meta'[x] = IF x = key THEN Len(tuples) + 1 ELSE meta[x]
    BY <1>1, <1>4
  <2>2. \A x \in Holders \X Tags : meta[x] # Len(tuples) + 1
    BY <1>4
  <2>3. meta[k] = meta[l] /\ meta[k] # 0 => k = l
    BY <1>4 DEF IInv, TuplesUnshared
  <2> HIDE DEF key
  <2> QED BY <2>1, <2>2, <2>3
<1>7. HoldersWritten'
  <2> SUFFICES ASSUME NEW w \in Holders, NEW t \in Tags, ~(w \in Functions /\ t = Arguments)
               PROVE  IF written'[<<w, t>>] = None THEN meta'[<<w, t>>] = 0
                      ELSE /\ meta'[<<w, t>>] # 0 /\ tuples'[meta'[<<w, t>>]] = <<written'[<<w, t>>]>>
                           /\ written'[<<w, t>>] \in Strings
    BY DEF HoldersWritten
  <2>1. CASE <<w, t>> = key
    <3>1. written'[<<w, t>>] = str /\ meta'[<<w, t>>] = Len(tuples) + 1
      BY <1>1, <1>2, <1>3, <1>4, <2>1
    <3> QED BY <1>1, <1>4, <3>1
  <2>2. CASE <<w, t>> # key
    <3>1. <<w, t>> \in Holders \X Tags /\ <<w, t>> \in Keys
      BY DEF Keys
    <3>2. written'[<<w, t>>] = written[<<w, t>>] /\ meta'[<<w, t>>] = meta[<<w, t>>]
      BY <1>1, <1>2, <1>4, <2>2, <3>1
    <3>3. meta[<<w, t>>] # 0 => tuples'[meta[<<w, t>>]] = tuples[meta[<<w, t>>]]
      BY <1>1, <1>4, <3>1 DEF Extends
    <3> QED BY <3>2, <3>3 DEF IInv, HoldersWritten
  <2> QED BY <2>1, <2>2
<1>8. ASSUME kept' PROVE ArgumentsWritten'
  <2>1. ArgumentsWritten /\ (v \in Functions => tag # Arguments)
    BY <1>8 DEF IInv
  <2> SUFFICES ASSUME NEW f \in Functions
               PROVE  LET id == meta'[<<f, Arguments>>] IN
                      /\ id # 0 => Len(tuples'[id]) = Arity[f]
                      /\ \A i \in 1..Arity[f] : written'[<<f, i>>] \in Strings \cup {None}
                      /\ \A i \in 1..Arity[f] :
                           IF id = 0 THEN written'[<<f, i>>] = None
                           ELSE tuples'[id][i] = IF written'[<<f, i>>] = None THEN NoMeta
                                                 ELSE written'[<<f, i>>]
    BY DEF ArgumentsWritten
  <2>2. <<f, Arguments>> \in Holders \X Tags /\ <<f, Arguments>> # key
    BY <2>1 DEF Holders
  <2>3. meta'[<<f, Arguments>>] = meta[<<f, Arguments>>]
    BY <1>1, <1>4, <2>2
  <2>4. \A i \in 1..Arity[f] : written'[<<f, i>>] = written[<<f, i>>]
    <3>1. \A i \in 1..Arity[f] : <<f, i>> \in Keys
      BY ArgsAreKeys
    <3>2. \A i \in 1..Arity[f] : <<f, i>> # key
      BY TagsAssumption
    <3> QED BY <1>2, <1>4, <3>1, <3>2
  <2>5. meta[<<f, Arguments>>] # 0 =>
          tuples'[meta[<<f, Arguments>>]] = tuples[meta[<<f, Arguments>>]]
    BY <1>1, <1>4, <2>2 DEF Extends
  <2> QED BY <2>1, <2>3, <2>4, <2>5 DEF ArgumentsWritten
<1> QED BY <1>2, <1>5, <1>6, <1>7, <1>8 DEF IInv
-----------------------------------------------------------------------------
(***************************************************************************)
(* The tuple of the arguments of f, before an operand of it is replaced:   *)
(* nothing else has it, and it holds what was written, if the client kept  *)
(* to TaggedCall.                                                          *)
(***************************************************************************)
LEMMA InitialisedFacts ==
  ASSUME IInv, NEW f \in Functions
  PROVE  LET init == Initialised(f) IN
         /\ Extends(init.tuples)
         /\ init.id \in 1..Len(init.tuples)
         /\ \A k \in Holders \X Tags : meta[k] = init.id => k = <<f, Arguments>>
         /\ kept => Len(init.tuples[init.id]) = Arity[f]
         /\ kept => \A i \in 1..Arity[f] :
              init.tuples[init.id][i] =
                IF written[<<f, i>>] = None THEN NoMeta ELSE written[<<f, i>>]
<1> DEFINE key == <<f, Arguments>>
           init == Initialised(f)
<1>1. /\ key \in Holders \X Tags /\ TypeOK
      /\ meta \in [Holders \X Tags -> 0..Len(tuples)] /\ Len(tuples) \in Nat
  BY DEF IInv, TypeOK, Holders
<1>2. CASE meta[key] # 0
  <2>1. init.id = meta[key] /\ init.tuples = tuples
    BY <1>2 DEF Initialised
  <2>2. Extends(tuples)
    BY <1>1 DEF Extends, TypeOK
  <2>3. meta[key] \in 1..Len(tuples)
    BY <1>1, <1>2
  <2>4. \A k \in Holders \X Tags : meta[k] = meta[key] => k = key
    BY <1>1, <1>2 DEF IInv, TuplesUnshared
  <2>5. kept => /\ Len(tuples[meta[key]]) = Arity[f]
                /\ \A i \in 1..Arity[f] :
                     tuples[meta[key]][i] =
                       IF written[<<f, i>>] = None THEN NoMeta ELSE written[<<f, i>>]
    BY <1>2 DEF IInv, ArgumentsWritten
  <2> HIDE DEF key, init
  <2> QED BY <2>1, <2>2, <2>3, <2>4, <2>5 DEF key, init
<1>3. CASE meta[key] = 0
  <2> DEFINE ops == [i \in 1..Arity[f] |-> NoMeta]
  <2>1. ops \in Seq(Nodes) /\ Len(ops) = Arity[f] /\ \A i \in 1..Arity[f] : ops[i] = NoMeta
    OBVIOUS
  <2>2. init = Created(ops)
    BY <1>3 DEF Initialised
  <2> HIDE DEF ops, init
  <2>3. /\ Extends(init.tuples) /\ init.id = Len(tuples) + 1
        /\ Len(init.tuples) = init.id /\ init.tuples[init.id] = ops
    BY <1>1, <2>1, <2>2, CreatedExtends
  <2>4. init.id \in 1..Len(init.tuples)
    BY <1>1, <2>3
  <2>5. \A k \in Holders \X Tags : meta[k] # init.id
    BY <1>1, <2>3
  <2>6. kept => \A i \in 1..Arity[f] : written[<<f, i>>] = None
    BY <1>3 DEF IInv, ArgumentsWritten
  <2> QED BY <2>1, <2>3, <2>4, <2>5, <2>6 DEF init
<1> QED BY <1>2, <1>3

\* An operand of the tuple of the arguments of f is replaced.
LEMMA SetArgumentKeeps ==
  ASSUME IInv, NEW f \in Functions, NEW i \in 1..Arity[f], NEW node \in Nodes,
         context # None, SetArgument(f, i, node), kept' \in BOOLEAN,
         kept' => kept /\ node \in Strings
  PROVE  IInv'
<1> DEFINE key == <<f, Arguments>>
           init == Initialised(f)
           ts == init.tuples
           id == init.id
<1>1. /\ Extends(ts) /\ id \in 1..Len(ts)
      /\ \A k \in Holders \X Tags : meta[k] = id => k = key
      /\ kept => Len(ts[id]) = Arity[f]
      /\ kept => \A j \in 1..Arity[f] :
           ts[id][j] = IF written[<<f, j>>] = None THEN NoMeta ELSE written[<<f, j>>]
  BY InitialisedFacts
<1>2. \/ i > Len(ts[id]) /\ Crash
      \/ /\ i <= Len(ts[id])
         /\ tuples' = [ts EXCEPT ![id][i] = node]
         /\ meta' = [meta EXCEPT ![key] = id]
         /\ written' = [written EXCEPT ![<<f, i>>] = node]
         /\ status' = "ok" /\ context' = context /\ answer' = answer
  BY DEF SetArgument
<1> HIDE DEF init, ts, id
<1>3. /\ key \in Holders \X Tags
      /\ meta \in [Holders \X Tags -> 0..Len(tuples)]
      /\ written \in [Keys -> Nodes \cup {None}]
      /\ context \in Contexts \cup {None} /\ answer \in {None, Dangling}
      /\ tuples \in Seq(Seq(Nodes)) /\ Len(tuples) \in Nat
      /\ ts \in Seq(Seq(Nodes)) /\ Len(ts) \in Nat /\ Len(tuples) <= Len(ts)
      /\ ts[id] \in Seq(Nodes) /\ Len(ts[id]) \in Nat
      /\ Arity[f] \in Nat
  <2>1. /\ key \in Holders \X Tags /\ Arity[f] \in Nat
        /\ meta \in [Holders \X Tags -> 0..Len(tuples)]
        /\ written \in [Keys -> Nodes \cup {None}]
        /\ context \in Contexts \cup {None} /\ tuples \in Seq(Seq(Nodes))
        /\ answer \in {None, Dangling}
    BY DEF IInv, TypeOK, Holders
  <2>2. ts \in Seq(Seq(Nodes)) /\ Len(tuples) <= Len(ts)
    BY <1>1 DEF Extends
  <2>3. ts[id] \in Seq(Nodes)
    BY <1>1, <2>2, ElementOfSeq
  <2> QED BY <2>1, <2>2, <2>3, LenProperties
<1>4. <<f, i>> \in Keys
  BY ArgsAreKeys
<1>5. CASE i > Len(ts[id]) /\ Crash
  <2>1. ~kept'
    BY <1>1, <1>3, <1>5
  <2>2. TypeOK' /\ TuplesUnshared' /\ HoldersWritten'
    BY <1>5 DEF Crash, IInv, TypeOK, TuplesUnshared, HoldersWritten
  <2> QED BY <2>1, <2>2 DEF IInv
<1>6. CASE /\ i <= Len(ts[id])
           /\ tuples' = [ts EXCEPT ![id][i] = node]
           /\ meta' = [meta EXCEPT ![key] = id]
           /\ written' = [written EXCEPT ![<<f, i>>] = node]
           /\ status' = "ok" /\ context' = context /\ answer' = answer
  <2> DEFINE ops == [ts[id] EXCEPT ![i] = node]
  <2>1. /\ ops \in Seq(Nodes) /\ Len(ops) = Len(ts[id])
        /\ \A j \in 1..Len(ts[id]) : ops[j] = IF j = i THEN node ELSE ts[id][j]
    BY <1>3, <1>6, ExceptSeq
  <2>2. tuples' = [ts EXCEPT ![id] = ops]
    BY <1>6
  <2> HIDE DEF ops
  <2>3. /\ tuples' \in Seq(Seq(Nodes)) /\ Len(tuples') = Len(ts)
        /\ \A k \in 1..Len(ts) : tuples'[k] = IF k = id THEN ops ELSE ts[k]
    BY <1>1, <1>3, <2>1, <2>2, ExceptSeq
  <2>4. \A k \in Holders \X Tags : meta'[k] = IF k = key THEN id ELSE meta[k]
    BY <1>3, <1>6
  <2>5. \A k \in Holders \X Tags :
          k # key /\ meta[k] # 0 => meta[k] # id /\ tuples'[meta[k]] = tuples[meta[k]]
    <3> SUFFICES ASSUME NEW k \in Holders \X Tags, k # key, meta[k] # 0
                 PROVE  meta[k] # id /\ tuples'[meta[k]] = tuples[meta[k]]
      OBVIOUS
    <3>1. meta[k] \in 1..Len(tuples) /\ meta[k] \in 1..Len(ts)
      BY <1>3
    <3>2. meta[k] # id
      BY <1>1
    <3> QED BY <1>1, <2>3, <3>1, <3>2 DEF Extends
  <2>6. TypeOK'
    <3>1. meta' \in [Holders \X Tags -> 0..Len(tuples')]
      BY <1>1, <1>3, <1>6, <2>3
    <3>2. written' \in [Keys -> Nodes \cup {None}]
      BY <1>3, <1>4, <1>6
    <3> QED BY <1>3, <1>6, <2>3, <3>1, <3>2 DEF TypeOK
  <2>7. TuplesUnshared'
    <3> SUFFICES ASSUME NEW k \in Holders \X Tags, NEW l \in Holders \X Tags,
                        meta'[k] = meta'[l], meta'[k] # 0
                 PROVE  k = l
      BY <1>3, <1>6 DEF TuplesUnshared
    <3>1. meta[k] = meta[l] /\ meta[k] # 0 => k = l
      BY <1>3 DEF IInv, TuplesUnshared
    <3> HIDE DEF key
    <3> QED BY <1>1, <2>4, <3>1
  <2>8. HoldersWritten'
    <3> SUFFICES ASSUME NEW v \in Holders, NEW t \in Tags, ~(v \in Functions /\ t = Arguments)
                 PROVE  IF written'[<<v, t>>] = None THEN meta'[<<v, t>>] = 0
                        ELSE /\ meta'[<<v, t>>] # 0 /\ tuples'[meta'[<<v, t>>]] = <<written'[<<v, t>>]>>
                             /\ written'[<<v, t>>] \in Strings
      BY DEF HoldersWritten
    <3>1. <<v, t>> \in Holders \X Tags /\ <<v, t>> \in Keys /\ <<v, t>> # key
      BY DEF Keys
    <3>2. <<v, t>> # <<f, i>>
      BY TagsAssumption
    <3>3. written'[<<v, t>>] = written[<<v, t>>]
      BY <1>3, <1>6, <3>1, <3>2
    <3>4. meta'[<<v, t>>] = meta[<<v, t>>]
      BY <2>4, <3>1
    <3>5. meta[<<v, t>>] # 0 => tuples'[meta[<<v, t>>]] = tuples[meta[<<v, t>>]]
      BY <2>5, <3>1
    <3> QED BY <3>3, <3>4, <3>5 DEF IInv, HoldersWritten
  <2>9. ASSUME kept' PROVE ArgumentsWritten'
    <3>1. kept /\ ArgumentsWritten /\ node \in Strings
      BY <2>9 DEF IInv
    <3> SUFFICES ASSUME NEW g \in Functions
                 PROVE  LET n == meta'[<<g, Arguments>>] IN
                        /\ n # 0 => Len(tuples'[n]) = Arity[g]
                        /\ \A j \in 1..Arity[g] : written'[<<g, j>>] \in Strings \cup {None}
                        /\ \A j \in 1..Arity[g] :
                             IF n = 0 THEN written'[<<g, j>>] = None
                             ELSE tuples'[n][j] = IF written'[<<g, j>>] = None THEN NoMeta
                                                  ELSE written'[<<g, j>>]
      BY DEF ArgumentsWritten
    <3>2. CASE g = f
      <4>1. meta'[<<g, Arguments>>] = id /\ id # 0 /\ tuples'[id] = ops
        BY <1>1, <1>3, <2>3, <2>4, <3>2
      <4>2. Len(ops) = Arity[f]
        BY <1>1, <2>1, <3>1
      <4>3. \A j \in 1..Arity[f] : written'[<<f, j>>] = IF j = i THEN node ELSE written[<<f, j>>]
        <5>1. \A j \in 1..Arity[f] : <<f, j>> \in Keys
          BY ArgsAreKeys
        <5> QED BY <1>3, <1>6, <5>1
      <4>4. \A j \in 1..Arity[f] :
              ops[j] = IF written'[<<f, j>>] = None THEN NoMeta ELSE written'[<<f, j>>]
        BY <1>1, <2>1, <3>1, <4>2, <4>3
      <4>5. \A j \in 1..Arity[f] : written'[<<f, j>>] \in Strings \cup {None}
        BY <3>1, <4>3 DEF ArgumentsWritten
      <4> QED BY <3>2, <4>1, <4>2, <4>4, <4>5
    <3>3. CASE g # f
      <4>1. <<g, Arguments>> \in Holders \X Tags /\ <<g, Arguments>> # key
        BY <3>3 DEF Holders
      <4>2. meta'[<<g, Arguments>>] = meta[<<g, Arguments>>]
        BY <2>4, <4>1
      <4>3. meta[<<g, Arguments>>] # 0 =>
              tuples'[meta[<<g, Arguments>>]] = tuples[meta[<<g, Arguments>>]]
        BY <2>5, <4>1
      <4>4. \A j \in 1..Arity[g] : written'[<<g, j>>] = written[<<g, j>>]
        <5>1. \A j \in 1..Arity[g] : <<g, j>> \in Keys /\ <<g, j>> # <<f, i>>
          BY <3>3, ArgsAreKeys
        <5> QED BY <1>3, <1>6, <5>1
      <4> QED BY <3>1, <4>2, <4>3, <4>4 DEF ArgumentsWritten
    <3> QED BY <3>2, <3>3
  <2> QED BY <1>6, <2>6, <2>7, <2>8, <2>9 DEF IInv
<1> QED BY <1>2, <1>5, <1>6
-----------------------------------------------------------------------------
LEMMA CrashKeeps ==
  ASSUME IInv, Crash, kept' = FALSE
  PROVE  IInv'
  BY DEF IInv, Crash, TypeOK, TuplesUnshared, HoldersWritten

LEMMA AnsweredKeeps ==
  ASSUME IInv, NEW ans \in {None, Dangling}, Answered(ans), kept' \in BOOLEAN, kept' => kept
  PROVE  IInv'
  BY DEF IInv, Answered, TypeOK, TuplesUnshared, HoldersWritten, ArgumentsWritten

LEMMA AskKeeps ==
  ASSUME IInv, NEW id, NEW idx, Ask(id, idx), kept' \in BOOLEAN, kept' => kept /\ Readable(id, idx)
  PROVE  IInv'
<1>1. CASE Readable(id, idx)
  <2>1. Answered(Value(id, idx))
    BY <1>1 DEF Ask
  <2>2. Value(id, idx) \in {None, Dangling}
    BY DEF Value, Text
  <2> QED BY <2>1, <2>2, AnsweredKeeps
<1>2. CASE ~Readable(id, idx)
  <2>1. Crash /\ kept' = FALSE
    BY <1>2 DEF Ask
  <2> QED BY <2>1, CrashKeeps
<1> QED BY <1>1, <1>2

\* A client that keeps to TaggedCall reads operands that are there.
LEMMA TaggedReadable ==
  ASSUME IInv, kept, NEW f \in Functions, NEW i \in 1..Arity[f]
  PROVE  Readable(meta[<<f, Arguments>>], i)
<1> DEFINE id == meta[<<f, Arguments>>]
<1>1. /\ id # 0 => Len(tuples[id]) = Arity[f]
      /\ written[<<f, i>>] \in Strings \cup {None}
      /\ id # 0 => tuples[id][i] = IF written[<<f, i>>] = None THEN NoMeta ELSE written[<<f, i>>]
  BY DEF IInv, ArgumentsWritten
<1>2. Arity[f] \in Nat
  OBVIOUS
<1> HIDE DEF id
<1>3. id # 0 => i <= Len(tuples[id])
  BY <1>1, <1>2
<1>4. id # 0 => tuples[id][i] \in Strings
  BY <1>1
<1> QED BY <1>3, <1>4 DEF Readable, id

LEMMA HolderReadable ==
  ASSUME IInv, NEW v \in Holders, NEW tag \in Tags, v \in Functions => tag # Arguments
  PROVE  Readable(meta[<<v, tag>>], 1)
<1>1. meta[<<v, tag>>] # 0 => \E str \in Strings : tuples[meta[<<v, tag>>]] = <<str>>
  BY DEF IInv, HoldersWritten
<1> QED BY <1>1 DEF Readable

LEMMA InitContextKeeps ==
  ASSUME IInv, NEW c \in Contexts, InitContext(c), kept' \in BOOLEAN, kept' => kept
  PROVE  IInv'
  BY DEF IInv, InitContext, TypeOK, TuplesUnshared, HoldersWritten, ArgumentsWritten

LEMMA HolderKeeps ==
  ASSUME IInv, NEW v \in Holders, NEW tag \in Tags, HolderNext(v, tag), kept' \in BOOLEAN,
         kept' => kept /\ context # None /\ (v \in Functions => tag # Arguments)
  PROVE  IInv'
<1>1. CASE Get(v, tag)
  BY <1>1, AskKeeps, HolderReadable DEF Get
<1>2. ASSUME NEW str \in Strings, Set(v, tag, str) PROVE IInv'
  <2>1. CASE context # None
    BY <1>2, <2>1, SetKeeps
  <2>2. CASE context = None
    <3>1. Crash /\ kept' = FALSE
      BY <1>2, <2>2 DEF Set
    <3> QED BY <3>1, CrashKeeps
  <2> QED BY <2>1, <2>2
<1> QED BY <1>1, <1>2 DEF HolderNext

LEMMA ArgumentKeeps ==
  ASSUME IInv, NEW nodes, nodes \subseteq Nodes, ArgumentNext(nodes), kept' \in BOOLEAN,
         kept' => kept /\ context # None /\ nodes \subseteq Strings
  PROVE  IInv'
<1>1. \E f \in Functions : \E i \in 1..Arity[f] :
        (\E node \in nodes : SetArgument(f, i, node)) \/ GetArgument(f, i)
  BY DEF ArgumentNext, Args
<1> SUFFICES ASSUME NEW f \in Functions, NEW i \in 1..Arity[f],
                    (\E node \in nodes : SetArgument(f, i, node)) \/ GetArgument(f, i)
             PROVE  IInv'
  BY <1>1
<1>2. CASE GetArgument(f, i)
  BY <1>2, AskKeeps, TaggedReadable DEF GetArgument
<1>3. ASSUME NEW node \in nodes, SetArgument(f, i, node) PROVE IInv'
  <2>1. CASE context # None
    BY <1>3, <2>1, SetArgumentKeeps
  <2>2. CASE context = None
    <3>1. Crash /\ kept' = FALSE
      BY <1>3, <2>2 DEF SetArgument
    <3> QED BY <3>1, CrashKeeps
  <2> QED BY <2>1, <2>2
<1> QED BY <1>2, <1>3

LEMMA GetStringKeeps ==
  ASSUME IInv, NEW node \in Nodes, GetString(node), kept' \in BOOLEAN,
         kept' => kept /\ context # None /\ node \in Strings
  PROVE  IInv'
<1>1. \/ \E ans \in {None, Dangling} : Answered(ans)
      \/ Crash /\ kept' = FALSE
  BY DEF GetString, Text
<1> QED BY <1>1, AnsweredKeeps, CrashKeeps

\* A step of a client that has kept to TaggedCall, and still does.
LEMMA TaggedCallKeeps ==
  ASSUME IInv, kept, kept' = TRUE, TaggedCall
  PROVE  IInv'
<1>1. CASE \E c \in Contexts : InitContext(c)
  BY <1>1, InitContextKeeps
<1>2. CASE context # None /\ \E v \in Holders, tag \in Tags :
             (v \in Functions => tag # Arguments) /\ HolderNext(v, tag)
  BY <1>2, HolderKeeps
<1>3. CASE context # None /\ ArgumentNext(Strings)
  BY <1>3, ArgumentKeeps
<1>4. CASE context # None /\ \E str \in Strings : GetString(str)
  BY <1>4, GetStringKeeps
<1> QED BY <1>1, <1>2, <1>3, <1>4 DEF TaggedCall

\* A step of any other client.
LEMMA CallKeeps ==
  ASSUME IInv, kept' = FALSE, Call
  PROVE  IInv'
<1>1. CASE \E c \in Contexts : InitContext(c)
  BY <1>1, InitContextKeeps
<1>2. CASE \E v \in Holders, tag \in Tags : HolderNext(v, tag)
  BY <1>2, HolderKeeps
<1>3. CASE ArgumentNext(Nodes)
  BY <1>3, ArgumentKeeps
<1>4. CASE \E node \in Nodes : GetString(node)
  BY <1>4, GetStringKeeps
<1>5. CASE Read
  BY <1>5, CrashKeeps DEF Read
<1>6. CASE \E v \in Constants : Other(v)
  BY <1>6, CrashKeeps DEF Other
<1> QED BY <1>1, <1>2, <1>3, <1>4, <1>5, <1>6 DEF Call

LEMMA IInvStep == IInv /\ [Next]_vars => IInv'
<1> SUFFICES ASSUME IInv, [Next]_vars PROVE IInv'
  OBVIOUS
<1>1. CASE UNCHANGED vars
  BY <1>1 DEF vars, IInv, TypeOK, TuplesUnshared, HoldersWritten, ArgumentsWritten
<1>2. CASE Next
  <2>1. Call /\ kept' = (kept /\ TaggedCall)
    BY <1>2 DEF Next
  <2>2. CASE kept /\ TaggedCall
    BY <2>1, <2>2, TaggedCallKeeps
  <2>3. CASE ~(kept /\ TaggedCall)
    BY <2>1, <2>3, CallKeeps
  <2> QED BY <2>2, <2>3
<1> QED BY <1>1, <1>2

LEMMA AlwaysIInv == Spec => []IInv
  BY IInvInit, IInvStep, PTL DEF Spec
-----------------------------------------------------------------------------
\* For any values, tags, strings and number of tuples, the tuples, and what
\* values have of them, are of their types (meta.cpp, meta.tpp).
THEOREM TypeCorrect == Spec => []TypeOK
<1>1. IInv => TypeOK
  BY DEF IInv
<1> QED BY <1>1, AlwaysIInv, PTL

\* No tuple is ever held under two keys, whatever the client calls: replacing
\* an operand in place changes one value (meta.cpp:100-107, meta.tpp:23-35).
THEOREM TuplesStayUnshared == Spec => []TuplesUnshared
<1>1. IInv => TuplesUnshared
  BY DEF IInv
<1> QED BY <1>1, AlwaysIInv, PTL

\* LLVM holds for a function, an instruction or a global variable what was set
\* last, and a get says whether it is empty, whatever else the client calls
\* (meta.cpp:32-63).
THEOREM HoldersHoldLast == Spec => []HoldersHold
<1>1. IInv => HoldersHold
  <2> SUFFICES ASSUME IInv, NEW v \in Holders, NEW tag \in Tags,
                      ~(v \in Functions /\ tag = Arguments),
                      NEW id, id = meta[<<v, tag>>], NEW str, str = written[<<v, tag>>]
               PROVE  /\ Held(id, 1) = str
                      /\ Readable(id, 1) /\ (Value(id, 1) # None <=> str \notin {None, Empty})
    BY DEF HoldersHold
  <2>1. Readable(id, 1)
    BY HolderReadable
  <2>2. IF str = None THEN id = 0 ELSE id # 0 /\ tuples[id] = <<str>>
    BY DEF IInv, HoldersWritten
  <2> QED BY <2>1, <2>2 DEF Held, Value, Text
<1> QED BY <1>1, AlwaysIInv, PTL

\* It holds for an argument what was set last, and a get says whether it is
\* empty, if the client leaves the tag of the arguments of a function alone
\* (meta.cpp:65-115).
THEOREM ArgumentsHoldLast == Spec => []ArgumentsHold
<1>1. IInv => ArgumentsHold
  <2> SUFFICES ASSUME IInv, kept, NEW f \in Functions, NEW i \in 1..Arity[f],
                      NEW id, id = meta[<<f, Arguments>>], NEW str, str = written[<<f, i>>]
               PROVE  /\ Readable(id, i)
                      /\ IF str = None THEN Held(id, i) \in {None, NoMeta} ELSE Held(id, i) = str
                      /\ Value(id, i) # None <=> id # 0 /\ str # Empty
    BY DEF ArgumentsHold, Args
  <2>1. Readable(id, i)
    BY TaggedReadable
  <2>2. IF id = 0 THEN str = None ELSE tuples[id][i] = IF str = None THEN NoMeta ELSE str
    BY DEF IInv, ArgumentsWritten
  <2> QED BY <2>1, <2>2 DEF Held, Value, Text
<1> QED BY <1>1, AlwaysIInv, PTL

\* Such a client, if it reads no answer, meets no assert of meta or context, no
\* operand that is not there, and no string that is gone (meta.cpp:46-53,
\* context.cpp:23-27).
THEOREM KeptStaysSafe == Spec => []KeptIsSafe
<1>1. IInv => KeptIsSafe
  BY DEF IInv, KeptIsSafe
<1> QED BY <1>1, AlwaysIInv, PTL
=============================================================================
