------------------------ MODULE DeferredEraseProofs ------------------------
(***************************************************************************)
(* A client that pushes once to a vector and copies none has its erasing   *)
(* deferred, whatever the instructions and the vectors: IInv is inductive. *)
(* One that pushes on has half of what it pushed erased at once.           *)
(***************************************************************************)
EXTENDS DeferredErase, TLAPS

LEMMA InitIInv == Init => IInv
<1> SUFFICES ASSUME Init PROVE IInv
  OBVIOUS
<1>1. <<>> \in Seq(Instructions) /\ Len(<<>>) = 0
  OBVIOUS
<1>2. TypeOK
  <2>1. where \in [Instructions -> {"in", "out", "freed"}]
    BY DEF Init
  <2>2. data \in [Vectors -> Seq(Instructions)] /\ doomed \in Seq(Instructions)
    BY <1>1 DEF Init
  <2>3. \A v \in Vectors : data[v] = <<>> /\ capacity[v] = 0
    BY DEF Init
  <2>4. \A v \in Vectors : Len(data[v]) <= capacity[v] /\ capacity[v] \in Nat
    BY <1>1, <2>3
  <2>5. capacity \in [Vectors -> Nat]
    BY DEF Init
  <2> QED BY <2>1, <2>2, <2>3, <2>4, <2>5 DEF Init, TypeOK
<1>3. Orderly
  BY <1>1 DEF Init, Orderly, Snug, Apart, OneDoomed, Erasable, Accounted, Waiting, Held, In
<1> QED BY <1>2, <1>3 DEF IInv

-----------------------------------------------------------------------------
(* Types. *)

LEMMA ReapType == ASSUME TypeOK, Reap PROVE TypeOK'
<1>1. doomed # <<>> /\ Head(doomed) \in Instructions /\ doomed' \in Seq(Instructions)
  BY DEF TypeOK, Reap
<1>2. where' \in [Instructions -> {"in", "out", "freed"}]
  BY <1>1 DEF TypeOK, Reap, Erased
<1> QED BY <1>1, <1>2 DEF TypeOK, Reap, history

LEMMA PushType ==
  ASSUME TypeOK, NEW v \in Vectors, NEW i \in Instructions, Push(v, i) PROVE TypeOK'
<1>1. data' \in [Vectors -> Seq(Instructions)]
  BY DEF TypeOK, Push
<1>2. \A w \in Vectors : w \notin alive' => data'[w] = <<>>
  BY DEF TypeOK, Push
<1>3. Doubled(capacity[v]) \in Nat
  BY DEF TypeOK, Doubled
<1>4. capacity' \in [Vectors -> Nat]
  BY <1>3 DEF TypeOK, Push
<1>5. ASSUME NEW w \in Vectors PROVE Len(data'[w]) <= capacity'[w]
  <2>1. CASE w # v
    BY <2>1 DEF TypeOK, Push
  <2>2. CASE w = v
    <3>1. Len(data'[v]) = Len(data[v]) + 1 /\ Len(data[v]) \in Nat
      BY DEF TypeOK, Push
    <3>2. Len(data[v]) = capacity[v] => capacity'[v] = Doubled(capacity[v])
      BY DEF TypeOK, Push
    <3>3. Len(data[v]) # capacity[v] => capacity'[v] = capacity[v]
      BY DEF TypeOK, Push
    <3>4. Len(data[v]) <= capacity[v] /\ capacity[v] \in Nat
      BY DEF TypeOK
    <3> QED BY <2>2, <3>1, <3>2, <3>3, <3>4 DEF Doubled
  <2> QED BY <2>1, <2>2
<1>6. doomed' \in Seq(Instructions)
  BY DEF TypeOK, Push
<1> QED BY <1>1, <1>2, <1>4, <1>5, <1>6 DEF TypeOK, Push, llvm, PlainPush

LEMMA AssignType ==
  ASSUME TypeOK, NEW v \in Vectors, NEW w \in Vectors, Assign(v, w) PROVE TypeOK'
<1>1. Len(data[v]) \in Nat /\ Len(data[w]) \in Nat
  BY DEF TypeOK
<1>2. SubSeq(data[v], Len(data[w]) + 1, Len(data[v])) \in Seq(Instructions)
  BY <1>1 DEF TypeOK
<1>3. doomed' \in Seq(Instructions)
  <2>1. CASE Len(data[w]) > capacity[v]
    BY <2>1 DEF TypeOK, Assign
  <2>2. CASE ~(Len(data[w]) > capacity[v])
    BY <1>2, <2>2 DEF Assign
  <2> QED BY <2>1, <2>2
<1>4. capacity' \in [Vectors -> Nat]
  BY <1>1 DEF TypeOK, Assign
<1>5. data' \in [Vectors -> Seq(Instructions)]
  BY DEF TypeOK, Assign
<1>6. \A u \in Vectors : Len(data'[u]) <= capacity'[u]
  BY <1>1 DEF TypeOK, Assign
<1> QED BY <1>3, <1>4, <1>5, <1>6 DEF TypeOK, Assign, llvm

LEMMA MoveType ==
  ASSUME TypeOK, NEW v \in Vectors, NEW w \in Vectors, Move(v, w) PROVE TypeOK'
<1>0. <<>> \in Seq(Instructions)
  OBVIOUS
<1>1. data' \in [Vectors -> Seq(Instructions)]
  BY <1>0 DEF TypeOK, Move, Handed
<1>2. capacity' \in [Vectors -> Nat]
  BY DEF TypeOK, Move
<1>3. \A u \in Vectors : u \notin alive' => data'[u] = <<>>
  BY DEF TypeOK, Move, Handed
<1>4. ASSUME NEW u \in Vectors PROVE Len(data'[u]) <= capacity'[u]
  <2>1. CASE u = v
    BY <2>1 DEF TypeOK, Move, Handed
  <2>2. CASE u = w
    <3>1. data'[w] = <<>> /\ capacity'[w] = 0
      BY DEF TypeOK, Move, Handed
    <3> QED BY <2>2, <3>1
  <2>3. CASE u # v /\ u # w
    BY <2>3 DEF TypeOK, Move, Handed
  <2> QED BY <2>1, <2>2, <2>3
<1>5. doomed' \in Seq(Instructions) /\ alive' \subseteq Vectors
  BY DEF TypeOK, Move
<1> QED BY <1>1, <1>2, <1>3, <1>4, <1>5 DEF TypeOK, Move, llvm, history

LEMMA NextType == ASSUME TypeOK, [Next]_vars PROVE TypeOK'
<1> USE DEF TypeOK
<1>1. CASE Reap
  BY <1>1, ReapType
<1>2. ASSUME NEW v \in Vectors, Make(v) PROVE TypeOK'
  BY <1>2 DEF Make, llvm, history
<1>3. ASSUME NEW v \in Vectors, Destroy(v) PROVE TypeOK'
  BY <1>3 DEF Destroy, llvm, history
<1>4. ASSUME NEW v \in Vectors, NEW i \in Instructions, Push(v, i) PROVE TypeOK'
  BY <1>4, PushType
<1>5. ASSUME NEW v \in Vectors, NEW w \in Vectors, Copy(v, w) PROVE TypeOK'
  BY <1>5 DEF Copy, llvm
<1>6. ASSUME NEW v \in Vectors, NEW w \in Vectors, Move(v, w) PROVE TypeOK'
  BY <1>6, MoveType
<1>7. ASSUME NEW v \in Vectors, NEW w \in Vectors, Assign(v, w) PROVE TypeOK'
  BY <1>7, AssignType
<1>8. ASSUME NEW i \in Instructions, NEW place \in {"in", "out", "freed"}, Change(i, place)
      PROVE  TypeOK'
  BY <1>8 DEF Change, vectors
<1>9. CASE UNCHANGED vars
  BY <1>9 DEF vars, llvm, vectors, history
<1> QED BY <1>1, <1>2, <1>3, <1>4, <1>5, <1>6, <1>7, <1>8, <1>9 DEF Next

\* The type invariant, under any client.
THEOREM TypeCorrect == Spec => []TypeOK
<1>1. Init => TypeOK
  BY InitIInv DEF IInv
<1>2. TypeOK /\ [Next]_vars => TypeOK'
  BY NextType
<1> QED BY <1>1, <1>2, PTL DEF Spec

-----------------------------------------------------------------------------
(* The client that keeps to what deferring is for. *)

\* What a sequence of one entry at most has.
LEMMA InShort ==
  ASSUME NEW S, NEW s \in Seq(S), Len(s) <= 1
  PROVE  \A i : In(i, s) <=> s # <<>> /\ i = s[1]
<1>1. Len(s) \in Nat /\ DOMAIN s = 1 .. Len(s)
  OBVIOUS
<1>2. CASE s = <<>>
  BY <1>1, <1>2 DEF In
<1>3. CASE s # <<>>
  <2>1. DOMAIN s = {1}
    BY <1>1, <1>3
  <2> QED BY <1>3, <2>1 DEF In
<1> QED BY <1>2, <1>3

\* What vectors hold that have one entry at most.
LEMMA HeldShort ==
  ASSUME NEW d \in [Vectors -> Seq(Instructions)], \A v \in Vectors : Len(d[v]) <= 1
  PROVE  \A i : (\E v \in Vectors : In(i, d[v]))
                  <=> \E v \in Vectors : d[v] # <<>> /\ i = d[v][1]
<1>1. \A v \in Vectors : \A i : In(i, d[v]) <=> d[v] # <<>> /\ i = d[v][1]
  BY InShort
<1> QED BY <1>1

\* What is waited for, as long as a client is orderly.
LEMMA WaitingShort ==
  ASSUME TypeOK, Orderly
  PROVE  /\ \A i : Held(i) <=> \E v \in Vectors : data[v] # <<>> /\ i = data[v][1]
         /\ \A i : Waiting(i) <=> Held(i) \/ (doomed # <<>> /\ i = doomed[1])
<1> USE DEF Orderly, Snug, OneDoomed
<1>1. \A i : Held(i) <=> \E v \in Vectors : data[v] # <<>> /\ i = data[v][1]
  BY HeldShort DEF TypeOK, Held
<1>2. \A i : In(i, doomed) <=> doomed # <<>> /\ i = doomed[1]
  BY InShort DEF TypeOK
<1> QED BY <1>1, <1>2 DEF Waiting

\* A client that keeps to it has kept to it.
LEMMA KeptBefore == ASSUME TypeOK, [Next]_vars, Kept' PROVE Kept
<1> USE DEF Kept, history
<1>1. CASE Reap
  BY <1>1 DEF Reap
<1>2. ASSUME NEW v \in Vectors, Make(v) PROVE Kept
  BY <1>2 DEF Make
<1>3. ASSUME NEW v \in Vectors, Destroy(v) PROVE Kept
  BY <1>3 DEF Destroy
<1>4. ASSUME NEW v \in Vectors, NEW i \in Instructions, Push(v, i) PROVE Kept
  BY <1>4 DEF Push
<1>5. ASSUME NEW v \in Vectors, NEW w \in Vectors, Copy(v, w) PROVE Kept
  BY <1>5 DEF Copy
<1>6. ASSUME NEW v \in Vectors, NEW w \in Vectors, Move(v, w) PROVE Kept
  BY <1>6 DEF Move
<1>7. ASSUME NEW v \in Vectors, NEW w \in Vectors, Assign(v, w) PROVE Kept
  BY <1>7 DEF Assign
<1>8. ASSUME NEW i \in Instructions, NEW place \in {"in", "out", "freed"}, Change(i, place)
      PROVE  Kept
  BY <1>8 DEF Change
<1>9. CASE UNCHANGED vars
  BY <1>9 DEF vars
<1> QED BY <1>1, <1>2, <1>3, <1>4, <1>5, <1>6, <1>7, <1>8, <1>9 DEF Next

LEMMA ReapOrderly == ASSUME TypeOK, TypeOK', Orderly, Reap PROVE Orderly'
<1>a. Head(doomed) = doomed[1] /\ doomed[1] \in Instructions
  BY DEF TypeOK, Reap
<1> PICK i \in Instructions : i = doomed[1]
  BY <1>a
<1>0. Head(doomed) = i /\ doomed # <<>> /\ doomed' = <<>>
  BY <1>a DEF TypeOK, Orderly, OneDoomed, Reap
<1>1. data' = data /\ capacity' = capacity /\ deleter' = deleter /\ due' = due
  BY DEF Reap, history
<1>2. Waiting(i) /\ ~Held(i)
  BY <1>0, WaitingShort DEF Orderly, OneDoomed
<1>3. where[i] # "freed" /\ (deleter = "deletes" => where[i] = "out")
  BY <1>0, <1>2 DEF Orderly, Erasable
<1>4. \A j \in Instructions : j # i => where'[j] = where[j]
  BY <1>0 DEF TypeOK, Reap
<1>5. Released(i)' /\ status' = "ok"
  BY <1>0, <1>1, <1>3 DEF TypeOK, Reap, Released, Erased
<1>6. \A j : Held(j)' <=> Held(j)
  BY <1>1 DEF Held, In
<1>7. \A j : Waiting(j)' <=> Held(j)
  BY <1>0, <1>6 DEF Waiting, In
<1>8. \A j : Waiting(j) => Held(j) \/ j = i
  BY WaitingShort DEF Orderly, OneDoomed
<1>9. Snug' /\ Apart' /\ OneDoomed'
  BY <1>0, <1>1 DEF Orderly, Snug, Apart, OneDoomed
<1>10. Erasable'
  BY <1>1, <1>2, <1>4, <1>7 DEF Orderly, Erasable, Waiting
<1>11. Accounted'
  BY <1>1, <1>2, <1>4, <1>5, <1>7, <1>8 DEF TypeOK, Orderly, Accounted, Released
<1> QED BY <1>5, <1>9, <1>10, <1>11 DEF Orderly

\* A step that keeps what is waited for, and what LLVM has.
LEMMA SameOrderly ==
  ASSUME Orderly, UNCHANGED <<llvm, due, status>>, \A i : Waiting(i)' <=> Waiting(i)
  PROVE  Erasable' /\ Accounted' /\ status' = "ok"
BY DEF Orderly, Erasable, Accounted, Released, llvm

\* Destroying a vector, or moving another to it, leaves its entry to a
\* destructor.
LEMMA DestroyOrderly ==
  ASSUME TypeOK, TypeOK', Orderly, NEW v \in Vectors, Destroy(v) PROVE Orderly'
<1>1. /\ doomed = <<>> /\ doomed' = data[v] /\ data'[v] = <<>> /\ capacity'[v] = 0
      /\ \A u \in Vectors : u # v => data'[u] = data[u] /\ capacity'[u] = capacity[u]
  BY DEF TypeOK, Destroy, Client
<1>2. Snug' /\ Len(doomed') <= 1
  BY <1>1 DEF Orderly, Snug
<1>3. Apart'
  BY <1>1 DEF Orderly, Apart
<1>4. \A i : Held(i)' <=> \E u \in Vectors : u # v /\ data[u] # <<>> /\ i = data[u][1]
  <2>1. \A i : Held(i)' <=> \E u \in Vectors : data'[u] # <<>> /\ i = data'[u][1]
    BY <1>2, HeldShort DEF TypeOK, Snug, Held
  <2> QED BY <1>1, <2>1
<1>5. OneDoomed'
  BY <1>1, <1>2, <1>4 DEF Orderly, Apart, OneDoomed
<1>6. \A i : In(i, doomed') <=> data[v] # <<>> /\ i = data[v][1]
  BY <1>1, <1>2, InShort DEF TypeOK
<1>7. \A i : Waiting(i)' <=> Waiting(i)
  BY <1>1, <1>4, <1>6, WaitingShort DEF Waiting
<1>8. Erasable' /\ Accounted' /\ status' = "ok"
  BY <1>7, SameOrderly DEF Destroy, history
<1> QED BY <1>2, <1>3, <1>5, <1>8 DEF Orderly

LEMMA MoveOrderly ==
  ASSUME TypeOK, TypeOK', Orderly, NEW v \in Vectors, NEW w \in Vectors, Move(v, w)
  PROVE  Orderly'
<1>1. /\ doomed = <<>> /\ doomed' = data[v] /\ v # w
      /\ data'[v] = data[w] /\ capacity'[v] = capacity[w]
      /\ data'[w] = <<>> /\ capacity'[w] = 0
      /\ \A u \in Vectors \ {v, w} : data'[u] = data[u] /\ capacity'[u] = capacity[u]
  BY DEF TypeOK, Move, Handed, Client
<1>2. Snug' /\ Len(doomed') <= 1
  BY <1>1 DEF Orderly, Snug
<1>3. Apart'
  BY <1>1 DEF Orderly, Apart
<1>4. \A i : Held(i)' <=> \E u \in Vectors : u # v /\ data[u] # <<>> /\ i = data[u][1]
  <2>1. \A i : Held(i)' <=> \E u \in Vectors : data'[u] # <<>> /\ i = data'[u][1]
    BY <1>2, HeldShort DEF TypeOK, Snug, Held
  <2> QED BY <1>1, <2>1
<1>5. OneDoomed'
  BY <1>1, <1>2, <1>4 DEF Orderly, Apart, OneDoomed
<1>6. \A i : In(i, doomed') <=> data[v] # <<>> /\ i = data[v][1]
  BY <1>1, <1>2, InShort DEF TypeOK
<1>7. \A i : Waiting(i)' <=> Waiting(i)
  BY <1>1, <1>4, <1>6, WaitingShort DEF Waiting
<1>8. Erasable' /\ Accounted' /\ status' = "ok"
  BY <1>7, SameOrderly DEF Move, history
<1> QED BY <1>2, <1>3, <1>5, <1>8 DEF Orderly

\* A client that keeps to it pushes what is not held, to a vector that has
\* nothing and grows to one entry.
LEMMA PushOrderly ==
  ASSUME TypeOK, TypeOK', Orderly, Kept',
         NEW v \in Vectors, NEW i \in Instructions, Push(v, i)
  PROVE  Orderly'
<1>1. PlainPush(i)
  BY DEF Push, Kept
<1>2. data[v] = <<>> /\ capacity[v] = 0
  BY DEF Push, Kept, TypeOK, Orderly, Snug
<1>3. /\ doomed = <<>> /\ doomed' = <<>>
      /\ data'[v] = <<i>> /\ capacity'[v] = 1
      /\ \A u \in Vectors : u # v => data'[u] = data[u] /\ capacity'[u] = capacity[u]
  BY <1>2 DEF TypeOK, Push, Client, Doubled
<1>4. Snug'
  <2>1. Len(<<i>>) = 1
    OBVIOUS
  <2>2. ASSUME NEW u \in Vectors PROVE capacity'[u] = Len(data'[u]) /\ Len(data'[u]) <= 1
    <3>1. CASE u = v
      <4>1. Len(data'[v]) = 1 /\ capacity'[v] = 1
        BY <1>3, <2>1, Zenon
      <4> QED BY <3>1, <4>1
    <3>2. CASE u # v
      BY <1>3, <3>2 DEF Orderly, Snug
    <3> QED BY <3>1, <3>2
  <2> QED BY <2>2 DEF Snug
<1>5. \A j : Held(j) <=> \E u \in Vectors : data[u] # <<>> /\ j = data[u][1]
  BY WaitingShort
<1>6. \A j : Held(j)' <=> Held(j) \/ j = i
  <2>1. \A j : Held(j)' <=> \E u \in Vectors : data'[u] # <<>> /\ j = data'[u][1]
    BY <1>4, HeldShort DEF TypeOK, Snug, Held
  <2> QED BY <1>2, <1>3, <1>5, <2>1
<1>7. \A u \in Vectors : data[u] # <<>> => data[u][1] # i
  BY <1>1, <1>5 DEF PlainPush
<1>8. Apart'
  BY <1>2, <1>3, <1>7 DEF Orderly, Apart
<1>9. \A j : Waiting(j)' <=> Waiting(j) \/ j = i
  BY <1>3, <1>6 DEF Waiting, In
<1>10. /\ where' = where /\ deleter' = deleter /\ status' = status /\ due' = due \cup {i}
       /\ where[i] # "freed" /\ where[i] \in {"in", "out", "freed"}
  BY DEF TypeOK, Push, llvm
<1>11. Erasable'
  BY <1>1, <1>9, <1>10 DEF Orderly, Erasable, PlainPush
<1>12. Accounted'
  BY <1>9, <1>10 DEF Orderly, Accounted, Released
<1> QED BY <1>3, <1>4, <1>8, <1>10, <1>11, <1>12 DEF Orderly, OneDoomed

\* What the client of such vectors does itself, it does to none of theirs.
LEMMA ChangeOrderly ==
  ASSUME TypeOK, Orderly, Kept',
         NEW i \in Instructions, NEW place \in {"in", "out", "freed"}, Change(i, place)
  PROVE  Orderly'
<1>1. ~Held(i) /\ doomed = <<>>
  BY DEF Change, Client, Kept
<1>2. /\ where[i] \in {"in", "out"} /\ where'[i] = place
      /\ \A j \in Instructions : j # i => where'[j] = where[j]
      /\ due' = IF place = "in" THEN due \ {i} ELSE due
  BY <1>1 DEF TypeOK, Change
<1>3. data' = data /\ capacity' = capacity /\ doomed' = doomed /\ deleter' = deleter
      /\ status' = status
  BY DEF Change, vectors
<1>4. \A j : (Held(j)' <=> Held(j)) /\ (Waiting(j)' <=> Waiting(j))
  BY <1>3 DEF Held, Waiting
<1>5. ~Waiting(i)
  BY <1>1 DEF Waiting, In
<1>6. Erasable'
  BY <1>2, <1>3, <1>4, <1>5 DEF Orderly, Erasable
<1>7. Accounted'
  BY <1>2, <1>3, <1>4, <1>5 DEF TypeOK, Orderly, Accounted, Released
<1> QED BY <1>3, <1>4, <1>6, <1>7 DEF Orderly, Snug, Apart, OneDoomed

\* A step that leaves all entries where they are.
LEMMA StillOrderly ==
  ASSUME Orderly, data' = data, doomed' = doomed, UNCHANGED <<llvm, due, status>>,
         capacity' = capacity
  PROVE  Orderly'
<1>1. \A i : (Held(i)' <=> Held(i)) /\ (Waiting(i)' <=> Waiting(i))
  BY DEF Held, Waiting
<1>2. Erasable' /\ Accounted' /\ status' = "ok"
  BY <1>1, SameOrderly
<1> QED BY <1>1, <1>2 DEF Orderly, Snug, Apart, OneDoomed

LEMMA NextOrderly == ASSUME TypeOK, TypeOK', Orderly, Kept', [Next]_vars PROVE Orderly'
<1>1. CASE Reap
  BY <1>1, ReapOrderly
<1>2. ASSUME NEW v \in Vectors, Make(v) PROVE Orderly'
  BY <1>2, StillOrderly DEF Make, history
<1>3. ASSUME NEW v \in Vectors, Destroy(v) PROVE Orderly'
  BY <1>3, DestroyOrderly
<1>4. ASSUME NEW v \in Vectors, NEW i \in Instructions, Push(v, i) PROVE Orderly'
  BY <1>4, PushOrderly
<1>5. ASSUME NEW v \in Vectors, NEW w \in Vectors, Copy(v, w) PROVE Orderly'
  <2>1. data[v] = <<>> /\ data[w] = <<>>
    BY <1>5 DEF TypeOK, Copy, Kept
  <2>2. data' = data
    BY <1>5, <2>1 DEF TypeOK, Copy
  <2>3. capacity' = capacity
    BY <1>5, <2>1 DEF TypeOK, Copy, Orderly, Snug
  <2> QED BY <1>5, <2>2, <2>3, StillOrderly DEF Copy
<1>6. ASSUME NEW v \in Vectors, NEW w \in Vectors, Move(v, w) PROVE Orderly'
  BY <1>6, MoveOrderly
<1>7. ASSUME NEW v \in Vectors, NEW w \in Vectors, Assign(v, w) PROVE Orderly'
  <2>1. data[v] = <<>> /\ data[w] = <<>> /\ doomed = <<>>
    BY <1>7 DEF Assign, Client, Kept
  <2>2. data' = data
    BY <1>7, <2>1 DEF TypeOK, Assign
  <2>3. Len(data[w]) = 0 /\ Len(data[v]) = 0 /\ capacity[v] = 0
    BY <2>1 DEF Orderly, Snug
  <2>4. capacity' = capacity /\ doomed' = SubSeq(<<>>, 1, 0)
    BY <1>7, <2>1, <2>3 DEF Assign
  <2>5. doomed' = doomed
    BY <2>1, <2>4
  <2> QED BY <1>7, <2>2, <2>4, <2>5, StillOrderly DEF Assign
<1>8. ASSUME NEW i \in Instructions, NEW place \in {"in", "out", "freed"}, Change(i, place)
      PROVE  Orderly'
  BY <1>8, ChangeOrderly
<1>9. CASE UNCHANGED vars
  BY <1>9, StillOrderly DEF vars, vectors, history
<1> QED BY <1>1, <1>2, <1>3, <1>4, <1>5, <1>6, <1>7, <1>8, <1>9 DEF Next

\* Such a client stays orderly.
THEOREM Inductive == Spec => []IInv
<1>1. Init => IInv
  BY InitIInv
<1>2. IInv /\ [Next]_vars => IInv'
  <2> SUFFICES ASSUME IInv, [Next]_vars PROVE IInv'
    OBVIOUS
  <2>1. TypeOK /\ TypeOK'
    BY NextType DEF IInv
  <2>2. ASSUME Kept' PROVE Orderly'
    BY <2>1, <2>2, KeptBefore, NextOrderly DEF IInv
  <2> QED BY <2>1, <2>2 DEF IInv
<1> QED BY <1>1, <1>2, PTL DEF Spec

\* It reads no freed instruction, and frees none twice.
THEOREM KeptStaysSafe == Spec => []KeptIsSafe
<1>1. IInv => KeptIsSafe
  BY DEF IInv, Orderly, KeptIsSafe
<1> QED BY <1>1, Inductive, PTL

\* Its instructions live as long as they are held, and are erased afterwards.
THEOREM KeptIsDeferred == Spec => []KeptDefers
<1>1. IInv => KeptDefers
  <2> SUFFICES ASSUME TypeOK, Orderly PROVE KeptDefers
    BY DEF IInv, KeptDefers
  <2>1. ASSUME NEW v \in Vectors, NEW k \in DOMAIN data[v]
        PROVE  where[data[v][k]] # "freed"
    <3>1. data[v][k] \in Instructions /\ Waiting(data[v][k])
      BY <2>1 DEF TypeOK, Waiting, Held, In
    <3> QED BY <3>1 DEF Orderly, Erasable
  <2>2. \A i \in due : Held(i) \/ In(i, doomed) \/ Released(i)
    BY DEF Orderly, Accounted, Waiting
  <2> QED BY <2>1, <2>2 DEF KeptDefers
<1> QED BY <1>1, Inductive, PTL

-----------------------------------------------------------------------------
(* The client that pushes on. *)

\* Where destructors ran, and where they are still to run.
LEMMA InTail ==
  ASSUME NEW S, NEW s \in Seq(S), s # <<>>
  PROVE  \A i : /\ In(i, s) => i = Head(s) \/ In(i, Tail(s))
                /\ In(i, Tail(s)) => In(i, s)
<1>1. /\ DOMAIN s = 1 .. Len(s) /\ Len(s) \in Nat /\ Len(s) # 0 /\ Head(s) = s[1]
      /\ DOMAIN Tail(s) = 1 .. Len(s) - 1
      /\ \A k \in 1 .. Len(s) - 1 : Tail(s)[k] = s[k + 1] /\ k + 1 \in 1 .. Len(s)
  OBVIOUS
<1>2. ASSUME NEW k \in 1 .. Len(s), k # 1 PROVE k - 1 \in 1 .. Len(s) - 1 /\ Tail(s)[k - 1] = s[k]
  BY <1>1, <1>2
<1> QED BY <1>1, <1>2 DEF In

\* An entry is an instruction that is held.
LEMMA EntryHeld ==
  ASSUME TypeOK, NEW v \in Vectors, NEW k \in DOMAIN data[v]
  PROVE  data[v][k] \in Instructions /\ Held(data[v][k]) /\ k \in Nat \ {0} /\ k <= Len(data[v])
<1>1. data[v] \in Seq(Instructions)
  BY DEF TypeOK
<1> QED BY <1>1 DEF Held, In

\* A step that leaves all entries and their instructions where they are.
LEMMA StillGrowing ==
  ASSUME Growing, data' = data, capacity' = capacity, doomed' = doomed, UNCHANGED llvm
  PROVE  Growing'
BY DEF Growing, Once, HalfFull, Halved, Released, llvm

LEMMA ReapGrowing == ASSUME TypeOK, Growing, Reap, status' = "ok" PROVE Growing'
<1>0. doomed # <<>> /\ doomed \in Seq(Instructions) /\ Head(doomed) \in Instructions
  BY DEF TypeOK, Reap
<1> PICK i \in Instructions : i = Head(doomed)
  BY <1>0
<1>1. /\ doomed # <<>> /\ doomed \in Seq(Instructions) /\ doomed' = Tail(doomed)
      /\ data' = data /\ capacity' = capacity /\ deleter' = deleter
  BY <1>0 DEF Reap
<1>2. Once' /\ HalfFull'
  BY <1>1 DEF Growing, Once, HalfFull
<1>3. \A j \in Instructions : j # i => where'[j] = where[j]
  BY DEF TypeOK, Reap
<1>4. Released(i)'
  BY <1>1 DEF TypeOK, Reap, Released, Erased
<1>5. In(i, doomed)
  BY <1>1 DEF In
<1>6. \A j : In(j, doomed) => j = i \/ In(j, doomed')
  BY <1>1, InTail
<1>7. \A j : In(j, doomed') => In(j, doomed)
  BY <1>1, InTail
<1>8. ASSUME NEW v \in Vectors, NEW k \in DOMAIN data[v], NEW j \in Instructions, j = data[v][k]
      PROVE  IF 2 * k <= capacity[v] THEN Released(j)' \/ In(j, doomed')
             ELSE where'[j] # "freed" /\ ~In(j, doomed')
  <2>1. IF 2 * k <= capacity[v] THEN Released(j) \/ In(j, doomed)
        ELSE where[j] # "freed" /\ ~In(j, doomed)
    BY <1>8 DEF Growing, Halved
  <2>2. CASE j = i
    BY <1>4, <1>5, <2>1, <2>2
  <2>3. CASE j # i
    <3>1. where'[j] = where[j] /\ (Released(j)' <=> Released(j))
      BY <1>1, <1>3, <2>3 DEF Released
    <3> QED BY <1>6, <1>7, <2>1, <2>3, <3>1
  <2> QED BY <2>2, <2>3
<1>9. Halved'
  BY <1>1, <1>8, EntryHeld DEF Halved, Released
<1> QED BY <1>2, <1>9 DEF Growing

\* What is emptied, and left to destructors, is not held by another vector.
LEMMA NotDoomed ==
  ASSUME TypeOK, Once, NEW v \in Vectors, NEW u \in Vectors, u # v, NEW k \in DOMAIN data[u]
  PROVE  ~In(data[u][k], data[v])
BY DEF Once, In

\* Without a destructor to run, the older half has been released.
LEMMA HalvedAtRest ==
  ASSUME Halved, doomed = <<>>, NEW v \in Vectors, NEW k \in DOMAIN data[v]
  PROVE  IF 2 * k <= capacity[v] THEN Released(data[v][k]) ELSE where[data[v][k]] # "freed"
BY DEF Halved, In

LEMMA DestroyGrowing ==
  ASSUME TypeOK, Growing, NEW v \in Vectors, Destroy(v) PROVE Growing'
<1>1. /\ doomed = <<>> /\ doomed' = data[v] /\ data'[v] = <<>> /\ capacity'[v] = 0
      /\ \A u \in Vectors : u # v => data'[u] = data[u] /\ capacity'[u] = capacity[u]
      /\ where' = where /\ deleter' = deleter
  BY DEF TypeOK, Destroy, Client, llvm
<1>2. \A u \in Vectors : \A k \in DOMAIN data'[u] : u # v /\ data'[u] = data[u]
  BY <1>1
<1>3. Once'
  BY <1>2 DEF Growing, Once
<1>4. HalfFull'
  BY <1>1 DEF Growing, HalfFull
<1>5. ASSUME NEW u \in Vectors, NEW k \in DOMAIN data[u], u # v
      PROVE  IF 2 * k <= capacity[u] THEN Released(data[u][k])
             ELSE where[data[u][k]] # "freed" /\ ~In(data[u][k], doomed')
  BY <1>1, <1>5, NotDoomed, HalvedAtRest DEF Growing
<1>6. Halved'
  BY <1>1, <1>2, <1>5 DEF Halved, Released
<1> QED BY <1>3, <1>4, <1>6 DEF Growing

LEMMA MoveGrowing ==
  ASSUME TypeOK, Growing, NEW v \in Vectors, NEW w \in Vectors, Move(v, w) PROVE Growing'
<1>1. /\ doomed = <<>> /\ doomed' = data[v] /\ v # w
      /\ data'[v] = data[w] /\ capacity'[v] = capacity[w]
      /\ data'[w] = <<>> /\ capacity'[w] = 0
      /\ \A u \in Vectors \ {v, w} : data'[u] = data[u] /\ capacity'[u] = capacity[u]
      /\ where' = where /\ deleter' = deleter
  BY DEF TypeOK, Move, Handed, Client, llvm
\* The vector whose entries u has now.
<1> DEFINE From(u) == IF u = v THEN w ELSE u
<1>2. \A u \in Vectors : \A k \in DOMAIN data'[u] :
        /\ From(u) \in Vectors /\ From(u) # v /\ data'[u] = data[From(u)]
        /\ capacity'[u] = capacity[From(u)]
  BY <1>1
<1>3. \A u, t \in Vectors : \A k \in DOMAIN data'[u], l \in DOMAIN data'[t] :
        From(u) = From(t) => u = t
  BY <1>1
<1>4. HalfFull'
  <2>1. \A u \in Vectors :
          \/ capacity'[u] = 0
          \/ From(u) \in Vectors /\ data'[u] = data[From(u)] /\ capacity'[u] = capacity[From(u)]
    BY <1>1
  <2> HIDE DEF From
  <2> QED BY <2>1 DEF Growing, HalfFull
<1> HIDE DEF From
<1>5. Once'
  BY <1>2, <1>3 DEF Growing, Once
<1>6. ASSUME NEW u \in Vectors, NEW k \in DOMAIN data[u], u # v
      PROVE  IF 2 * k <= capacity[u] THEN Released(data[u][k])
             ELSE where[data[u][k]] # "freed" /\ ~In(data[u][k], doomed')
  BY <1>1, <1>6, NotDoomed, HalvedAtRest DEF Growing
<1>7. Halved'
  BY <1>1, <1>2, <1>6 DEF Halved, Released
<1> QED BY <1>4, <1>5, <1>7 DEF Growing

\* A push adds an instruction that nothing holds; when the vector is full, all
\* that it has is the older half from then on, and about to be erased.
LEMMA PushGrowing ==
  ASSUME TypeOK, TypeOK', Growing, plain',
         NEW v \in Vectors, NEW i \in Instructions, Push(v, i)
  PROVE  Growing'
<1> DEFINE n == Len(data[v])
<1>1. /\ ~Held(i) /\ where[i] # "freed" /\ doomed = <<>>
      /\ data'[v] = Append(data[v], i)
      /\ \A u \in Vectors : u # v => data'[u] = data[u] /\ capacity'[u] = capacity[u]
      /\ where' = where /\ deleter' = deleter
  BY DEF TypeOK, Push, Client, PlainPush, llvm
<1>2. /\ n = capacity[v] => capacity'[v] = Doubled(n) /\ doomed' = data[v]
      /\ n # capacity[v] => capacity'[v] = capacity[v] /\ doomed' = <<>>
  BY DEF TypeOK, Push
<1>3. /\ n \in Nat /\ capacity[v] \in Nat /\ n <= capacity[v]
      /\ data[v] \in Seq(Instructions) /\ DOMAIN data[v] = 1 .. n
  BY DEF TypeOK
<1>4. /\ DOMAIN data'[v] = 1 .. n + 1 /\ Len(data'[v]) = n + 1 /\ data'[v][n + 1] = i
      /\ \A k \in 1 .. n : data'[v][k] = data[v][k]
  BY <1>1, <1>3
<1> HIDE DEF n
\* An entry is an old one, or the new one.
<1>5. \A u \in Vectors : \A k \in DOMAIN data'[u] :
        \/ k \in DOMAIN data[u] /\ data'[u][k] = data[u][k]
        \/ u = v /\ k = n + 1 /\ data'[u][k] = i
  BY <1>1, <1>3, <1>4
<1>6. \A u \in Vectors : \A k \in DOMAIN data[u] : data[u][k] # i
  BY <1>1, EntryHeld
<1>7. Once'
  BY <1>5, <1>6 DEF Growing, Once
<1>8. HalfFull'
  <2>1. 2 * Len(data'[v]) > capacity'[v]
    <3>1. CASE n = capacity[v]
      BY <1>2, <1>3, <1>4, <3>1 DEF Doubled
    <3>2. CASE n # capacity[v]
      <4>1. capacity[v] = 0 \/ 2 * n > capacity[v]
        BY DEF Growing, HalfFull, n
      <4> QED BY <1>2, <1>3, <1>4, <3>2, <4>1
    <3> QED BY <3>1, <3>2
  <2> QED BY <1>1, <2>1 DEF Growing, HalfFull
<1>9. ~In(i, doomed')
  BY <1>2, <1>3, <1>6 DEF In
<1>10. ASSUME NEW u \in Vectors, NEW k \in DOMAIN data[u]
       PROVE  IF 2 * k <= capacity'[u] THEN Released(data[u][k]) \/ In(data[u][k], doomed')
              ELSE where[data[u][k]] # "freed" /\ ~In(data[u][k], doomed')
  <2>1. CASE u # v
    <3>1. ~In(data[u][k], data[v]) /\ ~In(data[u][k], <<>>)
      BY <2>1, NotDoomed DEF Growing, In
    <3> QED BY <1>1, <1>2, <2>1, <3>1, HalvedAtRest DEF Growing
  <2>2. CASE u = v /\ n = capacity[v]
    <3>1. k \in 1 .. n
      BY <1>3, <2>2
    <3>2. 2 * k <= capacity'[v]
      BY <1>2, <1>3, <2>2, <3>1 DEF Doubled
    <3>3. In(data[u][k], doomed')
      BY <1>2, <2>2 DEF In
    <3> QED BY <2>2, <3>2, <3>3
  <2>3. CASE u = v /\ n # capacity[v]
    <3>1. ~In(data[u][k], <<>>)
      BY DEF In
    <3> QED BY <1>1, <1>2, <2>3, <3>1, HalvedAtRest DEF Growing
  <2> QED BY <2>1, <2>2, <2>3
<1>11. ~(2 * (n + 1) <= capacity'[v])
  <2>1. 2 * Len(data'[v]) > capacity'[v] \/ capacity'[v] = 0
    BY <1>8 DEF HalfFull
  <2>2. capacity'[v] \in Nat
    BY DEF TypeOK
  <2> QED BY <1>3, <1>4, <2>1, <2>2
<1>12. Halved'
  <2>1. ASSUME NEW u \in Vectors, NEW k \in DOMAIN data'[u]
        PROVE  IF 2 * k <= capacity'[u] THEN Released(data'[u][k]) \/ In(data'[u][k], doomed')
               ELSE where[data'[u][k]] # "freed" /\ ~In(data'[u][k], doomed')
    <3>1. CASE k \in DOMAIN data[u] /\ data'[u][k] = data[u][k]
      BY <1>10, <3>1
    <3>2. CASE u = v /\ k = n + 1 /\ data'[u][k] = i
      BY <1>1, <1>9, <1>11, <3>2
    <3> QED BY <1>5, <3>1, <3>2
  <2> QED BY <1>1, <2>1 DEF Halved, Released
<1> QED BY <1>7, <1>8, <1>12 DEF Growing

\* What the client does itself, it does to what no vector holds.
LEMMA ChangeGrowing ==
  ASSUME TypeOK, Growing, plain',
         NEW i \in Instructions, NEW place \in {"in", "out", "freed"}, Change(i, place)
  PROVE  Growing'
<1>1. /\ ~Held(i) /\ data' = data /\ capacity' = capacity /\ doomed' = doomed
      /\ deleter' = deleter
      /\ \A j \in Instructions : j # i => where'[j] = where[j]
  BY DEF TypeOK, Change, vectors
<1>2. \A v \in Vectors : \A k \in DOMAIN data[v] : where'[data[v][k]] = where[data[v][k]]
  BY <1>1, EntryHeld
<1> QED BY <1>1, <1>2 DEF Growing, Once, HalfFull, Halved, Released

LEMMA NextGrowing ==
  ASSUME TypeOK, TypeOK', Growing, plain', status' = "ok", [Next]_vars PROVE Growing'
<1>1. CASE Reap
  BY <1>1, ReapGrowing
<1>2. ASSUME NEW v \in Vectors, Make(v) PROVE Growing'
  BY <1>2, StillGrowing DEF Make
<1>3. ASSUME NEW v \in Vectors, Destroy(v) PROVE Growing'
  BY <1>3, DestroyGrowing
<1>4. ASSUME NEW v \in Vectors, NEW i \in Instructions, Push(v, i) PROVE Growing'
  BY <1>4, PushGrowing
<1>5. ASSUME NEW v \in Vectors, data[v] = <<>> PROVE capacity[v] = 0
  <2>1. Len(data[v]) = 0
    BY <1>5
  <2> QED BY <2>1 DEF Growing, HalfFull, TypeOK
<1>6. ASSUME NEW v \in Vectors, NEW w \in Vectors, Copy(v, w) PROVE Growing'
  <2>1. data[v] = <<>> /\ data[w] = <<>> /\ Len(data[w]) = 0
    BY <1>6 DEF TypeOK, Copy
  <2>2. data' = data /\ capacity' = capacity
    BY <1>5, <1>6, <2>1 DEF TypeOK, Copy
  <2> QED BY <1>6, <2>2, StillGrowing DEF Copy
<1>7. ASSUME NEW v \in Vectors, NEW w \in Vectors, Move(v, w) PROVE Growing'
  BY <1>7, MoveGrowing
<1>8. ASSUME NEW v \in Vectors, NEW w \in Vectors, Assign(v, w) PROVE Growing'
  <2>1. data[v] = <<>> /\ data[w] = <<>> /\ doomed = <<>>
    BY <1>8 DEF Assign, Client
  <2>2. data' = data
    BY <1>8, <2>1 DEF TypeOK, Assign
  <2>3. Len(data[w]) = 0 /\ Len(data[v]) = 0 /\ capacity[v] = 0
    BY <1>5, <2>1
  <2>4. capacity' = capacity /\ doomed' = SubSeq(<<>>, 1, 0)
    BY <1>8, <2>1, <2>3 DEF Assign
  <2>5. doomed' = doomed
    BY <2>1, <2>4
  <2> QED BY <1>8, <2>2, <2>4, <2>5, StillGrowing DEF Assign
<1>9. ASSUME NEW i \in Instructions, NEW place \in {"in", "out", "freed"}, Change(i, place)
      PROVE  Growing'
  BY <1>9, ChangeGrowing
<1>10. CASE UNCHANGED vars
  BY <1>10, StillGrowing DEF vars, vectors
<1> QED BY <1>1, <1>2, <1>3, <1>4, <1>6, <1>7, <1>8, <1>9, <1>10 DEF Next

\* A client that is plain was plain, and one that goes on had not crashed.
LEMMA PlainBefore ==
  ASSUME [Next]_vars, plain', status' = "ok" PROVE plain /\ status = "ok"
BY DEF Next, Reap, Make, Destroy, Push, Copy, Move, Assign, Change, Client, vars, history

LEMMA GrowthInvAlways == Spec => []GrowthInv
<1>1. Init => GrowthInv
  <2> SUFFICES ASSUME Init PROVE GrowthInv
    OBVIOUS
  <2>1. TypeOK
    BY InitIInv DEF IInv
  <2>2. \A v \in Vectors : data[v] = <<>> /\ capacity[v] = 0
    BY DEF Init
  <2> QED BY <2>1, <2>2 DEF GrowthInv, Growing, Once, HalfFull, Halved
<1>2. GrowthInv /\ [Next]_vars => GrowthInv'
  <2> SUFFICES ASSUME GrowthInv, [Next]_vars PROVE GrowthInv'
    OBVIOUS
  <2>1. TypeOK /\ TypeOK'
    BY NextType DEF GrowthInv
  <2>2. ASSUME plain', status' = "ok" PROVE Growing'
    BY <2>1, <2>2, PlainBefore, NextGrowing DEF GrowthInv
  <2> QED BY <2>1, <2>2 DEF GrowthInv
<1> QED BY <1>1, <1>2, PTL DEF Spec

\* However many instructions are pushed, and whatever vectors they are pushed
\* to: a growth erases the older half at once, and keeps the newer one.
THEOREM GrowthErasesHalf == Spec => []GrowthErases
<1>1. GrowthInv => GrowthErases
  <2> SUFFICES ASSUME Growing, doomed = <<>> PROVE GrowthErases
    BY DEF GrowthInv, GrowthErases, Client
  <2> QED BY HalvedAtRest DEF Growing, GrowthErases, Released
<1> QED BY <1>1, GrowthInvAlways, PTL
=============================================================================
