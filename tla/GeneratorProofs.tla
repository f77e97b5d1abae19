-------------------------- MODULE GeneratorProofs --------------------------
(***************************************************************************)
(* Proofs about Generator and GeneratorLoop.  IInv is inductive: the handles of generators   *)
(* are a bijection onto the live coroutines, and a coroutine that raised   *)
(* an exception cannot be resumed to raise another.                        *)
(***************************************************************************)
EXTENDS GeneratorLoop, TLAPS

LEMMA IInvInit == Init => IInv
  BY HandlesAssumption, YieldsAssumption
  DEF Init, IInv, TypeOK, OneOwner, ThrownOnce, RaisedEnded, Live

LEMMA CrashKeeps == ASSUME IInv, Crash PROVE IInv'
  BY DEF IInv, Crash, TypeOK, OneOwner, ThrownOnce, RaisedEnded, Live

\* A change of generators after which each live coroutine has one owner.
LEMMA ReholdKeeps ==
  ASSUME IInv, NEW newHeld \in [Generators -> Frames \cup {None, Gone}],
         NEW old, NEW st \in [Frames -> Live \cup {"unmade", "freed"}],
         Rehold(newHeld, old, st),
         \A f \in raised : st[f] \in {"ended", "freed"},
         \A f \in Frames : (st[f] \in Live /\ f # old) <=> \E g \in Generators : newHeld[g] = f,
         \A f \in Frames, g, h \in Generators : newHeld[g] = f /\ newHeld[h] = f => g = h
  PROVE  IInv'
<1> USE DEF IInv, Rehold
<1>1. TypeOK'
  BY DEF TypeOK, Live
<1>2. OneOwner'
  BY DEF OneOwner, TypeOK, Live
<1>3. ThrownOnce' /\ RaisedEnded'
  BY DEF ThrownOnce, RaisedEnded, TypeOK
<1> QED BY <1>1, <1>2, <1>3

LEMMA CallKeeps == ASSUME IInv, NEW g \in Generators, NEW f \in Frames, Call(g, f) PROVE IInv'
<1> DEFINE newHeld == [held EXCEPT ![g] = f]
           st == [state EXCEPT ![f] = "start"]
<1>1. newHeld \in [Generators -> Frames \cup {None, Gone}]
  BY DEF IInv, TypeOK
<1>2. st \in [Frames -> Live \cup {"unmade", "freed"}]
  BY DEF IInv, TypeOK, Live
<1>3. Rehold(newHeld, None, st)
  BY DEF Call
<1>4. \A x \in raised : st[x] \in {"ended", "freed"}
  BY DEF IInv, TypeOK, RaisedEnded, Call
<1>5. \A x \in Frames : (st[x] \in Live /\ x # None) <=> \E h \in Generators : newHeld[h] = x
  BY HandlesAssumption DEF IInv, TypeOK, OneOwner, Call, Live
<1>6. \A x \in Frames, h, k \in Generators : newHeld[h] = x /\ newHeld[k] = x => h = k
  BY HandlesAssumption DEF IInv, TypeOK, OneOwner, Call, Live
<1> HIDE DEF newHeld, st
<1> QED BY <1>1, <1>2, <1>3, <1>4, <1>5, <1>6, ReholdKeeps

LEMMA AssignCallKeeps ==
  ASSUME IInv, NEW g \in Generators, NEW f \in Frames, AssignCall(g, f) PROVE IInv'
<1> DEFINE newHeld == [held EXCEPT ![g] = f]
           st == [state EXCEPT ![f] = "start"]
<1>1. newHeld \in [Generators -> Frames \cup {None, Gone}]
  BY DEF IInv, TypeOK
<1>2. st \in [Frames -> Live \cup {"unmade", "freed"}]
  BY DEF IInv, TypeOK, Live
<1>3. Rehold(newHeld, held[g], st)
  BY DEF AssignCall
<1>4. \A x \in raised : st[x] \in {"ended", "freed"}
  BY DEF IInv, TypeOK, RaisedEnded, AssignCall
<1>5. \A x \in Frames : (st[x] \in Live /\ x # held[g]) <=> \E h \in Generators : newHeld[h] = x
  BY HandlesAssumption DEF IInv, TypeOK, OneOwner, AssignCall, Live
<1>6. \A x \in Frames, h, k \in Generators : newHeld[h] = x /\ newHeld[k] = x => h = k
  BY HandlesAssumption DEF IInv, TypeOK, OneOwner, AssignCall, Live
<1> HIDE DEF newHeld, st
<1> QED BY <1>1, <1>2, <1>3, <1>4, <1>5, <1>6, ReholdKeeps

\* The operations that make no coroutine.
LEMMA PermutingKeeps ==
  ASSUME IInv, NEW newHeld \in [Generators -> Frames \cup {None, Gone}], NEW old,
         Rehold(newHeld, old, state),
         \A f \in Frames : (f # old /\ \E g \in Generators : held[g] = f)
                             <=> \E g \in Generators : newHeld[g] = f,
         \A f \in Frames, g, h \in Generators : newHeld[g] = f /\ newHeld[h] = f => g = h
  PROVE  IInv'
<1>1. state \in [Frames -> Live \cup {"unmade", "freed"}]
  BY DEF IInv, TypeOK
<1>2. \A f \in raised : state[f] \in {"ended", "freed"}
  BY DEF IInv, RaisedEnded
<1>3. \A f \in Frames : (state[f] \in Live /\ f # old) <=> \E g \in Generators : newHeld[g] = f
  BY DEF IInv, OneOwner
<1> QED BY <1>1, <1>2, <1>3, ReholdKeeps

LEMMA MoveKeeps == ASSUME IInv, NEW g \in Generators, NEW h \in Generators, Move(g, h) PROVE IInv'
<1> DEFINE newHeld == [Moved(h) EXCEPT ![g] = held[h]]
<1>1. newHeld \in [Generators -> Frames \cup {None, Gone}]
  BY DEF IInv, TypeOK, Moved
<1>2. \A x \in Frames : (x # None /\ \E k \in Generators : held[k] = x) <=> \E k \in Generators : newHeld[k] = x
  BY HandlesAssumption DEF IInv, TypeOK, Move, Moved
<1>3. \A x \in Frames, j, k \in Generators : newHeld[j] = x /\ newHeld[k] = x => j = k
  BY HandlesAssumption DEF IInv, TypeOK, OneOwner, Move, Moved
<1>4. Rehold(newHeld, None, state)
  BY DEF Move
<1> HIDE DEF newHeld
<1> QED BY <1>1, <1>2, <1>3, <1>4, PermutingKeeps

LEMMA AssignKeeps == ASSUME IInv, NEW g \in Generators, NEW h \in Generators, Assign(g, h) PROVE IInv'
<1> DEFINE newHeld == [Moved(h) EXCEPT ![g] = held[h]]
           old == Moved(h)[g]
<1>1. newHeld \in [Generators -> Frames \cup {None, Gone}]
  BY DEF IInv, TypeOK, Moved
<1>2. \A x \in Frames : (x # old /\ \E k \in Generators : held[k] = x) <=> \E k \in Generators : newHeld[k] = x
  BY HandlesAssumption DEF IInv, TypeOK, OneOwner, Assign, Moved
<1>3. \A x \in Frames, j, k \in Generators : newHeld[j] = x /\ newHeld[k] = x => j = k
  BY HandlesAssumption DEF IInv, TypeOK, OneOwner, Assign, Moved
<1>4. Rehold(newHeld, old, state)
  BY DEF Assign
<1> HIDE DEF newHeld, old
<1> QED BY <1>1, <1>2, <1>3, <1>4, PermutingKeeps

LEMMA SwapKeeps == ASSUME IInv, NEW g \in Generators, NEW h \in Generators, Swap(g, h) PROVE IInv'
<1> DEFINE newHeld == [held EXCEPT ![g] = held[h], ![h] = held[g]]
<1>1. newHeld \in [Generators -> Frames \cup {None, Gone}]
  BY DEF IInv, TypeOK
<1>2. \A x \in Frames : (x # None /\ \E k \in Generators : held[k] = x) <=> \E k \in Generators : newHeld[k] = x
  BY HandlesAssumption DEF IInv, TypeOK, Swap
<1>3. \A x \in Frames, j, k \in Generators : newHeld[j] = x /\ newHeld[k] = x => j = k
  BY HandlesAssumption DEF IInv, TypeOK, OneOwner, Swap
<1>4. Rehold(newHeld, None, state)
  BY DEF Swap
<1> HIDE DEF newHeld
<1> QED BY <1>1, <1>2, <1>3, <1>4, PermutingKeeps

LEMMA DestroyKeeps == ASSUME IInv, NEW g \in Generators, Destroy(g) PROVE IInv'
<1> DEFINE newHeld == [held EXCEPT ![g] = Gone]
<1>1. newHeld \in [Generators -> Frames \cup {None, Gone}]
  BY DEF IInv, TypeOK
<1>2. \A x \in Frames : (x # held[g] /\ \E k \in Generators : held[k] = x) <=> \E k \in Generators : newHeld[k] = x
  BY HandlesAssumption DEF IInv, TypeOK, OneOwner, Destroy
<1>3. \A x \in Frames, j, k \in Generators : newHeld[j] = x /\ newHeld[k] = x => j = k
  BY HandlesAssumption DEF IInv, TypeOK, OneOwner, Destroy
<1>4. Rehold(newHeld, held[g], state)
  BY DEF Destroy
<1> HIDE DEF newHeld
<1> QED BY <1>1, <1>2, <1>3, <1>4, PermutingKeeps

LEMMA OwningKeeps == ASSUME IInv, Owning PROVE IInv'
<1>1. ASSUME NEW g \in Generators, NEW f \in Frames, Call(g, f) \/ AssignCall(g, f) PROVE IInv'
  BY <1>1, CallKeeps, AssignCallKeeps
<1>2. ASSUME NEW g \in Generators, NEW h \in Generators, Move(g, h) \/ Assign(g, h) \/ Swap(g, h)
      PROVE  IInv'
  BY <1>2, MoveKeeps, AssignKeeps, SwapKeeps
<1>3. ASSUME NEW g \in Generators, Destroy(g) PROVE IInv'
  BY <1>3, DestroyKeeps
<1> QED BY <1>1, <1>2, <1>3 DEF Owning
-----------------------------------------------------------------------------
\* Resuming a coroutine that is suspended, from an iterator or by begin().
LEMMA ResumeKeeps ==
  ASSUME IInv, NEW f \in Frames, state[f] \in {"start", "yielded"}, Resume(f),
         held' = held, at' \in [Iterators -> Frames \cup {None}], begun' \subseteq Frames
  PROVE  IInv'
<1>1. CASE Yield(f)
  <2>1. TypeOK'
    BY <1>1, YieldsAssumption DEF IInv, TypeOK, Yield, Live
  <2>2. OneOwner'
    BY <1>1 DEF IInv, OneOwner, TypeOK, Yield, Live
  <2>3. ThrownOnce' /\ RaisedEnded'
    BY <1>1 DEF IInv, ThrownOnce, RaisedEnded, TypeOK, Yield
  <2> QED BY <2>1, <2>2, <2>3 DEF IInv
<1>2. CASE Return(f)
  <2>1. TypeOK'
    BY <1>2 DEF IInv, TypeOK, Return, Live
  <2>2. OneOwner'
    BY <1>2 DEF IInv, OneOwner, TypeOK, Return, Live
  <2>3. ThrownOnce' /\ RaisedEnded'
    BY <1>2 DEF IInv, ThrownOnce, RaisedEnded, TypeOK, Return
  <2> QED BY <2>1, <2>2, <2>3 DEF IInv
<1>3. CASE Throw(f)
  <2>1. f \notin raised
    BY DEF IInv, RaisedEnded
  <2>2. TypeOK'
    BY <1>3 DEF IInv, TypeOK, Throw, Live
  <2>3. OneOwner'
    BY <1>3 DEF IInv, OneOwner, TypeOK, Throw, Live
  <2>4. RaisedEnded'
    BY <1>3 DEF IInv, RaisedEnded, TypeOK, Throw
  <2>5. ThrownOnce'
    BY <1>3, <2>1 DEF IInv, ThrownOnce, TypeOK, Throw
  <2> QED BY <2>2, <2>3, <2>4, <2>5 DEF IInv
<1> QED BY <1>1, <1>2, <1>3 DEF Resume

LEMMA BeginKeeps == ASSUME IInv, NEW g \in Generators, NEW i \in Iterators, Begin(g, i) PROVE IInv'
<1>1. CASE held[g] = None /\ at' = [at EXCEPT ![i] = None] /\ status' = "ok"
           /\ UNCHANGED <<held, state, yields, raised, thrown, begun>>
  BY <1>1 DEF IInv, TypeOK, OneOwner, ThrownOnce, RaisedEnded, Live
<1>2. CASE held[g] \in Frames /\ state[held[g]] # "ended" /\ Resume(held[g])
           /\ at' = (IF status' = "threw" THEN at ELSE [at EXCEPT ![i] = held[g]])
           /\ begun' = begun \cup {held[g]} /\ UNCHANGED held
  <2>1. state[held[g]] \in {"start", "yielded"}
    BY <1>2 DEF IInv, OneOwner, Live
  <2>2. at' \in [Iterators -> Frames \cup {None}] /\ begun' \subseteq Frames
    BY <1>2 DEF IInv, TypeOK
  <2> QED BY <1>2, <2>1, <2>2, ResumeKeeps
<1> QED BY <1>1, <1>2, CrashKeeps DEF Begin

LEMMA IterateKeeps ==
  ASSUME IInv, NEW i \in Iterators, Increment(i) \/ Read(i) \/ Compare(i)
  PROVE  IInv'
<1>1. CASE CanResume(i) /\ Resume(at[i]) /\ UNCHANGED <<held, at, begun>>
  <2>1. at' \in [Iterators -> Frames \cup {None}] /\ begun' \subseteq Frames
    BY <1>1 DEF IInv, TypeOK
  <2> QED BY <1>1, <2>1, ResumeKeeps DEF CanResume
<1>2. CASE Unchanged
  BY <1>2 DEF Unchanged, IInv, TypeOK, OneOwner, ThrownOnce, RaisedEnded, Live
<1> QED BY <1>1, <1>2, CrashKeeps DEF Increment, Read, Compare

LEMMA CopyKeeps == ASSUME IInv, NEW i \in Iterators, NEW j \in Iterators, Copy(i, j) PROVE IInv'
  BY DEF Copy, IInv, TypeOK, OneOwner, ThrownOnce, RaisedEnded, Live

LEMMA IInvStep == IInv /\ [Next]_vars => IInv'
<1> SUFFICES ASSUME IInv, [Next]_vars PROVE IInv'
  OBVIOUS
<1>1. CASE UNCHANGED vars
  BY <1>1 DEF vars, IInv, TypeOK, OneOwner, ThrownOnce, RaisedEnded, Live
<1>2. CASE Next
  BY <1>2, OwningKeeps, BeginKeeps, IterateKeeps, CopyKeeps DEF Next
<1> QED BY <1>1, <1>2

LEMMA IInvAlways == Spec => []IInv
  BY IInvInit, IInvStep, PTL DEF Spec

\* Type correctness, for any client.
THEOREM TypeCorrect == Spec => []TypeOK
<1>1. IInv => TypeOK
  BY DEF IInv
<1> QED BY <1>1, IInvAlways, PTL

\* No client can leak a coroutine, nor have it destroyed twice
\* (generator.hpp:140-171).
THEOREM OwnedOnce == Spec => []OneOwner
<1>1. IInv => OneOwner
  BY DEF IInv
<1> QED BY <1>1, IInvAlways, PTL

\* Each exception of a body comes out exactly once (generator.hpp:58-72).
THEOREM DeliveredOnce == Spec => []ThrownOnce
<1>1. IInv => ThrownOnce
  BY DEF IInv
<1> QED BY <1>1, IInvAlways, PTL
-----------------------------------------------------------------------------
(***************************************************************************)
(* Under the contract of a loop: an iterator's coroutine was begun, and a  *)
(* coroutine that was begun is suspended at a yield, done, or destroyed.   *)
(***************************************************************************)
LoopInv == IInv /\ Started /\ NeverCrashes

\* The steps of a loop are steps of a client.
LEMMA LoopIsNext == LoopNext => Next
  BY DEF LoopNext, Next

LEMMA ReholdStarted ==
  ASSUME LoopInv, NEW newHeld, NEW old, Rehold(newHeld, old, state) PROVE Started' /\ NeverCrashes'
  BY DEF LoopInv, IInv, TypeOK, Rehold, Started, NeverCrashes

LEMMA ReholdNewStarted ==
  ASSUME LoopInv, NEW newHeld, NEW old, NEW f \in Frames, state[f] = "unmade",
         Rehold(newHeld, old, [state EXCEPT ![f] = "start"])
  PROVE  Started' /\ NeverCrashes'
  BY DEF LoopInv, IInv, TypeOK, Rehold, Started, NeverCrashes

LEMMA OwningStarted == ASSUME LoopInv, Owning PROVE Started' /\ NeverCrashes'
<1>1. ASSUME NEW g \in Generators, NEW f \in Frames, Call(g, f) \/ AssignCall(g, f)
      PROVE  Started' /\ NeverCrashes'
  BY <1>1, ReholdNewStarted DEF Call, AssignCall
<1>2. ASSUME NEW g \in Generators, NEW h \in Generators, Move(g, h) \/ Assign(g, h) \/ Swap(g, h)
      PROVE  Started' /\ NeverCrashes'
  BY <1>2, ReholdStarted DEF Move, Assign, Swap
<1>3. ASSUME NEW g \in Generators, Destroy(g) PROVE Started' /\ NeverCrashes'
  BY <1>3, ReholdStarted DEF Destroy
<1> QED BY <1>1, <1>2, <1>3 DEF Owning

\* f is begun by this step, or was before.
LEMMA ResumeStarted ==
  ASSUME LoopInv, NEW f \in Frames, Resume(f), begun' = begun \cup {f},
         \A i \in Iterators : at'[i] \in Frames => at'[i] = f \/ at'[i] = at[i]
  PROVE  Started' /\ NeverCrashes'
<1>1. CASE Yield(f)
  BY <1>1, YieldsAssumption DEF LoopInv, IInv, TypeOK, Yield, Started, NeverCrashes
<1>2. CASE Return(f) \/ Throw(f)
  BY <1>2 DEF LoopInv, IInv, TypeOK, Return, Throw, Started, NeverCrashes
<1> QED BY <1>1, <1>2 DEF Resume

LEMMA BeginStarted ==
  ASSUME LoopInv, NEW g \in Generators, NEW i \in Iterators, held[g] \notin begun, Begin(g, i)
  PROVE  Started' /\ NeverCrashes'
<1>1. CASE held[g] = None /\ at' = [at EXCEPT ![i] = None] /\ status' = "ok"
           /\ UNCHANGED <<held, state, yields, raised, thrown, begun>>
  BY <1>1, HandlesAssumption DEF LoopInv, IInv, TypeOK, Started, NeverCrashes
<1>2. ASSUME held[g] \in Frames PROVE state[held[g]] # "ended"
  BY <1>2 DEF LoopInv, Started
<1>3. CASE held[g] \in Frames /\ state[held[g]] # "ended" /\ Resume(held[g])
           /\ at' = (IF status' = "threw" THEN at ELSE [at EXCEPT ![i] = held[g]])
           /\ begun' = begun \cup {held[g]} /\ UNCHANGED held
  <2>1. \A j \in Iterators : at'[j] \in Frames => at'[j] = held[g] \/ at'[j] = at[j]
    BY <1>3 DEF LoopInv, IInv, TypeOK
  <2> QED BY <1>3, <2>1, ResumeStarted
<1> QED BY <1>1, <1>2, <1>3 DEF Begin

\* An iterator that is not at the end can be advanced and read.
LEMMA NotAtEndCanResume ==
  ASSUME LoopInv, NEW i \in Iterators, Usable(i), NotAtEnd(i)
  PROVE  CanResume(i) /\ yields[at[i]] > 0 /\ at[i] \in begun
<1>1. at[i] \in Frames /\ at[i] \in begun /\ state[at[i]] \notin {"unmade", "start", "freed", "ended"}
  BY DEF LoopInv, Started, Usable, NotAtEnd
<1>2. state[at[i]] = "yielded"
  BY <1>1 DEF LoopInv, IInv, TypeOK, Live
<1> QED BY <1>1, <1>2 DEF LoopInv, Started, CanResume

LEMMA IterateStarted ==
  ASSUME LoopInv, NEW i \in Iterators, Usable(i),
         Compare(i) \/ (NotAtEnd(i) /\ (Increment(i) \/ Read(i)))
  PROVE  Started' /\ NeverCrashes'
<1>1. CASE Unchanged
  BY <1>1 DEF Unchanged, LoopInv, Started, NeverCrashes
<1>2. CASE NotAtEnd(i) /\ Increment(i)
  <2>1. CanResume(i) /\ at[i] \in begun
    BY <1>2, NotAtEndCanResume
  <2>2. at[i] \in Frames /\ Resume(at[i]) /\ begun' = begun \cup {at[i]} /\ at' = at
    BY <1>2, <2>1 DEF Increment, CanResume
  <2> QED BY <2>2, ResumeStarted
<1>3. CASE NotAtEnd(i) /\ Read(i)
  BY <1>1, <1>3, NotAtEndCanResume DEF Read
<1>4. CASE Compare(i)
  BY <1>1, <1>4 DEF Compare, Usable
<1> QED BY <1>2, <1>3, <1>4

LEMMA CopyStarted ==
  ASSUME LoopInv, NEW i \in Iterators, NEW j \in Iterators, Copy(i, j)
  PROVE  Started' /\ NeverCrashes'
  BY DEF Copy, LoopInv, IInv, TypeOK, Started, NeverCrashes

LEMMA LoopInvStep == LoopInv /\ [LoopNext]_vars => LoopInv'
<1> SUFFICES ASSUME LoopInv, [LoopNext]_vars PROVE LoopInv'
  OBVIOUS
<1>1. IInv'
  BY IInvStep, LoopIsNext DEF LoopInv
<1>2. CASE UNCHANGED vars
  BY <1>1, <1>2 DEF vars, LoopInv, Started, NeverCrashes
<1>3. CASE LoopNext
  BY <1>1, <1>3, OwningStarted, BeginStarted, IterateStarted, CopyStarted DEF LoopNext, LoopInv
<1> QED BY <1>2, <1>3

\* A loop that begins each coroutine once and neither advances nor reads an
\* iterator at the end meets no null, destroyed, finished or valueless
\* coroutine (generator.hpp:82-130, 158-167).
THEOREM LoopIsSafe == LoopSpec => []NeverCrashes
<1>1. Init => LoopInv
  BY IInvInit, HandlesAssumption DEF LoopInv, Init, Started, NeverCrashes
<1>2. LoopInv => NeverCrashes
  BY DEF LoopInv
<1> QED BY <1>1, <1>2, LoopInvStep, PTL DEF LoopSpec

\* The same of any client, for as long as it keeps that contract.
THEOREM WatchedIsSafe == WatchedSpec => []KeptIsSafe
<1> DEFINE Inv == kept => LoopInv
<1>1. WatchedInit => Inv
  BY IInvInit, HandlesAssumption
  DEF WatchedInit, LoopInv, Init, Started, NeverCrashes
<1>2. Inv /\ [WatchedNext]_<<vars, kept>> => Inv'
  <2> SUFFICES ASSUME Inv, [WatchedNext]_<<vars, kept>>, kept' PROVE LoopInv'
    OBVIOUS
  <2>1. CASE WatchedNext
    <3>1. kept /\ LoopNext
      BY <2>1, Zenon DEF WatchedNext
    <3> QED BY <3>1, LoopInvStep
  <2>2. CASE UNCHANGED <<vars, kept>>
    <3>1. kept /\ UNCHANGED vars
      BY <2>2, Zenon
    <3> QED BY <3>1, LoopInvStep
  <2> QED BY <2>1, <2>2
<1>3. Inv => KeptIsSafe
  BY DEF KeptIsSafe, LoopInv
<1> QED BY <1>1, <1>2, <1>3, PTL DEF WatchedSpec
=============================================================================
