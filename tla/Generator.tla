----------------------------- MODULE Generator -----------------------------
(***************************************************************************)
(* sc::generator (include/sc/generator.hpp): the coroutine frames, the     *)
(* generator objects that own them, and the iterators that do not.         *)
(*                                                                         *)
(* A client holds named generators and iterators and calls their           *)
(* operations in any order.  What a body does when it is resumed is open:  *)
(* it yields, returns or throws.                                           *)
(***************************************************************************)
EXTENDS Naturals, FiniteSets

CONSTANTS
  Generators, Iterators,  \* the client's objects
  Frames,                 \* the coroutine frames there can be
  None,                   \* a null handle
  Gone,                   \* a generator object that does not exist (any more)
  MaxYields               \* bound: yields of one coroutine

ASSUME HandlesAssumption == None \notin Frames /\ Gone \notin Frames /\ None # Gone

ASSUME YieldsAssumption == MaxYields \in Nat

VARIABLES
  held,    \* the _coroutine of a generator
  at,      \* the _coroutine of an iterator
  state,   \* where a frame is suspended
  yields,  \* how often it has yielded; _value is not set before the first time
  raised,  \* the frames that store an exception
  thrown,  \* how often the exception of a frame has come out
  begun,   \* the frames that begin() was called for
  status   \* how the last call ended

vars == <<held, at, state, yields, raised, thrown, begun, status>>

Live == {"start", "yielded", "ended"}

TypeOK ==
  /\ held \in [Generators -> Frames \cup {None, Gone}]
  /\ at \in [Iterators -> Frames \cup {None}]
  /\ state \in [Frames -> Live \cup {"unmade", "freed"}]
  /\ yields \in [Frames -> 0..MaxYields]
  /\ raised \subseteq Frames
  /\ thrown \in [Frames -> Nat]
  /\ begun \subseteq Frames
  /\ status \in {"ok", "threw", "crashed"}

Init ==
  /\ held = [g \in Generators |-> Gone]
  /\ at = [i \in Iterators |-> None]
  /\ state = [f \in Frames |-> "unmade"]
  /\ yields = [f \in Frames |-> 0]
  /\ raised = {}
  /\ thrown = [f \in Frames |-> 0]
  /\ begun = {}
  /\ status = "ok"
-----------------------------------------------------------------------------
\* Undefined behaviour: nothing follows it.
Crash ==
  /\ status' = "crashed"
  /\ UNCHANGED <<held, at, state, yields, raised, thrown, begun>>

\* A change of generators: newHeld are their handles after it, old the frame
\* that is destroyed, st the states of the frames before that.
Rehold(newHeld, old, st) ==
  /\ held' = newHeld
  /\ state' = IF old \in Frames THEN [st EXCEPT ![old] = "freed"] ELSE st
  /\ status' = "ok"
  /\ UNCHANGED <<at, yields, raised, thrown, begun>>

\* A coroutine is called: it is suspended before its body begins.
Call(g, f) ==
  /\ held[g] = Gone /\ state[f] = "unmade"
  /\ Rehold([held EXCEPT ![g] = f], None, [state EXCEPT ![f] = "start"])

\* Mutant of Moved: the source keeps its handle.
MovedCopied(h) == held

\* The handles once the one of h was moved from.
Moved(h) == [held EXCEPT ![h] = None]

\* The move constructor.
Move(g, h) ==
  /\ held[g] = Gone /\ held[h] # Gone
  /\ Rehold([Moved(h) EXCEPT ![g] = held[h]], None, state)

\* Mutant of Assign: the handle is overwritten, and not swapped.
AssignOverwriting(g, h) ==
  /\ held[g] # Gone /\ held[h] # Gone
  /\ Rehold([Moved(h) EXCEPT ![g] = held[h]], None, state)

\* operator=: h is moved into the parameter, which is swapped with g and
\* destroyed.
Assign(g, h) ==
  /\ held[g] # Gone /\ held[h] # Gone
  /\ Rehold([Moved(h) EXCEPT ![g] = held[h]], Moved(h)[g], state)

\* operator= from a call: the parameter is the generator returned.
AssignCall(g, f) ==
  /\ held[g] # Gone /\ state[f] = "unmade"
  /\ Rehold([held EXCEPT ![g] = f], held[g], [state EXCEPT ![f] = "start"])

Swap(g, h) ==
  /\ held[g] # Gone /\ held[h] # Gone
  /\ Rehold([held EXCEPT ![g] = held[h], ![h] = held[g]], None, state)

Destroy(g) ==
  /\ held[g] # Gone
  /\ Rehold([held EXCEPT ![g] = Gone], held[g], state)
-----------------------------------------------------------------------------
Yield(f) ==
  /\ yields[f] < MaxYields
  /\ yields' = [yields EXCEPT ![f] = @ + 1]
  /\ state' = [state EXCEPT ![f] = "yielded"]
  /\ status' = "ok"
  /\ UNCHANGED <<raised, thrown>>

Return(f) ==
  /\ state' = [state EXCEPT ![f] = "ended"]
  /\ status' = "ok"
  /\ UNCHANGED <<yields, raised, thrown>>

\* Mutant of Throw: nobody asks for the exception that was stored.
ThrowSwallowed(f) ==
  /\ state' = [state EXCEPT ![f] = "ended"]
  /\ raised' = raised \cup {f}
  /\ status' = "ok"
  /\ UNCHANGED <<yields, thrown>>

\* unhandled_exception stores the exception; the coroutine is done then, and
\* who resumed it rethrows what it finds there.
Throw(f) ==
  /\ state' = [state EXCEPT ![f] = "ended"]
  /\ raised' = raised \cup {f}
  /\ thrown' = [thrown EXCEPT ![f] = @ + 1]
  /\ status' = "threw"
  /\ UNCHANGED yields

Resume(f) == Yield(f) \/ Return(f) \/ Throw(f)

\* Mutant of Begin: the body is not resumed up to its first yield.
BeginLazily(g, i) ==
  /\ held[g] # Gone
  /\ at' = [at EXCEPT ![i] = held[g]]
  /\ begun' = begun \cup ({held[g]} \cap Frames)
  /\ status' = "ok"
  /\ UNCHANGED <<held, state, yields, raised, thrown>>

\* begin(): resumes whatever coroutine there is, be it done already.  If that
\* throws, no iterator is returned.
Begin(g, i) ==
  \/ /\ held[g] = None
     /\ at' = [at EXCEPT ![i] = None]
     /\ status' = "ok"
     /\ UNCHANGED <<held, state, yields, raised, thrown, begun>>
  \/ held[g] \in Frames /\ state[held[g]] = "ended" /\ Crash
  \/ /\ held[g] \in Frames /\ state[held[g]] # "ended"
     /\ Resume(held[g])
     /\ at' = IF status' = "threw" THEN at ELSE [at EXCEPT ![i] = held[g]]
     /\ begun' = begun \cup {held[g]}
     /\ UNCHANGED held

CanResume(i) == at[i] \in Frames /\ state[at[i]] \in {"start", "yielded"}

\* operator++.
Increment(i) ==
  \/ ~CanResume(i) /\ Crash
  \/ /\ CanResume(i)
     /\ Resume(at[i])
     /\ UNCHANGED <<held, at, begun>>

Unchanged == status' = "ok" /\ UNCHANGED <<held, at, state, yields, raised, thrown, begun>>

\* operator*: what was yielded lives as long as the body is suspended there.
Read(i) ==
  IF CanResume(i) /\ yields[at[i]] > 0 THEN Unchanged ELSE Crash

\* it == end(): asks the coroutine whether it is done.
Compare(i) ==
  IF at[i] \in Frames /\ state[at[i]] = "freed" THEN Crash ELSE Unchanged

Copy(i, j) ==
  /\ at' = [at EXCEPT ![j] = at[i]]
  /\ status' = "ok"
  /\ UNCHANGED <<held, state, yields, raised, thrown, begun>>
-----------------------------------------------------------------------------
Owning ==
  \/ \E g \in Generators, f \in Frames : Call(g, f) \/ AssignCall(g, f)
  \/ \E g, h \in Generators : Move(g, h) \/ Assign(g, h) \/ Swap(g, h)
  \/ \E g \in Generators : Destroy(g)

Next ==
  /\ status # "crashed"
  /\ \/ Owning
     \/ \E g \in Generators, i \in Iterators : Begin(g, i)
     \/ \E i \in Iterators : Increment(i) \/ Read(i) \/ Compare(i)
     \/ \E i, j \in Iterators : Copy(i, j)

Spec == Init /\ [][Next]_vars

(***************************************************************************)
(* The contract that a loop over a generator keeps: begin() once for each  *)
(* coroutine, no use of an iterator whose coroutine was destroyed with its *)
(* generator, and neither ++ nor * on one that compares equal to end().    *)
(***************************************************************************)
Usable(i) == at[i] \in Frames => state[at[i]] # "freed"

NotAtEnd(i) == at[i] \in Frames /\ state[at[i]] # "ended"

LoopNext ==
  /\ status # "crashed"
  /\ \/ Owning
     \/ \E g \in Generators, i \in Iterators : held[g] \notin begun /\ Begin(g, i)
     \/ \E i \in Iterators :
          Usable(i) /\ (Compare(i) \/ (NotAtEnd(i) /\ (Increment(i) \/ Read(i))))
     \/ \E i, j \in Iterators : Copy(i, j)

LoopSpec == Init /\ [][LoopNext]_vars
-----------------------------------------------------------------------------
\* Each coroutine that is not destroyed is owned by exactly one generator,
\* and a destroyed one by none: moves, assignments and swaps neither leak a
\* frame nor leave it to two destructors (generator.hpp:140-171).
OneOwner ==
  \A f \in Frames :
    /\ state[f] \in Live <=> \E g \in Generators : held[g] = f
    /\ \A g, h \in Generators : held[g] = f /\ held[h] = f => g = h

\* An exception that leaves the body comes out of the call that resumed it,
\* once, and of no later call (generator.hpp:58, 68-72, 113-120, 158-167).
ThrownOnce == \A f \in Frames : thrown[f] = IF f \in raised THEN 1 ELSE 0

\* A loop that keeps the contract never meets a null, destroyed, finished or
\* valueless coroutine.
NeverCrashes == status # "crashed"

\* A coroutine that stores an exception is done.
RaisedEnded == \A f \in raised : state[f] \in {"ended", "freed"}

\* What the invariants of any client rest on.
IInv == TypeOK /\ OneOwner /\ ThrownOnce /\ RaisedEnded

\* The strengthening of NeverCrashes: the coroutine of an iterator has been
\* resumed by begin(), and one that was not begun has not.
Started ==
  /\ \A i \in Iterators : at[i] \in Frames => at[i] \in begun
  /\ \A f \in Frames : state[f] \in {"unmade", "start"} => f \notin begun
  /\ \A f \in Frames : state[f] \in {"yielded", "ended"} => f \in begun
  /\ \A f \in Frames : state[f] = "yielded" => yields[f] > 0
=============================================================================
