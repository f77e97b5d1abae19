--------------------------- MODULE DeferredErase ---------------------------
(***************************************************************************)
(* sc::deferred_erase and sc::deferred_erase_vector (include/sc/erase.hpp) *)
(* An entry erases its instruction where it is destroyed, and is copied    *)
(* implicitly; so it is when the vector that holds it grows.               *)
(*                                                                         *)
(* A client makes, fills, copies, moves, assigns and destroys vectors, and *)
(* goes on with its instructions.  Destructors of entries run one at a     *)
(* time.                                                                   *)
(***************************************************************************)
EXTENDS Naturals, Sequences

CONSTANTS
  Instructions, Vectors,
  MaxEntries     \* bound: entries of one vector

ASSUME EntriesAssumption == MaxEntries \in Nat

VARIABLES
  where,     \* is an instruction "in" a block, "out" of any, or "freed"?
  deleter,   \* what del( inst ) does: it "forgets" inst, or "deletes" it
  alive,     \* the vectors that exist
  data,      \* the instructions of their entries
  capacity,  \* how many entries fit before the next growth
  doomed,    \* the entries whose destructors are about to run, in order
  status,    \* "ok", or "crashed"
  due,       \* instructions that were pushed, and not inserted anew since
  plain,     \* has the client kept to PlainPush and the like?
  grown      \* has a vector grown that had entries?

llvm == <<where, deleter>>
vectors == <<alive, data, capacity, doomed>>
history == <<due, plain, grown>>
vars == <<llvm, vectors, status, history>>

TypeOK ==
  /\ where \in [Instructions -> {"in", "out", "freed"}]
  /\ deleter \in {"forgets", "deletes"}
  /\ alive \subseteq Vectors
  /\ data \in [Vectors -> Seq(Instructions)]
  /\ \A v \in Vectors : v \notin alive => data[v] = <<>>
  /\ capacity \in [Vectors -> Nat]
  /\ \A v \in Vectors : Len(data[v]) <= capacity[v]
  /\ doomed \in Seq(Instructions)
  /\ status \in {"ok", "crashed"}
  /\ due \subseteq Instructions
  /\ plain \in BOOLEAN /\ grown \in BOOLEAN

Init ==
  /\ where \in [Instructions -> {"in", "out"}]
  /\ deleter \in {"forgets", "deletes"}
  /\ alive = {}
  /\ data = [v \in Vectors |-> <<>>] /\ capacity = [v \in Vectors |-> 0]
  /\ doomed = <<>>
  /\ status = "ok"
  /\ due = {} /\ plain = TRUE /\ grown = FALSE

In(i, s) == \E k \in DOMAIN s : s[k] = i

Held(i) == \E v \in Vectors : In(i, data[v])

\* The client runs once no destructor is left to run.
Client == status = "ok" /\ doomed = <<>>
-----------------------------------------------------------------------------
\* Mutant of Erased: the test for a parent is the wrong way round.
ErasedOrphans(i) == IF where[i] = "out" THEN "freed" ELSE where[i]

\* An instruction that has a parent is erased from it, which deletes it.
Erased(i) == IF where[i] = "in" THEN "freed" ELSE where[i]

\* ~deferred_erase: what is in a block is erased; then del has it, erased or
\* not.  An instruction that is freed must not be asked for its parent.
Reap ==
  LET i == Head(doomed) IN
  /\ status = "ok" /\ doomed # <<>>
  /\ doomed' = Tail(doomed)
  /\ where' = [where EXCEPT ![i] = IF deleter = "deletes" THEN "freed" ELSE Erased(i)]
  /\ status' = IF where[i] = "freed" \/ (deleter = "deletes" /\ Erased(i) = "freed")
               THEN "crashed" ELSE "ok"
  /\ UNCHANGED <<deleter, alive, data, capacity, history>>

Make(v) ==
  /\ Client /\ v \notin alive
  /\ alive' = alive \cup {v}
  /\ UNCHANGED <<llvm, data, capacity, doomed, status, history>>

\* The client pushes what nothing else will erase, and what del can bear.
PlainPush(i) == ~Held(i) /\ (deleter = "deletes" => where[i] = "out")

Doubled(n) == IF n = 0 THEN 1 ELSE 2 * n

\* push: emplace_back.  Entries have a destructor and so no move: a vector
\* that grows copies them, and destroys the old ones.
Push(v, i) ==
  LET full == Len(data[v]) = capacity[v] IN
  /\ Client /\ v \in alive /\ where[i] # "freed"
  /\ Len(data[v]) < MaxEntries
  /\ data' = [data EXCEPT ![v] = Append(@, i)]
  /\ capacity' = IF full THEN [capacity EXCEPT ![v] = Doubled(@)] ELSE capacity
  /\ doomed' = IF full THEN data[v] ELSE <<>>
  /\ due' = due \cup {i}
  /\ plain' = (plain /\ PlainPush(i))
  /\ grown' = (grown \/ (full /\ data[v] # <<>>))
  /\ UNCHANGED <<llvm, alive, status>>

\* The copy constructor; the copy has no room to spare.
Copy(v, w) ==
  /\ Client /\ v \notin alive /\ w \in alive
  /\ alive' = alive \cup {v}
  /\ data' = [data EXCEPT ![v] = data[w]]
  /\ capacity' = [capacity EXCEPT ![v] = Len(data[w])]
  /\ plain' = (plain /\ data[w] = <<>>)
  /\ UNCHANGED <<llvm, doomed, status, due, grown>>

\* Mutant of Handed: the source keeps its entries.
HandedCopied(v, w) == [data EXCEPT ![v] = data[w]]

\* The entries after those of w were moved to v, buffer and all.
Handed(v, w) == [data EXCEPT ![v] = data[w], ![w] = <<>>]

\* The move constructor, and the assignment of a vector moved from, which
\* destroys what v had.
Move(v, w) ==
  /\ Client /\ v # w /\ w \in alive
  /\ alive' = alive \cup {v}
  /\ data' = Handed(v, w)
  /\ capacity' = [capacity EXCEPT ![v] = capacity[w], ![w] = 0]
  /\ doomed' = data[v]
  /\ UNCHANGED <<llvm, status, history>>

\* operator=: what fits is copied over the entries there are, which are then
\* neither erased nor destroyed; the rest of them is destroyed.
Assign(v, w) ==
  /\ Client /\ v # w /\ v \in alive /\ w \in alive
  /\ data' = [data EXCEPT ![v] = data[w]]
  /\ IF Len(data[w]) > capacity[v]
     THEN /\ capacity' = [capacity EXCEPT ![v] = Len(data[w])]
          /\ doomed' = data[v]
     ELSE /\ doomed' = SubSeq(data[v], Len(data[w]) + 1, Len(data[v]))
          /\ UNCHANGED capacity
  /\ plain' = (plain /\ data[v] = <<>> /\ data[w] = <<>>)
  /\ UNCHANGED <<llvm, alive, status, due, grown>>

\* The destructor of a vector.
Destroy(v) ==
  /\ Client /\ v \in alive
  /\ alive' = alive \ {v}
  /\ data' = [data EXCEPT ![v] = <<>>]
  /\ capacity' = [capacity EXCEPT ![v] = 0]
  /\ doomed' = data[v]
  /\ UNCHANGED <<llvm, status, history>>

\* The client removes, inserts or deletes an instruction itself.
Change(i, place) ==
  /\ Client /\ where[i] \notin {"freed", place}
  /\ where' = [where EXCEPT ![i] = place]
  /\ due' = IF Held(i) \/ place # "in" THEN due ELSE due \ {i}
  /\ plain' = (plain /\ ~Held(i))
  /\ UNCHANGED <<deleter, vectors, status, grown>>

Next ==
  \/ Reap
  \/ \E v \in Vectors : Make(v) \/ Destroy(v)
  \/ \E v \in Vectors, i \in Instructions : Push(v, i)
  \/ \E v, w \in Vectors : Copy(v, w) \/ Move(v, w) \/ Assign(v, w)
  \/ \E i \in Instructions, place \in {"in", "out", "freed"} : Change(i, place)

Spec == Init /\ [][Next]_vars
-----------------------------------------------------------------------------
\* The client that erasing is deferred for: it pushes an instruction to one
\* vector, that del can bear, leaves it alone from then on, neither copies
\* nor overwrites entries, and pushes no second time to one that has some.
Kept == plain /\ ~grown

\* Such a client reads no freed instruction, and frees none twice, wherever it
\* moves its vectors (erase.hpp:28-33).
KeptIsSafe == Kept => status # "crashed"

Released(i) == where[i] # "in" /\ (deleter = "deletes" => where[i] = "freed")

\* Its instructions are there as long as a vector holds them, and once no
\* vector does, each has left its block, and del has had each.
KeptDefers ==
  Kept =>
    /\ \A v \in Vectors : \A k \in DOMAIN data[v] : where[data[v][k]] # "freed"
    /\ \A i \in due : Held(i) \/ In(i, doomed) \/ Released(i)

\* Any other push is one too many: the entries that were copied by the last
\* growth are erased at once, though the vector still has them, and the newer
\* half is not (erase.hpp:47).
GrowthErases ==
  plain /\ Client =>
    \A v \in Vectors : \A k \in DOMAIN data[v] :
      LET i == data[v][k] IN
      IF 2 * k <= capacity[v]
      THEN where[i] # "in" /\ (deleter = "deletes" => where[i] = "freed")
      ELSE where[i] # "freed"

\* What such a client rests on: no vector has more than one entry and room for
\* it, and no instruction is waited for twice, be it by an entry or by a
\* destructor that is about to run.
Waiting(i) == Held(i) \/ In(i, doomed)

\* Vectors have one entry at most, and no room for another.
Snug == \A v \in Vectors : capacity[v] = Len(data[v]) /\ Len(data[v]) <= 1

\* No instruction is held twice.
Apart ==
  \A v, w \in Vectors :
    data[v] # <<>> /\ data[w] # <<>> /\ data[v][1] = data[w][1] => v = w

\* At most one destructor is about to run, and nothing holds what it erases.
OneDoomed == Len(doomed) <= 1 /\ (doomed # <<>> => ~Held(doomed[1]))

\* What is waited for can be erased.
Erasable ==
  \A i \in Instructions :
    Waiting(i) => where[i] # "freed" /\ (deleter = "deletes" => where[i] = "out")

Accounted == \A i \in due : Waiting(i) \/ Released(i)

Orderly ==
  /\ Snug /\ Apart /\ OneDoomed /\ Erasable /\ Accounted
  /\ status = "ok"

IInv == TypeOK /\ (Kept => Orderly)

\* The same for a client that pushes on, however often: what an entry finds
\* its instruction in depends on the half of the vector it is in.
Once ==
  \A v, w \in Vectors : \A k \in DOMAIN data[v], l \in DOMAIN data[w] :
    data[v][k] = data[w][l] => v = w /\ k = l

\* A vector that has room has grown to it: more than half of it is taken.
HalfFull == \A v \in Vectors : capacity[v] = 0 \/ 2 * Len(data[v]) > capacity[v]

Halved ==
  \A v \in Vectors : \A k \in DOMAIN data[v] :
    LET i == data[v][k] IN
    IF 2 * k <= capacity[v] THEN Released(i) \/ In(i, doomed)
    ELSE where[i] # "freed" /\ ~In(i, doomed)

Growing == Once /\ HalfFull /\ Halved

GrowthInv == TypeOK /\ (plain /\ status = "ok" => Growing)
=============================================================================
