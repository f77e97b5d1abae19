--------------------------- MODULE GeneratorLoop ---------------------------
(***************************************************************************)
(* The client of generators of include/sc/generator.hpp, watched: kept     *)
(* says whether all its calls so far were ones that the contract of a loop *)
(* allows.  Nothing stops it from breaking the contract.                   *)
(***************************************************************************)
EXTENDS Generator

VARIABLE kept

WatchedInit == Init /\ kept = TRUE

WatchedNext == Next /\ kept' = (kept /\ LoopNext)

WatchedSpec == WatchedInit /\ [][WatchedNext]_<<vars, kept>>
-----------------------------------------------------------------------------
\* As long as the client keeps the contract of a loop, no call meets a null,
\* destroyed, finished or valueless coroutine, whatever was moved, assigned or
\* thrown in between (generator.hpp:97-126, 140-167).
KeptIsSafe == kept => NeverCrashes
=============================================================================
