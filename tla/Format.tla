------------------------------- MODULE Format -------------------------------
(***************************************************************************)
(* sc::fmt (include/sc/format.hpp): texts that are split and trimmed.      *)
(* A text is a sequence of characters.                                     *)
(***************************************************************************)
EXTENDS Naturals, Sequences, FiniteSetsExt

CONSTANTS
  Characters,   \* what texts are made of,
  Spaces        \* and those of them that isspace accepts

Occurrences(p, d) == {s \in DOMAIN p : p[s] = d}

\* Mutant of Cut: always at the last.
CutLast(p, d, reverse) == Max(Occurrences(p, d))

\* Where p is split: find, or rfind.
Cut(p, d, reverse) ==
  IF reverse THEN Max(Occurrences(p, d)) ELSE Min(Occurrences(p, d))

\* Mutant of After: the delimiter stays where it is.
AfterKept(p, s) == SubSeq(p, s, Len(p))

\* remove_prefix( s + 1 ).
After(p, s) == SubSeq(p, s + 1, Len(p))

\* split at the first d, or the last one, for which nothing stands in if there
\* is none: all of p comes first then, or second.
Split(p, d, reverse) ==
  IF Occurrences(p, d) = {} THEN IF reverse THEN << <<>>, p >> ELSE << p, <<>> >>
  ELSE LET s == Cut(p, d, reverse) IN << SubSeq(p, 1, s - 1), After(p, s) >>

\* The places of what is no space.
Solid(p) == {k \in DOMAIN p : p[k] \notin Spaces}

Ltrim(p) == IF Solid(p) = {} THEN <<>> ELSE SubSeq(p, Min(Solid(p)), Len(p))

Rtrim(p) == IF Solid(p) = {} THEN <<>> ELSE SubSeq(p, 1, Max(Solid(p)))

Trim(p) == Rtrim(Ltrim(p))
=============================================================================
