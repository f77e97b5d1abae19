--------------------------- MODULE MCAnnotations ---------------------------
(***************************************************************************)
(* Instances of Annotations: modules of up to MaxEntries annotations, of   *)
(* functions, of a global under a cast of its pointer, and of a char, that *)
(* has no need of one.                                                     *)
(***************************************************************************)
EXTENDS Annotations

Texts == { <<>>, <<"a">>, <<"b">>, <<"a", ".">>, <<".", "a">>, <<"a", ".", "b">>,
           <<"a", ".", ".", "b">>, <<"a", ".", "b", ".", "a">>, <<"a", "b", ".", "a">> }

Value(kind, operands) == [kind |-> kind, operands |-> operands]

\* LLVM has no array of data for an empty text.
Array(text) ==
  IF text = <<>> THEN Value("zero", <<>>) ELSE [kind |-> "data", text |-> text]

Entry(value, text) ==
  Value("struct", <<value, Value("cast", <<Value("global", <<Array(text)>>)>>)>>)

Function == Value("cast", <<Value("function", <<>>)>>)
Global   == Value("cast", <<Value("global", <<Value("int", <<>>)>>)>>)
Char     == Value("global", <<Value("int", <<>>)>>)

MCEntries ==
       {Entry(Function, t) : t \in Texts}
  \cup {Entry(Global, <<"a", ".", "b">>), Entry(Char, <<>>), Value("zero", <<>>)}

MCQuestions ==
       {[by |-> "text", of |-> t] : t \in Texts}
  \cup {[by |-> "parts", of |-> p] :
          p \in { <<>>, << <<"a">> >>, << <<"a">>, <<"b">> >>, << <<"a", ".", "b">> >> }}
=============================================================================
