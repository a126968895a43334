----------------------------- MODULE ManifestText -----------------------------
(* What a value of the manifest is after it was saved and loaded.            *)
EXTENDS Integers, Sequences

CONSTANTS
  Blank,  \* blanks and tabs of a text
  Break   \* a line break in a text

-----------------------------------------------------------------------------
\* trim().
Trim(text) ==
  LET ink == {i \in DOMAIN text : text[i] \notin {Blank, Break}}
  IN  IF ink = {} THEN <<>>
      ELSE SubSeq(text, CHOOSE i \in ink : \A j \in ink : i <= j,
                        CHOOSE i \in ink : \A j \in ink : i >= j)

\* A value saved and loaded: the line ends at a break, and what follows it is
\* a line without '=', which load skips.
FirstLine(text) ==
  LET breaks == {i \in DOMAIN text : text[i] = Break}
  IN  IF breaks = {} THEN text
      ELSE SubSeq(text, 1, (CHOOSE i \in breaks : \A j \in breaks : i <= j) - 1)

Loaded(text) == Trim(FirstLine(text))
=============================================================================
