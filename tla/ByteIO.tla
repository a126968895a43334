-------------------------------- MODULE ByteIO --------------------------------
(* What the containers share: positions and padding in a sequence of cells.  *)
EXTENDS Integers, Sequences

CONSTANTS
  Byte,   \* the values of a cell of data
  Zero    \* the byte 0

ASSUME ByteAssumption == Zero \in Byte

-----------------------------------------------------------------------------
\* A sequence, whatever its cells are.
IsSeq(t) == t \in Seq({t[i] : i \in 1 .. Len(t)})

\* align_up().
AlignUp(n, page) ==
  IF page = 0 THEN n ELSE ((n + page - 1) \div page) * page

Zeros(n) == [i \in 1 .. n |-> Zero]

\* BinaryWriter::align().
Padded(s, page) == s \o Zeros(AlignUp(Len(s), page) - Len(s))

\* BinaryReader::bytes() at position p, counted from 0.
Cells(f, p, n) == SubSeq(f, p + 1, p + n)

\* BinaryWriter::asciiz(), read back: at most n characters.
Field(text, n) == SubSeq(text, 1, IF Len(text) < n THEN Len(text) ELSE n)

\* f begins with a header (a cell of numbers) of format fmt.
Begins(f, fmt) == Len(f) > 0 /\ f[1] \notin Byte /\ f[1].fmt = fmt

=============================================================================
