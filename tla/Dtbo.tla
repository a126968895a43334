--------------------------------- MODULE Dtbo ---------------------------------
(***************************************************************************)
(* dtbo images: a table of entries, each pointing at its blob, which may   *)
(* be deflated.  Header and entry are a cell of numbers and zeros; a       *)
(* deflated blob is one cell that knows which deflater made it.  The other *)
(* words of an entry (rev, custom) are carried along like its id.          *)
(***************************************************************************)
EXTENDS ByteIO

CONSTANTS
  TableLen, \* kHeaderSize
  RowLen    \* kEntrySize

LOCAL INSTANCE SequencesExt

ASSUME DtboAssumption == TableLen \in Nat \ {0} /\ RowLen \in Nat \ {0}

Deflated(comp, enc, data) ==
  <<[fmt |-> "zip", comp |-> comp, enc |-> enc, data |-> data]>>

\* What zlib_inflate_auto accepts, of either wrapper: a stream and whatever is
\* behind it, or nothing.  A stream without its end (enc "cut") is accepted as
\* well: data is then as much as there is of it.
Inflatable(blob) == blob = <<>> \/ (Begins(blob, "zip") /\ IsSeq(blob[1].data))
Inflated(blob)   == IF blob = <<>> THEN <<>> ELSE blob[1].data

\* DtboEntry::compression(), of version 1 only.
IsDeflated(version, comp) == version = 1 /\ comp \in {1, 2}

-----------------------------------------------------------------------------
\* Row i of the table: anything else at its place reads as wild numbers.
RowAt(h, i) == h.rows_at + (i - 1) * h.row_size
Row(f, i)   == f[RowAt(f[1], i) + 1]
Blob(f, i)  == Cells(f, Row(f, i).offset, Row(f, i).size)

\* DtboImage::parse does not throw.
DtboReadable(f) ==
  /\ Begins(f, "dtbo") /\ Len(f) >= TableLen
  /\ f[1].version \in {0, 1} /\ f[1].header_size >= TableLen
  /\ {f[1].count, f[1].rows_at, f[1].row_size} \subseteq Nat
  /\ f[1].count > 0 => f[1].row_size >= RowLen
  /\ \A i \in 1 .. f[1].count :
       /\ RowAt(f[1], i) + RowLen <= Len(f)
       /\ Begins(Cells(f, RowAt(f[1], i), RowLen), "row")
       /\ {Row(f, i).offset, Row(f, i).size} \subseteq Nat
       /\ Row(f, i).offset + Row(f, i).size <= Len(f)
       /\ IsDeflated(f[1].version, Row(f, i).comp) => Inflatable(Blob(f, i))

\* DtboImage::parse and what unpack_dtbo records.
UnpackDtbo(f) ==
  [type |-> "dtbo", version |-> f[1].version, page |-> f[1].page,
   acpio |-> f[1].acpio,
   entries |-> [i \in 1 .. f[1].count |->
     [id |-> Row(f, i).id, comp |-> Row(f, i).comp,
      data |-> IF IsDeflated(f[1].version, Row(f, i).comp)
                 THEN Inflated(Blob(f, i)) ELSE Blob(f, i)]]]

-----------------------------------------------------------------------------
Payload(d, i) ==
  IF IsDeflated(d.version, d.entries[i].comp)
    THEN Deflated(d.entries[i].comp, "abr", d.entries[i].data)
    ELSE d.entries[i].data

\* Mutant: the size of what is to be deflated.
SizeOfData(d, i) == Len(d.entries[i].data)

\* sizes[i].
Size(d, i) == Len(Payload(d, i))

\* Where build puts blob i, and behind the last one the end.
Cursor(d) ==
  LET at[i \in 1 .. Len(d.entries) + 1] ==
        IF i = 1 THEN TableLen + Len(d.entries) * RowLen
        ELSE at[i - 1] + Size(d, i - 1)
  IN  at

DtboTable(d) ==
  [fmt |-> "dtbo", acpio |-> d.acpio, version |-> d.version, page |-> d.page,
   total |-> Cursor(d)[Len(d.entries) + 1], header_size |-> TableLen,
   rows_at |-> TableLen, row_size |-> RowLen, count |-> Len(d.entries)]

DtboRow(d, i) ==
  [fmt |-> "row", id |-> d.entries[i].id, comp |-> d.entries[i].comp,
   offset |-> Cursor(d)[i], size |-> Size(d, i)]

\* DtboImage::build, for a version it knows.
BuildDtbo(d) ==
  LET n == Len(d.entries)
  IN  <<DtboTable(d)>> \o Zeros(TableLen - 1)
        \o FlattenSeq([i \in 1 .. n |-> <<DtboRow(d, i)>> \o Zeros(RowLen - 1)])
        \o FlattenSeq([i \in 1 .. n |-> Payload(d, i)])
=============================================================================
