--------------------------------- MODULE Dtb ---------------------------------
(* Device trees one after the other, split by their totalsize and joined.    *)
EXTENDS ByteIO

CONSTANTS
  FdtLen,  \* kFdtHeaderSize
  Invalid  \* a tree with an invalid totalsize

LOCAL INSTANCE SequencesExt

ASSUME DtbAssumption == FdtLen \in Nat \ {0}

\* looks_like_fdt().
LooksLikeFdt(f) == Len(f) >= FdtLen /\ Begins(f, "fdt")

AllZero(s) == \A i \in DOMAIN s : s[i] = Zero

\* split_fdt_blobs() from position p on: the blobs, or Invalid at the end if
\* one has no valid totalsize.
Blobs(f) ==
  LET from[p \in 0 .. Len(f)] ==
        LET rest == Cells(f, p, Len(f) - p)
        IN  IF rest = <<>> THEN <<>>
            ELSE IF ~LooksLikeFdt(rest)
              THEN IF AllZero(rest) THEN <<>> ELSE <<rest>>
            ELSE IF rest[1].total \notin 1 .. Len(rest) THEN <<Invalid>>
            ELSE <<Cells(rest, 0, rest[1].total)>> \o from[p + rest[1].total]
  IN  from[0]

DtbReadable(f) == \A i \in DOMAIN Blobs(f) : Blobs(f)[i] # Invalid

\* split_fdt_blobs() and what unpack_dtb records.
UnpackDtb(f) ==
  [type |-> "dtb", blobs |-> IF Blobs(f) = <<>> THEN <<f>> ELSE Blobs(f)]

\* join_fdt_blobs().
BuildDtb(d) == FlattenSeq(d.blobs)
=============================================================================
