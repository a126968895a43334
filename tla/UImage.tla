-------------------------------- MODULE UImage --------------------------------
(***************************************************************************)
(* U-Boot legacy images: a header cell with its numbers, two checksums,    *)
(* and the data.  A checksum is the content it is taken over.  Timestamp   *)
(* and addresses are carried along and are left out.                       *)
(***************************************************************************)
EXTENDS ByteIO, ManifestText

CONSTANTS
  UImageLen,     \* kUimageHeaderSize
  UImageNameLen, \* kUimageNameSize
  NoCrc,         \* the zero in place of the header's checksum
  Unknown        \* the name of a number without one

\* Per field: the numbers with a name, and the last one repack looks at.
Named == [os   |-> {0, 5, 17},
          arch |-> {0, 2, 3, 5, 6, 22, 24, 26},
          kind |-> 0 .. 8,
          comp |-> 0 .. 6]
LastNumber == [os |-> 30, arch |-> 30, kind |-> 12, comp |-> 6]

\* Mutant: a number without a name is written as it is.
NameOrNumber(field, n) == n

\* uboot_os_name() and the others: the manifest's name stands for its number.
NameOf(field, n) == IF n \in Named[field] THEN n ELSE Unknown

\* lookup(): Unknown is the name of the first number without one.
Lookup(field, name) ==
  LET nameless == (0 .. LastNumber[field]) \ Named[field]
  IN  IF name # Unknown THEN name
      ELSE IF nameless = {} THEN 0
      ELSE CHOOSE n \in nameless : \A m \in nameless : n <= m

ASSUME UImageAssumption ==
  UImageLen \in Nat \ {0} /\ UImageNameLen \in Nat /\ Unknown \notin Nat

HeaderCrc(h) == [h EXCEPT !.hcrc = NoCrc]

-----------------------------------------------------------------------------
\* UImage::parse does not throw.
UImageReadable(f) ==
  /\ Begins(f, "uimage") /\ Len(f) >= UImageLen
  /\ f[1].hcrc = HeaderCrc(f[1]) /\ f[1].size \in Nat /\ IsSeq(f[1].name)
  /\ Len(f) >= UImageLen + f[1].size
  /\ f[1].dcrc = Cells(f, UImageLen, f[1].size)

\* UImage::parse and what unpack_uimage records.
UnpackUImage(f) ==
  [type |-> "uimage", name |-> Loaded(f[1].name),
   attr |-> [field \in DOMAIN Named |-> NameOf(field, f[1].attr[field])],
   data |-> Cells(f, UImageLen, f[1].size)]

-----------------------------------------------------------------------------
UImageHeader(d) ==
  LET h == [fmt |-> "uimage", hcrc |-> NoCrc, size |-> Len(d.data),
            dcrc |-> d.data, name |-> Field(d.name, UImageNameLen),
            attr |-> [field \in DOMAIN Named |-> Lookup(field, d.attr[field])]]
  IN  [h EXCEPT !.hcrc = HeaderCrc(h)]

\* UImage::build.
BuildUImage(d) == <<UImageHeader(d)>> \o Zeros(UImageLen - 1) \o d.data
=============================================================================
