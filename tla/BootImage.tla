------------------------------ MODULE BootImage ------------------------------
(***************************************************************************)
(* boot images: parse, what unpack records of them, and build.  A header   *)
(* is one cell with its numbers and zeros for the rest of its length; each *)
(* section lies on pages of its own.  Addresses are carried along by       *)
(* parse and build without a look and are left out.                        *)
(***************************************************************************)
EXTENDS ByteIO, ManifestText

CONSTANTS
  BootHeaderLen, \* per header version: the length of the header
  FixedPage,     \* the page size of versions 3 and 4
  DefaultPage,   \* the page size for none, in the manifest or in the image
  NameLen,       \* kBootNameSize
  ArgsLen,       \* kBootArgsSize
  ExtraLen,      \* kBootExtraArgsSize
  FieldBase,     \* 2^7: the fields of the os version are that wide
  MonthBase,     \* 2^4
  BaseYear,      \* 2000
  Unset,         \* an empty version or patch level; no id
  Malformed      \* a version or patch level that is no such text

ASSUME BootAssumption ==
  /\ \A v \in 0 .. 4 : BootHeaderLen[v] \in Nat \ {0}
  /\ FixedPage \in Nat \ {0} /\ DefaultPage \in Nat \ {0}
  /\ NameLen \in Nat /\ ArgsLen \in Nat \ {0} /\ ExtraLen \in Nat
  /\ FieldBase \in Nat \ {0} /\ MonthBase \in Nat \ {0} /\ BaseYear \in Nat
  /\ Unset # Malformed
  /\ {Unset, Malformed} \cap ((Nat \X Nat \X Nat) \cup (Nat \X Nat)) = {}

-----------------------------------------------------------------------------
(* OsVersion: a number in the header, two texts in the manifest             *)

Unpacked(v) ==
  LET field(n) == (v \div n) % FieldBase
      year == field(MonthBase)
  IN  [major |-> field(FieldBase * FieldBase * FieldBase * MonthBase),
       minor |-> field(FieldBase * FieldBase * MonthBase),
       patch |-> field(FieldBase * MonthBase),
       year  |-> IF year = 0 THEN 0 ELSE year + BaseYear,
       month |-> v % MonthBase]

Packed(o) ==
  LET year == IF o.year = 0 THEN 0 ELSE o.year - BaseYear
      and(v, n) == v * FieldBase + (n % FieldBase)
  IN  and(and(and(o.major % FieldBase, o.minor), o.patch), year) * MonthBase
        + (o.month % MonthBase)

\* to_string(), patch_level_string().
OsText(o) ==
  [version |-> IF o.major = 0 /\ o.minor = 0 /\ o.patch = 0 THEN Unset
               ELSE <<o.major, o.minor, o.patch>>,
   level   |-> IF o.year = 0 /\ o.month = 0 THEN Unset ELSE <<o.year, o.month>>]

NoOs == [major |-> 0, minor |-> 0, patch |-> 0, year |-> 0, month |-> 0]

\* OsVersion::parse(), as repack_boot uses it: if one text is malformed,
\* neither of the two counts.
OsParsed(text) ==
  LET v == IF text.version = Unset THEN <<0, 0, 0>> ELSE text.version
      l == IF text.level = Unset THEN <<0, 0>> ELSE text.level
  IN  IF v = Malformed \/ l = Malformed THEN NoOs
      ELSE [major |-> v[1], minor |-> v[2], patch |-> v[3],
            year |-> l[1], month |-> l[2]]

-----------------------------------------------------------------------------
Section == {"kernel", "ramdisk", "second", "recovery_dtbo", "dtb",
            "boot_signature"}

\* The sections an image of a header version has.
SectionsOf(version) ==
  {"kernel", "ramdisk"}
    \cup (IF version <= 2 THEN {"second"} ELSE {})
    \cup (IF version \in {1, 2} THEN {"recovery_dtbo"} ELSE {})
    \cup (IF version = 2 THEN {"dtb"} ELSE {})
    \cup (IF version = 4 THEN {"boot_signature"} ELSE {})

BootPage(h) == IF h.version <= 2 THEN h.page ELSE FixedPage

\* Where parse finds each section; one the version lacks has size 0.
Starts(h) ==
  LET after(p, s)    == AlignUp(p + h.size[s], BootPage(h))
      kernel         == AlignUp(BootHeaderLen[h.version], BootPage(h))
      ramdisk        == after(kernel, "kernel")
      second         == after(ramdisk, "ramdisk")
      recovery_dtbo  == after(second, "second")
      dtb            == after(recovery_dtbo, "recovery_dtbo")
      boot_signature == after(dtb, "dtb")
  IN  [kernel |-> kernel, ramdisk |-> ramdisk, second |-> second,
       recovery_dtbo |-> recovery_dtbo, dtb |-> dtb,
       boot_signature |-> boot_signature,
       end |-> after(boot_signature, "boot_signature")]

\* BootImage::parse does not throw: the last section, too, ends inside the
\* file when filled to a page.
BootReadable(f) ==
  /\ Begins(f, "boot") /\ f[1].version \in 0 .. 4
  /\ Len(f) >= BootHeaderLen[f[1].version]
  /\ f[1].page \in Nat /\ f[1].os \in Nat
  /\ \A s \in Section : f[1].size[s] \in Nat
  /\ \A t \in {f[1].name, f[1].args, f[1].extra} : IsSeq(t)
  /\ BootPage(f[1]) > 0
  /\ Len(f) >= Starts(f[1]).end

SectionIn(f, s) == Cells(f, Starts(f[1])[s], f[1].size[s])

\* BootImage::parse and what unpack_boot records: texts as the manifest gives
\* them back, defaults for what it does not record of versions 3 and 4.
UnpackBoot(f) ==
  LET h == f[1]
  IN  [type    |-> "boot",
       version |-> h.version,
       page    |-> IF h.version <= 2 THEN h.page ELSE DefaultPage,
       name    |-> IF h.version <= 2 THEN Loaded(h.name) ELSE <<>>,
       cmdline |-> Loaded(h.args \o h.extra),
       os      |-> OsText(Unpacked(h.os)),
       sec     |-> [s \in Section |-> SectionIn(f, s)]]

-----------------------------------------------------------------------------
\* Mutant: the dtb is left out.
BootIdNoDtb(d) ==
  IF d.version > 2 THEN Unset
  ELSE <<d.sec.kernel, d.sec.ramdisk, d.sec.second>>
       \o (IF d.version >= 1 THEN <<d.sec.recovery_dtbo>> ELSE <<>>)

\* recompute_id(): what the SHA-1 is taken over, section by section with its
\* size.
BootId(d) ==
  IF d.version > 2 THEN Unset
  ELSE <<d.sec.kernel, d.sec.ramdisk, d.sec.second>>
       \o (IF d.version >= 1 THEN <<d.sec.recovery_dtbo>> ELSE <<>>)
       \o (IF d.version >= 2 THEN <<d.sec.dtb>> ELSE <<>>)

BuiltPage(d) ==
  IF d.version > 2 THEN FixedPage
  ELSE IF d.page = 0 THEN DefaultPage ELSE d.page

\* Mutant: the pages of the second stage are not counted.
DtboOffsetNoSecond(d) ==
  LET pages(s) == AlignUp(Len(d.sec[s]), BuiltPage(d)) \div BuiltPage(d)
  IN  IF d.version \notin {1, 2} \/ d.sec.recovery_dtbo = <<>> THEN 0
      ELSE BuiltPage(d) * (1 + pages("kernel") + pages("ramdisk"))

\* recovery_dtbo_offset: one page for the header.
DtboOffset(d) ==
  LET pages(s) == AlignUp(Len(d.sec[s]), BuiltPage(d)) \div BuiltPage(d)
  IN  IF d.version \notin {1, 2} \/ d.sec.recovery_dtbo = <<>> THEN 0
      ELSE BuiltPage(d) * (1 + pages("kernel") + pages("ramdisk") + pages("second"))

\* Mutant: the second part begins one character late.
ExtraArgsLate(cmdline) == SubSeq(cmdline, ArgsLen + 2, Len(cmdline))

\* The part of a command line that the first field has no room for.
ExtraArgs(cmdline) == SubSeq(cmdline, ArgsLen + 1, Len(cmdline))

\* The header build writes.
BootHeader(d) ==
  [fmt |-> "boot", version |-> d.version, page |-> BuiltPage(d),
   os |-> Packed(OsParsed(d.os)),
   name |-> IF d.version <= 2 THEN Field(d.name, NameLen) ELSE <<>>,
   args |-> Field(d.cmdline, IF d.version <= 2 THEN ArgsLen ELSE ArgsLen + ExtraLen),
   extra |-> IF d.version > 2 THEN <<>>
             ELSE Field(ExtraArgs(d.cmdline), ExtraLen),
   id |-> BootId(d), dtbo_at |-> DtboOffset(d),
   size |-> [s \in Section |->
               IF s \in SectionsOf(d.version) THEN Len(d.sec[s]) ELSE 0]]

\* A boot_signature is written into version 3 as well, which has no size for it.
Written(d, s) ==
  IF s \in SectionsOf(d.version) \/ (s = "boot_signature" /\ d.version = 3)
    THEN d.sec[s] ELSE <<>>

\* BootImage::build, for a version it knows.
BuildBoot(d) ==
  LET page == BuiltPage(d)
      put(w, s) == Padded(w \o Written(d, s), page)
      header == Padded(<<BootHeader(d)>> \o Zeros(BootHeaderLen[d.version] - 1), page)
  IN  put(put(put(put(put(put(header, "kernel"), "ramdisk"), "second"),
                  "recovery_dtbo"), "dtb"), "boot_signature")

\* mkbootimg.py makes the same image of the same parts, but that it keeps the last
\* byte of the first field of a command line for a zero.
MkBoot(d) ==
  IF d.version > 2 THEN BuildBoot(d)
  ELSE [BuildBoot(d) EXCEPT
          ![1].args = Field(d.cmdline, ArgsLen - 1),
          ![1].extra = Field(SubSeq(d.cmdline, ArgsLen, Len(d.cmdline)), ExtraLen)]
=============================================================================
