--------------------------- MODULE VendorBootProofs ---------------------------
(***************************************************************************)
(* VendorBoot for any number of fragments, of any length, on pages of any  *)
(* size, over any number of rounds.                                        *)
(***************************************************************************)
EXTENDS VendorBoot, ByteIOProofs

-----------------------------------------------------------------------------
(* Types                                                                    *)

Cell == Byte \cup Header \cup Entry

Editing   == {"edit", "concat", "put_ramdisk", "put_dtb", "put_table", "take"}
AfterHead == {"ramdisk", "dtb", "single", "table"}

\* TypeOK, and what is there while parse or build runs.
Typed ==
  /\ TypeOK
  /\ stage \in AfterHead \cup {"header"} => file \in File
  /\ stage \in AfterHead =>
       /\ header \in Header /\ header.page > 0 /\ img \in Content
  /\ stage = "ramdisk" => header.version \in {3, 4} /\ img.version \in {3, 4}
  /\ stage \in Editing => img \in Content
  /\ stage \in Editing \ {"edit"} => img.version \in {3, 4}
  /\ stage \notin {"idle", "edit"} => result = "none"

LEMMA FileFacts ==
  /\ Zero \in Cell /\ File = Seq(Cell)
  /\ \A h \in Header : h \in Cell
  /\ \A e \in Entry : e \in Cell
  /\ <<>> \in File
  BY ByteAssumption, EmptySeq DEF File, Cell

LEMMA NullApart ==
  /\ Null \notin File /\ Null \notin Header
  BY VendorBootAssumption

\* Each command of the user is an edit of the content.
LEMMA UserEdits ==
  ASSUME Typed, User
  PROVE  \E new \in Content : Edit(new)
<1>0. stage = "edit" /\ img \in Content
  BY DEF User, Typed, Editing
<1>1. Known \subseteq Type /\ Data \subseteq File /\ Page \subseteq Nat
  <2>1. \A d \in Seq(Byte) : d \in File
    BY SeqMonotonic, FileFacts DEF Cell
  <2> QED
    BY <2>1, VendorBootAssumption
<1>2. \A t \in Known, d \in Data : [type |-> t, data |-> d] \in Fragment
  BY <1>1 DEF Fragment
<1>3. img.frags \in Seq(Fragment)
  BY <1>0 DEF Content
<1>4. \A fr \in Seq(Fragment) : [img EXCEPT !.frags = fr] \in Content
  BY <1>0 DEF Content
<1>5. ASSUME NEW type \in Known, NEW data \in Data, AddFragment(type, data)
      PROVE  \E new \in Content : Edit(new)
  <2> DEFINE f == [type |-> type, data |-> data]
             new == [img EXCEPT !.frags = Append(@, f)]
  <2>1. Append(img.frags, f) \in Seq(Fragment)
    BY <1>2, <1>3, AppendProperties
  <2>2. new = [img EXCEPT !.frags = Append(img.frags, f)]
    BY <1>0 DEF Content
  <2>3. new \in Content
    BY <1>4, <2>1, <2>2
  <2> QED
    BY <1>5, <2>3 DEF AddFragment
<1>6. ASSUME NEW type \in Known, NEW data \in Data, NEW n \in 1 .. Len(img.frags),
             EditFragment(n, type, data)
      PROVE  \E new \in Content : Edit(new)
  <2> DEFINE f == [type |-> type, data |-> data]
             new == [img EXCEPT !.frags[n] = f]
  <2>1. [img.frags EXCEPT ![n] = f] \in Seq(Fragment)
    BY <1>2, <1>3, ExceptSeq
  <2>2. new = [img EXCEPT !.frags = [img.frags EXCEPT ![n] = f]]
    BY <1>0 DEF Content
  <2>3. new \in Content
    BY <1>4, <2>1, <2>2
  <2> QED
    BY <1>6, <2>3 DEF EditFragment
<1>7. CASE DropFragment
  <2> DEFINE fr == SubSeq(img.frags, 1, Len(img.frags) - 1)
             new == [img EXCEPT !.frags = SubSeq(@, 1, Len(@) - 1)]
  <2>1. fr \in Seq(Fragment)
    <3>1. Len(img.frags) \in Nat /\ \A i \in 1 .. Len(img.frags) - 1 : img.frags[i] \in Fragment
      BY <1>3, ElementOfSeq, LenProperties
    <3> QED
      BY <3>1, SubSeqProperties
  <2>2. new = [img EXCEPT !.frags = fr]
    BY <1>0 DEF Content
  <2>3. new \in Content
    BY <1>4, <2>1, <2>2
  <2> QED
    BY <1>7, <2>3 DEF DropFragment
<1>8. ASSUME NEW data \in Data, EditBlob(data)
      PROVE  \E new \in Content : Edit(new)
  <2>1. /\ [img EXCEPT !.dtb = data] \in Content
        /\ [img EXCEPT !.bootconfig = data] \in Content
    BY <1>0, <1>1 DEF Content
  <2> QED
    BY <1>8, <2>1 DEF EditBlob
<1>9. ASSUME NEW version \in {3, 4, 5}, NEW page \in Page, EditHeader(version, page)
      PROVE  \E new \in Content : Edit(new)
  <2>1. version \in Nat /\ page \in Nat
    BY <1>1, SMT
  <2>2. [img EXCEPT !.version = version, !.page = page] \in Content
    BY <1>0, <2>1 DEF Content
  <2> QED
    BY <1>9, <2>2 DEF EditHeader
<1> QED
  BY <1>5, <1>6, <1>7, <1>8, <1>9 DEF User

\* Where parse is, and what is there.
LEMMA ParseTypes ==
  ASSUME Typed, stage \in AfterHead
  PROVE  /\ header.page \in Nat \ {0} /\ header.ramdisk_size \in Nat
         /\ header.dtb_size \in Nat /\ header.entry_num \in Nat
         /\ header.entry_size \in Nat /\ header.bootconfig_size \in Nat
         /\ Start \in Nat
         /\ \A n \in Nat : After(n) \in Nat
<1>1. header \in Header /\ header.page > 0 /\ pos \in Nat
  BY DEF Typed, TypeOK
<1>2. /\ header.page \in Nat \ {0} /\ header.ramdisk_size \in Nat
      /\ header.dtb_size \in Nat /\ header.entry_num \in Nat
      /\ header.entry_size \in Nat /\ header.bootconfig_size \in Nat
  BY <1>1 DEF Header
<1>3. Start \in Nat
  BY <1>1, <1>2, AlignUpFacts DEF Start
<1>4. ASSUME NEW n \in Nat PROVE After(n) \in Nat
  <2>1. Start + n \in Nat
    BY <1>3
  <2> QED
    BY <1>2, <2>1, AlignUpFacts DEF After
<1> QED
  BY <1>2, <1>3, <1>4

\* What is read inside a file is a blob.
LEMMA CellsInFile ==
  ASSUME NEW f \in File, NEW p \in Nat, NEW n \in Nat, p + n <= Len(f)
  PROVE  Cells(f, p, n) \in File
<1>1. f \in Seq(Cell) /\ Len(f) \in Nat
  BY FileFacts, LenProperties
<1>2. \A i \in p + 1 .. p + n : f[i] \in Cell
  <2> TAKE i \in p + 1 .. p + n
  <2>1. i \in 1 .. Len(f)
    BY <1>1
  <2> QED
    BY <1>1, <2>1, ElementOfSeq
<1>3. p + 1 \in Int /\ p + n \in Int
  OBVIOUS
<1>4. SubSeq(f, p + 1, p + n) \in Seq(Cell)
  BY <1>2, <1>3, SubSeqProperties
<1> QED
  BY <1>4, FileFacts DEF Cells

LEMMA PartInFile ==
  ASSUME NEW s \in File, NEW e \in Entry, e.offset + e.size <= Len(s)
  PROVE  SubSeq(s, e.offset + 1, e.offset + e.size) \in File
<1>1. e.offset \in Nat /\ e.size \in Nat
  BY DEF Entry
<1> QED
  BY <1>1, CellsInFile DEF Cells

LEMMA PadInFile ==
  ASSUME NEW v \in File, NEW t \in File, NEW p \in Nat \ {0}
  PROVE  Padded(v \o t, p) \in File /\ Padded(v, p) \in File /\ v \o t \in File
<1>1. Padded(v \o t, p) \in Seq(Cell) /\ Padded(v, p) \in Seq(Cell)
  BY FileFacts, PutFacts, PaddedFacts
<1>2. v \o t \in Seq(Cell)
  BY FileFacts, ConcatProperties
<1> QED
  BY <1>1, <1>2, FileFacts

LEMMA BuildTypes ==
  ASSUME img \in Content, section \in File
  PROVE  /\ PageSize \in Nat \ {0}
         /\ \A n \in Nat : HeaderOf(n) \in Header
         /\ \A t \in Type : Named(t) \in Type
<1>1. img.version \in Nat /\ img.page \in Nat /\ img.dtb \in File /\ img.bootconfig \in File
  BY DEF Content
<1>2. DefaultPage \in Nat \ {0} /\ EntryLen \in Nat /\ Known \subseteq Type /\ "none" \in Known
  BY VendorBootAssumption
<1>3. PageSize \in Nat \ {0}
  BY <1>1, <1>2 DEF PageSize
<1>4. Len(section) \in Nat /\ Len(img.dtb) \in Nat /\ Len(img.bootconfig) \in Nat
  BY <1>1, LenProperties DEF File
<1>5. ASSUME NEW n \in Nat PROVE HeaderOf(n) \in Header
  BY <1>1, <1>2, <1>3, <1>4 DEF HeaderOf, Header
<1> QED
  BY <1>2, <1>3, <1>5 DEF Named

\* Entry n with the rest of its length.
EntryCells(e) == <<e>> \o Zeros(EntryLen - 1)

LEMMA OneCell ==
  ASSUME NEW e \in Cell, NEW n \in Nat \ {0}
  PROVE  /\ <<e>> \o Zeros(n - 1) \in File
         /\ Len(<<e>> \o Zeros(n - 1)) = n
         /\ (<<e>> \o Zeros(n - 1))[1] = e
         /\ \A i \in 2 .. n : (<<e>> \o Zeros(n - 1))[i] = Zero
<1>1. n - 1 \in Nat /\ Zeros(n - 1) \in Seq(Cell) /\ Len(Zeros(n - 1)) = n - 1
  BY FileFacts, ZerosFacts
<1>2. <<e>> \in Seq(Cell) /\ Len(<<e>>) = 1 /\ <<e>>[1] = e
  OBVIOUS
<1>3. /\ <<e>> \o Zeros(n - 1) \in Seq(Cell)
      /\ Len(<<e>> \o Zeros(n - 1)) = 1 + (n - 1)
      /\ \A i \in 1 .. 1 + (n - 1) :
           (<<e>> \o Zeros(n - 1))[i] = IF i <= 1 THEN <<e>>[i] ELSE Zeros(n - 1)[i - 1]
  BY <1>1, <1>2, ConcatProperties
<1>4. \A i \in 2 .. n : Zeros(n - 1)[i - 1] = Zero
  <2> TAKE i \in 2 .. n
  <2>1. i - 1 \in 1 .. n - 1
    OBVIOUS
  <2> QED
    BY <2>1 DEF Zeros
<1>5. 1 + (n - 1) = n /\ 1 \in 1 .. n /\ \A i \in 2 .. n : i \in 1 .. n /\ ~(i <= 1)
  OBVIOUS
<1> QED
  BY <1>2, <1>3, <1>4, <1>5, FileFacts


\* The stages apart, for the provers.
LEMMA TypedStep ==
  ASSUME Typed, [Next]_vars
  PROVE  Typed'
<1> USE DEF AfterHead, Editing
<1>0. /\ File \cap {Null} = {} /\ Null \notin Header /\ <<>> \in File
  BY NullApart, FileFacts
<1>1. ASSUME NEW f, Unpack(f) PROVE Typed'
  <2>1. f \in File
    BY <1>0, <1>1, VendorBootAssumption DEF Unpack, Typed, TypeOK
  <2> QED
    BY <1>0, <1>1, <2>1 DEF Unpack, Typed, TypeOK, parsing, building
<1>2. CASE ReadHeader
  <2>1. file[1] \in Header /\ file[1].version \in {3, 4} /\ file[1].page > 0
    BY <1>2 DEF ReadHeader, HeaderReadable
  <2>2. HeaderLen[file[1].version] \in Nat
    BY <2>1, VendorBootAssumption
  <2>3. img' \in Content /\ img'.version \in {3, 4}
    <3>1. <<>> \in Seq(Fragment)
      BY EmptySeq
    <3>2. file[1].version \in Nat /\ file[1].page \in Nat
      BY <2>1 DEF Header
    <3> QED
      BY <1>0, <1>2, <2>1, <3>1, <3>2 DEF ReadHeader, Content
  <2> QED
    BY <1>0, <1>2, <2>1, <2>2, <2>3 DEF ReadHeader, Typed, TypeOK, building
<1>3. CASE ReadRamdisk
  <2>1. Start \in Nat /\ header.ramdisk_size \in Nat
    BY <1>3, ParseTypes DEF ReadRamdisk
  <2>2. file \in File /\ Start + header.ramdisk_size <= Len(file)
    BY <1>3 DEF ReadRamdisk, Has, Typed
  <2>3. Bytes(Start, header.ramdisk_size) \in File
    BY <2>1, <2>2, CellsInFile DEF Bytes
  <2> QED
    BY <1>3, <2>1, <2>3 DEF ReadRamdisk, Typed, TypeOK, building
<1>4. CASE ReadDtb
  <2>1. Start \in Nat /\ header.dtb_size \in Nat /\ header.page \in Nat \ {0}
    BY <1>4, ParseTypes DEF ReadDtb
  <2>2. After(header.dtb_size) \in Nat /\ Start + header.dtb_size <= After(header.dtb_size)
    <3>1. Start + header.dtb_size \in Nat
      BY <2>1
    <3> QED
      BY <2>1, <3>1, AlignUpFacts DEF After
  <2>3. file \in File /\ Start + header.dtb_size <= Len(file)
    <3>1. file \in File /\ After(header.dtb_size) <= Len(file)
      BY <1>4, <2>2 DEF ReadDtb, Has, Typed
    <3>2. Len(file) \in Nat
      BY <3>1, FileFacts, LenProperties
    <3> QED
      BY <2>1, <2>2, <3>1, <3>2
  <2>4. Bytes(Start, header.dtb_size) \in File
    BY <2>1, <2>3, CellsInFile DEF Bytes
  <2>5. img' \in Content
    BY <1>4, <2>4 DEF ReadDtb, Typed, Content
  <2> QED
    BY <1>4, <2>2, <2>5 DEF ReadDtb, Typed, TypeOK, building
<1>5. CASE ReadSingle
  <2>1. img' \in Content
    <3>1. [type |-> "none", data |-> section] \in Fragment
      BY VendorBootAssumption DEF Typed, TypeOK, Fragment
    <3>2. <<[type |-> "none", data |-> section]>> \in Seq(Fragment)
      BY <3>1
    <3> QED
      BY <1>5, <3>2 DEF ReadSingle, Typed, Content
  <2> QED
    BY <1>0, <1>5, <2>1 DEF ReadSingle, Directory, Typed, TypeOK, building
<1>6. CASE ReadEntry
  <2> DEFINE e == file[EntryPos(at) + 1]
             f == [type |-> e.type, data |-> SubSeq(section, e.offset + 1, e.offset + e.size)]
  <2>1. e \in Entry /\ e.offset + e.size <= Len(section)
    BY <1>6 DEF ReadEntry, EntryReadable
  <2>2. f \in Fragment
    BY <2>1, PartInFile DEF Typed, TypeOK, Fragment, Entry
  <2>3. img' = [img EXCEPT !.frags = Append(@, f)] /\ img \in Content
    BY <1>6 DEF ReadEntry, Typed
  <2> HIDE DEF f
  <2>4. img' \in Content
    <3>1. Append(img.frags, f) \in Seq(Fragment)
      BY <2>2, <2>3, AppendProperties DEF Content
    <3> QED
      BY <2>3, <3>1 DEF Content
  <2> QED
    BY <1>6, <2>4 DEF ReadEntry, Typed, TypeOK, parsing, building
<1>7. CASE ReadBootconfig
  <2>1. /\ header.page \in Nat \ {0} /\ header.entry_num \in Nat
        /\ header.entry_size \in Nat /\ header.bootconfig_size \in Nat
        /\ pos \in Nat /\ file \in File
    BY <1>7, ParseTypes DEF ReadBootconfig, Typed, TypeOK
  <2>2. EntryPos(header.entry_num + 1) \in Nat
    <3>1. header.entry_num * header.entry_size \in Nat
      BY <2>1
    <3>2. (header.entry_num + 1) - 1 = header.entry_num
      BY <2>1
    <3> QED
      BY <2>1, <3>1, <3>2 DEF EntryPos
  <2>3. TableEnd \in Nat
    BY <2>1, <2>2, AlignUpFacts DEF TableEnd
  <2>4. TableEnd + header.bootconfig_size <= BootconfigEnd
    <3>1. TableEnd + header.bootconfig_size \in Nat
      BY <2>1, <2>3
    <3>2. TableEnd + header.bootconfig_size
            <= AlignUp(TableEnd + header.bootconfig_size, header.page)
      BY <2>1, <3>1, AlignUpFacts
    <3> QED
      BY <2>1, <2>3, <3>2 DEF BootconfigEnd
  <2>5. TableEnd + header.bootconfig_size <= Len(file)
    <3>1. BootconfigEnd \in Nat
      <4>1. TableEnd + header.bootconfig_size \in Nat
        BY <2>1, <2>3
      <4> QED
        BY <2>1, <2>3, <4>1, AlignUpFacts DEF BootconfigEnd
    <3>2. BootconfigEnd + 0 <= Len(file) /\ Len(file) \in Nat
      BY <1>7, <2>1, FileFacts, LenProperties DEF ReadBootconfig, Has
    <3> QED
      BY <2>1, <2>3, <2>4, <3>1, <3>2
  <2>6. Bytes(TableEnd, header.bootconfig_size) \in File
    BY <2>1, <2>3, <2>5, CellsInFile DEF Bytes
  <2>7. img' \in Content
    BY <1>7, <2>6 DEF ReadBootconfig, Typed, Content
  <2> QED
    BY <1>0, <1>7, <2>7 DEF ReadBootconfig, Directory, Typed, TypeOK, building
<1>8. CASE Reject
  BY <1>0, <1>8 DEF Reject, Typed, TypeOK, building
<1>9. CASE Build
  BY <1>9 DEF Build, Typed, TypeOK, parsing, building
<1>10. CASE User
  <2>1. PICK new \in Content : Edit(new)
    BY <1>10, UserEdits
  <2> QED
    BY <1>0, <2>1 DEF Edit, Typed, TypeOK, parsing, building
<1>11. CASE Concat
  <2>1. img.frags[at].data \in File
    <3>1. img.frags \in Seq(Fragment) /\ at \in 1 .. Len(img.frags)
      BY <1>11, LenProperties DEF Concat, Typed, TypeOK, Content
    <3>2. img.frags[at] \in Fragment
      BY <3>1, ElementOfSeq
    <3> QED
      BY <3>2 DEF Fragment
  <2>2. section' \in File
    BY <1>11, <2>1, FileFacts, ConcatProperties DEF Concat, Typed, TypeOK
  <2> QED
    BY <1>11, <2>2 DEF Concat, Typed, TypeOK, parsing, building
<1>12. CASE PutHeader
  <2> DEFINE n == IF img.version = 4 THEN Len(img.frags) ELSE 0
  <2>1. n \in Nat /\ img \in Content /\ section \in File /\ img.version \in {3, 4}
    BY <1>12, LenProperties DEF PutHeader, Typed, TypeOK, Content
  <2>2. HeaderOf(n) \in Header /\ PageSize \in Nat \ {0}
    BY <2>1, BuildTypes
  <2>3. HeaderLen[img.version] \in Nat \ {0}
    BY <2>1, VendorBootAssumption
  <2>4. <<HeaderOf(n)>> \o Zeros(HeaderLen[img.version] - 1) \in File
    BY <2>2, <2>3, FileFacts, OneCell
  <2>5. w' \in File
    BY <1>12, <2>2, <2>4, PadInFile DEF PutHeader
  <2> QED
    BY <1>12, <2>5 DEF PutHeader, Typed, TypeOK, parsing
<1>13. CASE PutRamdisk
  <2>1. PageSize \in Nat \ {0}
    BY <1>13, BuildTypes DEF PutRamdisk, Typed, TypeOK
  <2>2. w' \in File
    BY <1>13, <2>1, PadInFile DEF PutRamdisk, Typed, TypeOK
  <2> QED
    BY <1>13, <2>2 DEF PutRamdisk, Typed, TypeOK, parsing
<1>14. CASE PutDtb
  <2>1. PageSize \in Nat \ {0} /\ img.dtb \in File
    BY <1>14, BuildTypes DEF PutDtb, Typed, TypeOK, Content
  <2>2. w' \in File
    BY <1>14, <2>1, PadInFile DEF PutDtb, Typed, TypeOK
  <2> QED
    BY <1>14, <2>2 DEF PutDtb, Typed, TypeOK, parsing
<1>15. CASE PutEntry
  <2> DEFINE f == img.frags[at]
             e == [size |-> Len(f.data), offset |-> running, type |-> Named(f.type)]
  <2>1. f \in Fragment
    <3>1. img.frags \in Seq(Fragment) /\ at \in 1 .. Len(img.frags)
      BY <1>15, LenProperties DEF PutEntry, Typed, TypeOK, Content
    <3> QED
      BY <3>1, ElementOfSeq
  <2>2. Len(f.data) \in Nat /\ Named(f.type) \in Type /\ running \in Nat
    BY <1>15, <2>1, BuildTypes, FileFacts, LenProperties DEF PutEntry, Typed, TypeOK, Fragment
  <2>3. e \in Cell
    BY <2>2, FileFacts DEF Entry
  <2>4. EntryLen \in Nat \ {0}
    BY VendorBootAssumption
  <2>5. w \in Seq(Cell) /\ <<e>> \in Seq(Cell) /\ Zeros(EntryLen - 1) \in Seq(Cell)
    BY <2>3, <2>4, FileFacts, ZerosFacts DEF Typed, TypeOK
  <2>6. w' = w \o <<e>> \o Zeros(EntryLen - 1) /\ running' = running + Len(f.data)
    BY <1>15 DEF PutEntry
  <2> HIDE DEF e
  <2>7. w' \in File
    BY <2>5, <2>6, FileFacts, ThreeParts
  <2>8. running' \in Nat
    BY <2>2, <2>6
  <2> QED
    BY <1>15, <2>7, <2>8 DEF PutEntry, Typed, TypeOK, parsing
<1>16. CASE PutBootconfig
  <2>1. PageSize \in Nat \ {0} /\ img.bootconfig \in File /\ w \in File
    BY <1>16, BuildTypes DEF PutBootconfig, Typed, TypeOK, Content
  <2>2. Padded(w, PageSize) \in File
    BY <2>1, PadInFile
  <2>3. w' \in File
    BY <1>16, <2>1, <2>2, PadInFile DEF PutBootconfig
  <2> QED
    BY <1>16, <2>3 DEF PutBootconfig, Typed, TypeOK, parsing
<1>17. CASE Take
  BY <1>0, <1>17 DEF Take, Typed, TypeOK, parsing
<1>18. CASE UNCHANGED vars
  BY <1>18 DEF vars, parsing, building, Typed, TypeOK, Content, Fragment
<1> QED
  BY <1>1, <1>2, <1>3, <1>4, <1>5, <1>6, <1>7, <1>8, <1>9, <1>10, <1>11, <1>12, <1>13,
     <1>14, <1>15, <1>16, <1>17, <1>18 DEF Next, Running, Parsing, Putting

LEMMA TypedInvariant == Spec => []Typed
<1>1. Init => Typed
  BY FileFacts DEF Init, Typed, TypeOK, AfterHead, Editing
<1>2. Typed /\ [Next]_vars => Typed'
  BY TypedStep
<1> QED
  BY <1>1, <1>2, PTL DEF Spec

\* Every variable keeps its type: what parse reads and build writes are cells,
\* whatever the image is, and there is an output exactly after a build.
THEOREM TypeCorrect == Spec => []TypeOK
<1>1. Typed => TypeOK
  BY DEF Typed
<1> QED
  BY <1>1, TypedInvariant, PTL

-----------------------------------------------------------------------------
(* The layout of an image that build makes                                  *)

\* Where its parts begin, for the numbers of its header.
RamdiskAt(h)    == AlignUp(HeaderLen[h.version], h.page)
DtbAt(h)        == AlignUp(RamdiskAt(h) + h.ramdisk_size, h.page)
TableAt(h)      == AlignUp(DtbAt(h) + h.dtb_size, h.page)
Entries(n)      == n * EntryLen
EntryAt(h, n)   == TableAt(h) + Entries(n - 1)
BootconfigAt(h) == AlignUp(TableAt(h) + Entries(h.entry_num), h.page)
EndAt(h)        == AlignUp(BootconfigAt(h) + h.bootconfig_size, h.page)

\* What is in the header for content c with a ramdisk section of n cells, and in
\* the entry of fragment n, which lies in the section from from[n] on.
HeaderFor(c, n) ==
  [version |-> c.version, page |-> IF c.page = 0 THEN DefaultPage ELSE c.page,
   ramdisk_size |-> n, dtb_size |-> Len(c.dtb),
   entry_num |-> IF c.version = 4 THEN Len(c.frags) ELSE 0,
   entry_size |-> IF c.version = 4 THEN EntryLen ELSE 0,
   bootconfig_size |-> IF c.version = 4 THEN Len(c.bootconfig) ELSE 0]
EntryFor(c, from, n) ==
  [size |-> Len(c.frags[n].data), offset |-> from[n], type |-> Named(c.frags[n].type)]

\* s is the data of the first k fragments, number n from from[n] on.
LaidOut(s, frags, k, from) ==
  /\ from \in [1 .. k + 1 -> 0 .. Len(s)]
  /\ from[1] = 0 /\ from[k + 1] = Len(s)
  /\ \A n \in 1 .. k :
       /\ from[n + 1] = from[n] + Len(frags[n].data)
       /\ SubSeq(s, from[n] + 1, from[n + 1]) = frags[n].data

\* The table holds the entries of the first k fragments.
Tabled(f, c, h, from, k) ==
  \A n \in 1 .. k : Kept(f, EntryAt(h, n), <<EntryFor(c, from, n)>>)

\* f is an image of content c, its ramdisk section s.
ImageOf(f, c, s, from) ==
  LET h == HeaderFor(c, Len(s))
  IN  /\ c \in Content /\ c.version \in {3, 4}
      /\ LaidOut(s, c.frags, Len(c.frags), from)
      /\ f \in File /\ Len(f) = EndAt(h)
      /\ Kept(f, 0, <<h>>) /\ Kept(f, RamdiskAt(h), s) /\ Kept(f, DtbAt(h), c.dtb)
      /\ c.version = 4 =>
           /\ Tabled(f, c, h, from, Len(c.frags))
           /\ Kept(f, BootconfigAt(h), c.bootconfig)

Ramdisk(f) == Cells(f, RamdiskAt(f[1]), f[1].ramdisk_size)

Image(f, c) ==
  \E from \in [1 .. Len(c.frags) + 1 -> 0 .. f[1].ramdisk_size] :
    ImageOf(f, c, Ramdisk(f), from)

-----------------------------------------------------------------------------
(* The invariant                                                            *)

\* What parse finds in any image: where the table ends, and fragment n.
TableEndIn(h) == AlignUp(TableAt(h) + h.entry_num * h.entry_size, h.page)
EntryIn(f, n) == f[TableAt(f[1]) + (n - 1) * f[1].entry_size + 1]
FragmentIn(f, n) ==
  LET e == EntryIn(f, n)
  IN  [type |-> e.type, data |-> SubSeq(Ramdisk(f), e.offset + 1, e.offset + e.size)]
WithTable(h) == h.version = 4 /\ h.entry_num > 0

Opened(f) ==
  /\ f \in File /\ f[1] \in Header /\ f[1].version \in {3, 4} /\ f[1].page > 0

\* c is what parse makes of f.
ReadFrom(f, c) ==
  /\ Opened(f)
  /\ c.version = f[1].version /\ c.page = f[1].page
  /\ c.dtb = Cells(f, DtbAt(f[1]), f[1].dtb_size)
  /\ IF WithTable(f[1])
       THEN /\ Len(c.frags) = f[1].entry_num
            /\ \A n \in 1 .. f[1].entry_num :
                 EntryIn(f, n) \in Entry /\ c.frags[n] = FragmentIn(f, n)
            /\ c.bootconfig = Cells(f, TableEndIn(f[1]), f[1].bootconfig_size)
       ELSE /\ c.frags = <<[type |-> "none", data |-> Ramdisk(f)]>>
            /\ c.bootconfig = <<>>

\* The next fragment and running_offset are at their beginning where they are
\* not in use.
Fresh ==
  /\ stage \notin {"table", "concat", "put_table", "take"} => at = 1
  /\ stage \in {"idle", "edit", "header", "ramdisk"} => section = <<>>
  /\ stage \notin {"put_table", "take"} => running = 0

\* How far parse is: its cursor and what it has read are where build, in
\* whatever image it made, has put them.
ParseInv ==
  /\ stage \in AfterHead =>
       /\ Opened(file) /\ header = file[1]
       /\ img.version = header.version /\ img.page = header.page
       /\ img.bootconfig = <<>>
  /\ stage = "ramdisk" => pos = HeaderLen[header.version]
  /\ stage = "dtb" => pos = RamdiskAt(header) + header.ramdisk_size
  /\ stage \in {"dtb", "single", "table"} => section = Ramdisk(file)
  /\ stage \in {"single", "table"} =>
       /\ pos = TableAt(header) /\ img.dtb = Cells(file, DtbAt(header), header.dtb_size)
  /\ stage = "single" => ~WithTable(header)
  /\ stage \in {"ramdisk", "dtb"} => img.frags = <<>>
  /\ stage = "table" =>
       /\ WithTable(header)
       /\ at <= header.entry_num + 1 /\ Len(img.frags) = at - 1
       /\ \A n \in 1 .. at - 1 :
            EntryIn(file, n) \in Entry /\ img.frags[n] = FragmentIn(file, n)

\* What build has written, with the header it has put in front.
Put(h, from) ==
  /\ LaidOut(section, img.frags, Len(img.frags), from)
  /\ Kept(w, 0, <<h>>)
  /\ stage = "put_ramdisk" => Len(w) = RamdiskAt(h)
  /\ stage = "put_dtb" => Len(w) = DtbAt(h) /\ Kept(w, RamdiskAt(h), section)
  /\ stage = "put_table" =>
       /\ img.version = 4 /\ at <= Len(img.frags) + 1
       /\ Kept(w, RamdiskAt(h), section) /\ Kept(w, DtbAt(h), img.dtb)
       /\ Len(w) = EntryAt(h, at) /\ running = from[at]
       /\ Tabled(w, img, h, from, at - 1)
  /\ stage = "take" => ImageOf(w, img, section, from)

BuildInv ==
  /\ stage = "concat" =>
       /\ at <= Len(img.frags) + 1
       /\ \E from \in [1 .. at -> 0 .. Len(section)] :
            LaidOut(section, img.frags, at - 1, from)
  /\ stage \in {"put_ramdisk", "put_dtb", "put_table", "take"} =>
       \E from \in [1 .. Len(img.frags) + 1 -> 0 .. Len(section)] :
         Put(HeaderFor(img, Len(section)), from)

\* An image built lies on the disk as Image says, the one just built and the one
\* unpacked; what was unpacked was read from it; and it was not refused.
RoundInv ==
  /\ result = "image" => Image(out, img)
  /\ origin # Null => file \in File /\ Image(file, origin)
  /\ stage \in Editing /\ file # Null => ReadFrom(file, img)
  /\ stage = "idle" /\ result = "error" => origin = Null

IInv == Typed /\ Fresh /\ ParseInv /\ BuildInv /\ RoundInv

-----------------------------------------------------------------------------
(* Places                                                                   *)

LEMMA EntriesFacts ==
  /\ Entries(0) = 0
  /\ \A n \in Nat : /\ Entries(n) \in Nat
                     /\ Entries(n + 1) = Entries(n) + EntryLen
  /\ \A n \in Nat, m \in Nat : n <= m => Entries(n) <= Entries(m)
<1>1. EntryLen \in Nat
  BY VendorBootAssumption
<1>2. ASSUME NEW n \in Nat
      PROVE  n * EntryLen \in Nat /\ (n + 1) * EntryLen = n * EntryLen + EntryLen
  BY <1>1, SMT
<1>3. ASSUME NEW n \in Nat, NEW m \in Nat, n <= m
      PROVE  n * EntryLen <= m * EntryLen
  <2>1. PICK k \in Nat : m = n + k
    BY <1>3, SMT
  <2>2. m * EntryLen = n * EntryLen + k * EntryLen /\ k * EntryLen \in Nat
    BY <1>1, <2>1, SMT
  <2> QED
    BY <1>2, <2>2
<1>4. 0 * EntryLen = 0
  BY <1>1
<1> QED
  BY <1>2, <1>3, <1>4 DEF Entries

\* The parts lie one after the other, each on a page of its own.
LEMMA Places ==
  ASSUME NEW h \in Header, h.version \in {3, 4}, h.page > 0
  PROVE  /\ h.page \in Nat \ {0} /\ h.ramdisk_size \in Nat /\ h.dtb_size \in Nat
         /\ h.entry_num \in Nat /\ h.entry_size \in Nat /\ h.bootconfig_size \in Nat
         /\ HeaderLen[h.version] \in Nat \ {0}
         /\ RamdiskAt(h) \in Nat /\ DtbAt(h) \in Nat /\ TableAt(h) \in Nat
         /\ BootconfigAt(h) \in Nat /\ EndAt(h) \in Nat
         /\ Entries(h.entry_num) \in Nat
         /\ HeaderLen[h.version] <= RamdiskAt(h)
         /\ RamdiskAt(h) + h.ramdisk_size <= DtbAt(h)
         /\ DtbAt(h) + h.dtb_size <= TableAt(h)
         /\ TableAt(h) + Entries(h.entry_num) <= BootconfigAt(h)
         /\ BootconfigAt(h) + h.bootconfig_size <= EndAt(h)
<1>1. /\ h.page \in Nat \ {0} /\ h.ramdisk_size \in Nat /\ h.dtb_size \in Nat
      /\ h.entry_num \in Nat /\ h.entry_size \in Nat /\ h.bootconfig_size \in Nat
  BY DEF Header
<1>2. HeaderLen[h.version] \in Nat \ {0} /\ Entries(h.entry_num) \in Nat
  BY <1>1, EntriesFacts, VendorBootAssumption
<1>3. ASSUME NEW n \in Nat PROVE AlignUp(n, h.page) \in Nat /\ n <= AlignUp(n, h.page)
  BY <1>1, AlignUpFacts
<1>4. RamdiskAt(h) \in Nat /\ HeaderLen[h.version] <= RamdiskAt(h)
  BY <1>2, <1>3 DEF RamdiskAt
<1>5. RamdiskAt(h) + h.ramdisk_size \in Nat
  BY <1>1, <1>4
<1>6. DtbAt(h) \in Nat /\ RamdiskAt(h) + h.ramdisk_size <= DtbAt(h)
  BY <1>3, <1>5 DEF DtbAt
<1>7. DtbAt(h) + h.dtb_size \in Nat
  BY <1>1, <1>6
<1>8. TableAt(h) \in Nat /\ DtbAt(h) + h.dtb_size <= TableAt(h)
  BY <1>3, <1>7 DEF TableAt
<1>9. TableAt(h) + Entries(h.entry_num) \in Nat
  BY <1>2, <1>8
<1>10. BootconfigAt(h) \in Nat /\ TableAt(h) + Entries(h.entry_num) <= BootconfigAt(h)
  BY <1>3, <1>9 DEF BootconfigAt
<1>11. BootconfigAt(h) + h.bootconfig_size \in Nat
  BY <1>1, <1>10
<1>12. EndAt(h) \in Nat /\ BootconfigAt(h) + h.bootconfig_size <= EndAt(h)
  BY <1>3, <1>11 DEF EndAt
<1> QED
  BY <1>1, <1>2, <1>4, <1>6, <1>8, <1>10, <1>12

\* Without a table and without a bootconfig the dtb is the last part.
LEMMA NothingBehind ==
  ASSUME NEW h \in Header, h.version \in {3, 4}, h.page > 0
  PROVE  /\ h.entry_num = 0 => BootconfigAt(h) = TableAt(h)
         /\ h.bootconfig_size = 0 => EndAt(h) = BootconfigAt(h)
<1>1. /\ h.page \in Nat \ {0} /\ DtbAt(h) + h.dtb_size \in Nat /\ TableAt(h) \in Nat
      /\ TableAt(h) + Entries(h.entry_num) \in Nat /\ BootconfigAt(h) \in Nat
  BY Places
<1>2. AlignUp(TableAt(h), h.page) = TableAt(h)
  BY <1>1, AlignUpTwice DEF TableAt
<1>3. AlignUp(BootconfigAt(h), h.page) = BootconfigAt(h)
  BY <1>1, AlignUpTwice DEF BootconfigAt
<1>4. ASSUME h.entry_num = 0 PROVE BootconfigAt(h) = TableAt(h)
  <2>1. TableAt(h) + Entries(h.entry_num) = TableAt(h)
    BY <1>1, <1>4, EntriesFacts
  <2> QED
    BY <1>2, <2>1 DEF BootconfigAt
<1>5. ASSUME h.bootconfig_size = 0 PROVE EndAt(h) = BootconfigAt(h)
  <2>1. BootconfigAt(h) + h.bootconfig_size = BootconfigAt(h)
    BY <1>1, <1>5
  <2> QED
    BY <1>3, <2>1 DEF EndAt
<1> QED
  BY <1>4, <1>5

LEMMA EntryPlaces ==
  ASSUME NEW h \in Header, h.version \in {3, 4}, h.page > 0
  PROVE  /\ EntryAt(h, 1) = TableAt(h)
         /\ \A n \in Nat \ {0} :
              /\ EntryAt(h, n) \in Nat
              /\ EntryAt(h, n + 1) = EntryAt(h, n) + EntryLen
              /\ n <= h.entry_num => EntryAt(h, n) + EntryLen <= BootconfigAt(h)
         /\ EntryAt(h, h.entry_num + 1) = TableAt(h) + Entries(h.entry_num)
<1>1. /\ TableAt(h) \in Nat /\ h.entry_num \in Nat /\ EntryLen \in Nat
      /\ TableAt(h) + Entries(h.entry_num) <= BootconfigAt(h) /\ BootconfigAt(h) \in Nat
  BY Places, VendorBootAssumption
<1>2. EntryAt(h, 1) = TableAt(h)
  <2>1. 1 - 1 = 0
    OBVIOUS
  <2> QED
    BY <1>1, <2>1, EntriesFacts DEF EntryAt
<1>3. ASSUME NEW n \in Nat \ {0}
      PROVE  /\ EntryAt(h, n) \in Nat
             /\ EntryAt(h, n + 1) = EntryAt(h, n) + EntryLen
             /\ n <= h.entry_num => EntryAt(h, n) + EntryLen <= BootconfigAt(h)
  <2>1. n - 1 \in Nat /\ (n - 1) + 1 = n /\ (n + 1) - 1 = n /\ n \in Nat
    OBVIOUS
  <2>2. /\ Entries(n - 1) \in Nat /\ Entries(n) = Entries(n - 1) + EntryLen
        /\ n <= h.entry_num => Entries(n) <= Entries(h.entry_num)
    BY <1>1, <2>1, EntriesFacts
  <2>3. EntryAt(h, n) = TableAt(h) + Entries(n - 1) /\ EntryAt(h, n + 1) = TableAt(h) + Entries(n)
    BY <2>1 DEF EntryAt
  <2>4. Entries(h.entry_num) \in Nat
    BY <1>1, EntriesFacts
  <2> QED
    BY <1>1, <2>2, <2>3, <2>4
<1>4. EntryAt(h, h.entry_num + 1) = TableAt(h) + Entries(h.entry_num)
  <2>1. (h.entry_num + 1) - 1 = h.entry_num
    BY <1>1
  <2> QED
    BY <2>1 DEF EntryAt
<1> QED
  BY <1>2, <1>3, <1>4

-----------------------------------------------------------------------------
(* The ramdisk section                                                      *)

LEMMA LaidOutNone ==
  ASSUME NEW frags
  PROVE  \E from \in [1 .. 1 -> 0 .. Len(<<>>)] : LaidOut(<<>>, frags, 0, from)
<1> DEFINE from == [i \in 1 .. 1 |-> 0]
<1>1. from \in [1 .. 1 -> 0 .. Len(<<>>)] /\ from[1] = 0 /\ Len(<<>>) = 0 /\ 0 + 1 = 1
  OBVIOUS
<1>2. LaidOut(<<>>, frags, 0, from)
  BY <1>1 DEF LaidOut
<1> QED
  BY <1>1, <1>2

\* One more fragment behind the others.
LEMMA LaidOutNext ==
  ASSUME NEW s \in File, NEW frags \in Seq(Fragment), NEW k \in Nat, k < Len(frags),
         NEW from, LaidOut(s, frags, k, from)
  PROVE  \E to \in [1 .. (k + 1) + 1 -> 0 .. Len(s \o frags[k + 1].data)] :
           LaidOut(s \o frags[k + 1].data, frags, k + 1, to)
<1> DEFINE d == frags[k + 1].data
           t == s \o d
           to == [i \in 1 .. (k + 1) + 1 |-> IF i <= k + 1 THEN from[i] ELSE Len(t)]
<1>1. d \in File
  <2>1. k + 1 \in 1 .. Len(frags)
    BY LenProperties
  <2>2. frags[k + 1] \in Fragment
    BY <2>1, ElementOfSeq
  <2> QED
    BY <2>2 DEF Fragment
<1>2. /\ t \in Seq(Cell) /\ Len(t) = Len(s) + Len(d) /\ Len(s) \in Nat /\ Len(d) \in Nat
      /\ \A i \in 1 .. Len(s) + Len(d) : t[i] = IF i <= Len(s) THEN s[i] ELSE d[i - Len(s)]
  BY <1>1, FileFacts, ConcatProperties, LenProperties
<1> HIDE DEF d, t
<1>3. /\ from \in [1 .. k + 1 -> 0 .. Len(s)] /\ from[1] = 0 /\ from[k + 1] = Len(s)
      /\ \A n \in 1 .. k :
           /\ from[n + 1] = from[n] + Len(frags[n].data)
           /\ SubSeq(s, from[n] + 1, from[n + 1]) = frags[n].data
  BY DEF LaidOut
<1>4. to \in [1 .. (k + 1) + 1 -> 0 .. Len(t)]
  BY <1>2, <1>3
<1>5. to[1] = 0 /\ to[(k + 1) + 1] = Len(t)
  BY <1>3
<1>6. \A n \in 1 .. k + 1 : to[n] = from[n] /\ from[n] \in 0 .. Len(s)
  BY <1>3
<1>a. to[k + 2] = Len(t)
  BY <1>5
<1> HIDE DEF to
<1>7. ASSUME NEW n \in 1 .. k + 1
      PROVE  /\ to[n + 1] = to[n] + Len(frags[n].data)
             /\ SubSeq(t, to[n] + 1, to[n + 1]) = frags[n].data
  <2>1. CASE n \in 1 .. k
    <3>0. n + 1 \in 1 .. k + 1
      BY <2>1
    <3>1. /\ to[n] = from[n] /\ to[n + 1] = from[n + 1]
          /\ from[n] \in 0 .. Len(s) /\ from[n + 1] \in 0 .. Len(s)
          /\ from[n + 1] = from[n] + Len(frags[n].data)
      BY <1>3, <1>6, <2>1, <3>0
    <3>2. Len(frags[n].data) \in Nat
      <4>1. n \in 1 .. Len(frags)
        BY <2>1, LenProperties
      <4>2. frags[n] \in Fragment
        BY <4>1, ElementOfSeq
      <4> QED
        BY <4>2, FileFacts, LenProperties DEF Fragment
    <3> DEFINE a == from[n]
               b == Len(frags[n].data)
    <3>3. a \in Nat /\ b \in Nat /\ a + b <= Len(s)
      BY <1>2, <3>1, <3>2
    <3>4. SubSeq(s, from[n] + 1, from[n + 1]) = Cells(s, a, b)
      BY <3>1 DEF Cells
    <3>5. SubSeq(t, to[n] + 1, to[n + 1]) = Cells(t, a, b)
      BY <3>1 DEF Cells
    <3> HIDE DEF a, b
    <3>6. Same(t, a, s, a, b)
      <4> SUFFICES ASSUME NEW i \in 1 .. b PROVE t[a + i] = s[a + i]
        BY DEF Same
      <4>1. a + i \in 1 .. Len(s) + Len(d) /\ a + i <= Len(s)
        BY <1>2, <3>3
      <4> QED
        BY <1>2, <4>1
    <3>7. Cells(t, a, b) = Cells(s, a, b)
      BY <3>3, <3>6, CellsEqual
    <3> QED
      BY <1>3, <2>1, <3>1, <3>4, <3>5, <3>7
  <2>2. CASE n = k + 1
    <3>1. to[n] = Len(s) /\ to[n + 1] = Len(t) /\ frags[n].data = d
      BY <1>3, <1>6, <1>a, <2>2 DEF d
    <3>2. \A i \in 1 .. Len(d) : t[Len(s) + i] = d[i]
      <4> TAKE i \in 1 .. Len(d)
      <4>1. Len(s) + i \in 1 .. Len(s) + Len(d) /\ ~(Len(s) + i <= Len(s))
            /\ (Len(s) + i) - Len(s) = i
        BY <1>2
      <4> QED
        BY <1>2, <4>1
    <3>3. Cells(t, Len(s), Len(d)) = d
      BY <1>1, <1>2, <3>2, FileFacts, CellsFound
    <3>4. SubSeq(t, to[n] + 1, to[n + 1]) = Cells(t, Len(s), Len(d))
      BY <1>2, <3>1 DEF Cells
    <3> QED
      BY <1>2, <3>1, <3>3, <3>4
  <2> QED
    BY <2>1, <2>2
<1>8. LaidOut(t, frags, k + 1, to)
  BY <1>4, <1>5, <1>7 DEF LaidOut
<1> QED
  BY <1>4, <1>8 DEF d, t

\* What LaidOut says is what Tiles asks for.
LEMMA LaidOutTiles ==
  ASSUME NEW s, NEW frags, NEW from, LaidOut(s, frags, Len(frags), from)
  PROVE  Tiles(s, frags)
  BY DEF LaidOut, Tiles

-----------------------------------------------------------------------------
(* Build                                                                    *)

LEMMA FreshStep ==
  ASSUME Typed, Fresh, [Next]_vars
  PROVE  Fresh'
<1>1. CASE Parsing
  BY <1>1 DEF Fresh, Parsing, ReadHeader, ReadRamdisk, ReadDtb, ReadSingle, ReadEntry,
              ReadBootconfig, Reject, Directory, parsing, building
<1>2. CASE Putting
  BY <1>2 DEF Fresh, Putting, Concat, PutHeader, PutRamdisk, PutDtb, PutEntry,
              PutBootconfig, Take, parsing, building
<1>3. CASE Build
  BY <1>3 DEF Fresh, Build, parsing, building
<1>4. CASE User
  <2>1. PICK new \in Content : Edit(new)
    BY <1>4, UserEdits
  <2> QED
    BY <2>1 DEF Fresh, Edit, parsing, building
<1>5. ASSUME NEW f, Unpack(f) PROVE Fresh'
  BY <1>5 DEF Fresh, Unpack, parsing, building
<1>6. CASE UNCHANGED vars
  BY <1>6 DEF Fresh, vars, parsing, building
<1> QED
  BY <1>1, <1>2, <1>3, <1>4, <1>5, <1>6 DEF Next, Running

LEMMA HeaderForFacts ==
  ASSUME NEW c \in Content, c.version \in {3, 4}, NEW n \in Nat
  PROVE  LET h == HeaderFor(c, n)
         IN  /\ h \in Header /\ h.version = c.version /\ h.page \in Nat \ {0}
             /\ h.page = (IF c.page = 0 THEN DefaultPage ELSE c.page)
             /\ h.ramdisk_size = n /\ h.dtb_size = Len(c.dtb)
             /\ h.entry_num = (IF c.version = 4 THEN Len(c.frags) ELSE 0)
             /\ h.entry_size = (IF c.version = 4 THEN EntryLen ELSE 0)
             /\ h.bootconfig_size = (IF c.version = 4 THEN Len(c.bootconfig) ELSE 0)
<1>1. /\ c.version \in Nat /\ c.page \in Nat /\ c.dtb \in File /\ c.bootconfig \in File
      /\ c.frags \in Seq(Fragment)
  BY DEF Content
<1>2. DefaultPage \in Nat \ {0} /\ EntryLen \in Nat
  BY VendorBootAssumption
<1>3. Len(c.dtb) \in Nat /\ Len(c.bootconfig) \in Nat /\ Len(c.frags) \in Nat
  BY <1>1, FileFacts, LenProperties
<1> DEFINE page == IF c.page = 0 THEN DefaultPage ELSE c.page
           num == IF c.version = 4 THEN Len(c.frags) ELSE 0
           size == IF c.version = 4 THEN EntryLen ELSE 0
           bootconfig == IF c.version = 4 THEN Len(c.bootconfig) ELSE 0
<1>4. page \in Nat \ {0} /\ num \in Nat /\ size \in Nat /\ bootconfig \in Nat
  BY <1>1, <1>2, <1>3
<1>5. HeaderFor(c, n) = [version |-> c.version, page |-> page, ramdisk_size |-> n,
        dtb_size |-> Len(c.dtb), entry_num |-> num, entry_size |-> size,
        bootconfig_size |-> bootconfig]
  BY DEF HeaderFor
<1> HIDE DEF page, num, size, bootconfig
<1>6. HeaderFor(c, n) \in Header
  BY <1>1, <1>3, <1>4, <1>5 DEF Header
<1> QED
  BY <1>4, <1>5, <1>6 DEF page, num, size, bootconfig

\* A part put behind what is written, and its page filled.
LEMMA PutPart ==
  ASSUME NEW v \in File, NEW t \in File, NEW p \in Nat \ {0}
  PROVE  /\ Padded(v \o t, p) \in File
         /\ Len(Padded(v \o t, p)) = AlignUp(Len(v) + Len(t), p)
         /\ Kept(Padded(v \o t, p), 0, v) /\ Kept(Padded(v \o t, p), Len(v), t)
         /\ Len(v) \in Nat /\ Len(t) \in Nat /\ Len(Padded(v \o t, p)) \in Nat
<1>1. /\ Padded(v \o t, p) \in Seq(Cell)
      /\ Len(Padded(v \o t, p)) = AlignUp(Len(v) + Len(t), p)
      /\ Len(v) + Len(t) <= Len(Padded(v \o t, p))
      /\ Holds(Padded(v \o t, p), 0, v)
      /\ Holds(Padded(v \o t, p), Len(v), t)
  BY FileFacts, PutFacts
<1>2. Len(v) \in Nat /\ Len(t) \in Nat /\ Len(Padded(v \o t, p)) \in Nat
  BY <1>1, FileFacts, LenProperties
<1> QED
  BY <1>1, <1>2, FileFacts DEF Kept

\* align() on its own.
LEMMA PadPart ==
  ASSUME NEW v \in File, NEW p \in Nat \ {0}
  PROVE  /\ Padded(v, p) \in File
         /\ Len(Padded(v, p)) = AlignUp(Len(v), p)
         /\ Kept(Padded(v, p), 0, v)
         /\ Len(v) \in Nat /\ Len(Padded(v, p)) \in Nat
<1>1. /\ Padded(v, p) \in Seq(Cell) /\ Len(Padded(v, p)) = AlignUp(Len(v), p)
      /\ \A i \in 1 .. Len(v) : Padded(v, p)[i] = v[i]
  BY FileFacts, PaddedFacts
<1>2. Len(v) \in Nat /\ Len(Padded(v, p)) \in Nat
  BY <1>1, FileFacts, LenProperties
<1>3. Len(v) <= AlignUp(Len(v), p)
  BY <1>2, AlignUpFacts
<1>4. \A i \in 1 .. Len(v) : 0 + i = i
  BY <1>2
<1>5. Holds(Padded(v, p), 0, v)
  BY <1>1, <1>4 DEF Holds
<1> QED
  BY <1>1, <1>2, <1>3, <1>5, FileFacts DEF Kept

\* The entries written stay, too.
LEMMA TabledOn ==
  ASSUME NEW v \in File, NEW f \in File, Kept(f, 0, v),
         NEW c \in Content, NEW h \in Header, h.version \in {3, 4}, h.page > 0,
         NEW from, NEW k \in Nat, Tabled(v, c, h, from, k)
  PROVE  Tabled(f, c, h, from, k)
<1> SUFFICES ASSUME NEW n \in 1 .. k
             PROVE  Kept(f, EntryAt(h, n), <<EntryFor(c, from, n)>>)
  BY DEF Tabled
<1>1. EntryAt(h, n) \in Nat
  BY EntryPlaces
<1>2. Len(v) \in Nat /\ Len(f) \in Nat
  BY FileFacts, LenProperties
<1>3. Len(<<EntryFor(c, from, n)>>) = 1
  OBVIOUS
<1>4. Kept(v, EntryAt(h, n), <<EntryFor(c, from, n)>>)
  BY DEF Tabled
<1> HIDE DEF EntryFor
<1> QED
  BY <1>1, <1>2, <1>3, <1>4, KeptOn

\* The header in front is the one the layout is told by.
LEMMA BuildHeader ==
  ASSUME Typed, stage \in Editing \ {"edit"}
  PROVE  LET h == HeaderFor(img, Len(section))
         IN  /\ h \in Header /\ h.version \in {3, 4} /\ h.page > 0
             /\ h.version = img.version /\ h.page = PageSize
             /\ h.ramdisk_size = Len(section) /\ h.dtb_size = Len(img.dtb)
             /\ h.entry_num = (IF img.version = 4 THEN Len(img.frags) ELSE 0)
             /\ h.bootconfig_size = (IF img.version = 4 THEN Len(img.bootconfig) ELSE 0)
             /\ HeaderOf(IF img.version = 4 THEN Len(img.frags) ELSE 0) = h
             /\ PageSize \in Nat \ {0}
             /\ img \in Content /\ img.version \in {3, 4}
             /\ section \in File /\ Len(section) \in Nat /\ w \in File
<1>1. img \in Content /\ img.version \in {3, 4} /\ section \in File /\ w \in File
  BY DEF Typed, TypeOK, Editing
<1>2. Len(section) \in Nat
  BY <1>1, FileFacts, LenProperties
<1> DEFINE h == HeaderFor(img, Len(section))
<1>3. HeaderOf(IF img.version = 4 THEN Len(img.frags) ELSE 0) = h
  BY DEF HeaderOf, HeaderFor, PageSize
<1>4. /\ h \in Header /\ h.version = img.version /\ h.page \in Nat \ {0}
      /\ h.page = (IF img.page = 0 THEN DefaultPage ELSE img.page)
      /\ h.ramdisk_size = Len(section) /\ h.dtb_size = Len(img.dtb)
      /\ h.entry_num = (IF img.version = 4 THEN Len(img.frags) ELSE 0)
      /\ h.bootconfig_size = (IF img.version = 4 THEN Len(img.bootconfig) ELSE 0)
  BY <1>1, <1>2, HeaderForFacts
<1> HIDE DEF h
<1>5. h.page = PageSize
  BY <1>4 DEF PageSize
<1> QED
  BY <1>1, <1>2, <1>3, <1>4, <1>5 DEF h

LEMMA ConcatBuilds ==
  ASSUME Typed, BuildInv, Concat
  PROVE  BuildInv'
<1> DEFINE k == at - 1
           d == img.frags[at].data
<1>1. /\ stage = "concat" /\ at <= Len(img.frags) /\ section' = section \o d
      /\ at' = at + 1 /\ img' = img /\ stage' = "concat"
  BY DEF Concat
<1>2. k \in Nat /\ at \in Nat /\ k + 1 = at /\ k < Len(img.frags)
      /\ img.frags \in Seq(Fragment) /\ section \in File /\ at' - 1 = k + 1 /\ at' = (k + 1) + 1
      /\ at' <= Len(img.frags) + 1
  BY <1>1, LenProperties DEF Typed, TypeOK, Editing, Content
<1>3. PICK from \in [1 .. at -> 0 .. Len(section)] : LaidOut(section, img.frags, k, from)
  BY <1>1 DEF BuildInv
<1> HIDE DEF k
<1>4. PICK to \in [1 .. (k + 1) + 1 -> 0 .. Len(section \o img.frags[k + 1].data)] :
        LaidOut(section \o img.frags[k + 1].data, img.frags, k + 1, to)
  BY <1>2, <1>3, LaidOutNext
<1>5. LaidOut(section', img.frags, at' - 1, to) /\ to \in [1 .. at' -> 0 .. Len(section')]
  BY <1>1, <1>2, <1>4
<1> QED
  BY <1>1, <1>2, <1>5 DEF BuildInv

LEMMA PutHeaderBuilds ==
  ASSUME Typed, BuildInv, PutHeader
  PROVE  BuildInv'
<1>0. PICK h : h = HeaderFor(img, Len(section))
  OBVIOUS
<1> DEFINE v == <<h>> \o Zeros(HeaderLen[img.version] - 1)
<1>1. /\ stage = "concat" /\ at > Len(img.frags) /\ stage' = "put_ramdisk"
      /\ img' = img /\ section' = section
      /\ w' = Padded(<<HeaderOf(IF img.version = 4 THEN Len(img.frags) ELSE 0)>>
                       \o Zeros(HeaderLen[img.version] - 1), PageSize)
  BY DEF PutHeader
<1>2. /\ h \in Header /\ h.version \in {3, 4} /\ h.page > 0
      /\ h.version = img.version /\ h.page = PageSize /\ PageSize \in Nat \ {0}
      /\ HeaderOf(IF img.version = 4 THEN Len(img.frags) ELSE 0) = h
  BY <1>0, <1>1, BuildHeader DEF Editing
<1>3. w' = Padded(v, PageSize)
  BY <1>1, <1>2
<1>4. PICK from \in [1 .. at -> 0 .. Len(section)] : LaidOut(section, img.frags, at - 1, from)
  BY <1>1 DEF BuildInv
<1>5. at - 1 = Len(img.frags) /\ at = Len(img.frags) + 1
  <2>1. at <= Len(img.frags) + 1 /\ at \in Nat /\ Len(img.frags) \in Nat
    BY <1>1, LenProperties DEF BuildInv, Typed, TypeOK, Editing, Content
  <2> QED
    BY <1>1, <2>1
<1>6. HeaderLen[img.version] \in Nat \ {0}
  BY <1>2, VendorBootAssumption
<1>7. v \in File /\ Len(v) = HeaderLen[img.version] /\ v[1] = h
  <2>1. h \in Cell
    BY <1>2, FileFacts
  <2> QED
    BY <1>6, <2>1, OneCell
<1> HIDE DEF v
<1>8. Len(w') = RamdiskAt(h) /\ Kept(w', 0, v) /\ Len(w') \in Nat
  BY <1>2, <1>3, <1>7, PadPart DEF RamdiskAt
<1>9. Kept(w', 0, <<h>>)
  <2>1. Kept(v, 0, <<h>>)
    BY <1>6, <1>7 DEF Kept, Holds
  <2>2. Len(<<h>>) = 1 /\ Len(v) \in Nat
    BY <1>6, <1>7
  <2> QED
    BY <1>8, <2>1, <2>2, KeptOn
<1>10. Put(h, from)'
  BY <1>1, <1>4, <1>5, <1>8, <1>9 DEF Put
<1>11. from \in [1 .. Len(img'.frags) + 1 -> 0 .. Len(section')]
  BY <1>1, <1>4, <1>5
<1>12. h = HeaderFor(img', Len(section'))
  BY <1>0, <1>1
<1> QED
  BY <1>1, <1>10, <1>11, <1>12 DEF BuildInv

LEMMA PutRamdiskBuilds ==
  ASSUME Typed, BuildInv, PutRamdisk
  PROVE  BuildInv'
<1>0. PICK h : h = HeaderFor(img, Len(section))
  OBVIOUS
<1>1. /\ stage = "put_ramdisk" /\ stage' = "put_dtb" /\ img' = img /\ section' = section
      /\ w' = Padded(w \o section, PageSize)
  BY DEF PutRamdisk
<1>2. /\ h \in Header /\ h.page = PageSize /\ PageSize \in Nat \ {0}
      /\ h.ramdisk_size = Len(section) /\ section \in File /\ w \in File
  BY <1>0, <1>1, BuildHeader DEF Editing
<1>3. PICK from \in [1 .. Len(img.frags) + 1 -> 0 .. Len(section)] : Put(h, from)
  BY <1>0, <1>1 DEF BuildInv
<1>4. LaidOut(section, img.frags, Len(img.frags), from) /\ Kept(w, 0, <<h>>)
      /\ Len(w) = RamdiskAt(h)
  BY <1>1, <1>3 DEF Put
<1>5. /\ Len(w') = DtbAt(h) /\ Kept(w', 0, w) /\ Kept(w', RamdiskAt(h), section)
      /\ Len(w) \in Nat /\ Len(w') \in Nat
  <2>1. /\ Len(w') = AlignUp(Len(w) + Len(section), PageSize)
        /\ Kept(w', 0, w) /\ Kept(w', Len(w), section)
        /\ Len(w) \in Nat /\ Len(w') \in Nat
    BY <1>1, <1>2, PutPart
  <2> QED
    BY <1>2, <1>4, <2>1 DEF DtbAt
<1>6. Kept(w', 0, <<h>>)
  <2>1. Len(<<h>>) = 1
    OBVIOUS
  <2> QED
    BY <1>4, <1>5, <2>1, KeptOn
<1>7. Put(h, from)'
  BY <1>1, <1>4, <1>5, <1>6 DEF Put
<1>8. h = HeaderFor(img', Len(section'))
  BY <1>0, <1>1
<1> QED
  BY <1>1, <1>3, <1>7, <1>8 DEF BuildInv

\* What has been written stays in what is written next.
LEMMA WrittenStays ==
  ASSUME NEW h \in Header, h.version \in {3, 4}, h.page > 0,
         NEW v \in File, NEW f \in File, Kept(f, 0, v)
  PROVE  /\ Kept(v, 0, <<h>>) => Kept(f, 0, <<h>>)
         /\ \A t \in File : Kept(v, RamdiskAt(h), t) => Kept(f, RamdiskAt(h), t)
         /\ \A t \in File : Kept(v, DtbAt(h), t) => Kept(f, DtbAt(h), t)
         /\ \A t \in File : Kept(v, BootconfigAt(h), t) => Kept(f, BootconfigAt(h), t)
<1>1. Len(v) \in Nat /\ Len(f) \in Nat
  BY FileFacts, LenProperties
<1>2. RamdiskAt(h) \in Nat /\ DtbAt(h) \in Nat /\ BootconfigAt(h) \in Nat
  BY Places
<1>3. ASSUME NEW n \in Nat, NEW t, Len(t) \in Nat, Kept(v, n, t) PROVE Kept(f, n, t)
  BY <1>1, <1>3, KeptOn
<1>4. Len(<<h>>) = 1 /\ \A t \in File : Len(t) \in Nat
  BY FileFacts, LenProperties
<1> QED
  BY <1>2, <1>3, <1>4

LEMMA PutDtbBuilds ==
  ASSUME Typed, Fresh, BuildInv, PutDtb
  PROVE  BuildInv'
<1>0. PICK h : h = HeaderFor(img, Len(section))
  OBVIOUS
<1>1. /\ stage = "put_dtb" /\ img' = img /\ section' = section /\ at' = at
      /\ running' = running /\ w' = Padded(w \o img.dtb, PageSize)
      /\ stage' = (IF img.version = 4 THEN "put_table" ELSE "take")
  BY DEF PutDtb
<1>2. /\ h \in Header /\ h.version \in {3, 4} /\ h.page > 0 /\ h.version = img.version
      /\ h.page = PageSize /\ PageSize \in Nat \ {0}
      /\ h.dtb_size = Len(img.dtb) /\ section \in File /\ w \in File
      /\ img \in Content /\ img.version \in {3, 4} /\ img.dtb \in File
      /\ img.version = 3 => h.entry_num = 0 /\ h.bootconfig_size = 0
  BY <1>0, <1>1, BuildHeader DEF Editing, Content
<1>3. PICK from \in [1 .. Len(img.frags) + 1 -> 0 .. Len(section)] : Put(h, from)
  BY <1>0, <1>1 DEF BuildInv
<1>4. /\ LaidOut(section, img.frags, Len(img.frags), from)
      /\ Kept(w, 0, <<h>>) /\ Kept(w, RamdiskAt(h), section) /\ Len(w) = DtbAt(h)
  BY <1>1, <1>3 DEF Put
<1>5. /\ w' \in File /\ Len(w') = TableAt(h) /\ Kept(w', 0, w) /\ Kept(w', DtbAt(h), img.dtb)
  <2>1. /\ w' \in File /\ Len(w') = AlignUp(Len(w) + Len(img.dtb), PageSize)
        /\ Kept(w', 0, w) /\ Kept(w', Len(w), img.dtb)
    BY <1>1, <1>2, PutPart
  <2>2. TableAt(h) = AlignUp(Len(w) + Len(img.dtb), PageSize)
    BY <1>2, <1>4 DEF TableAt
  <2> QED
    BY <1>4, <2>1, <2>2
<1>6. Kept(w', 0, <<h>>) /\ Kept(w', RamdiskAt(h), section)
  BY <1>2, <1>4, <1>5, WrittenStays
<1>7. Put(h, from)'
  <2>1. CASE img.version = 4
    <3>1. at = 1 /\ running = 0 /\ from[1] = 0 /\ Len(img.frags) \in Nat
      BY <1>1, <1>2, <1>4, LenProperties DEF Fresh, LaidOut, Content
    <3>2. Len(w') = EntryAt(h, 1)
      BY <1>2, <1>5, EntryPlaces
    <3>3. \A f : Tabled(f, img, h, from, 0)
      BY DEF Tabled
    <3>4. Tabled(w', img, h, from, at - 1)
      BY <3>1, <3>3
    <3>5. stage' = "put_table" /\ at <= Len(img.frags) + 1
      BY <1>1, <2>1, <3>1
    <3> QED
      BY <1>1, <1>4, <1>5, <1>6, <2>1, <3>1, <3>2, <3>4, <3>5 DEF Put
  <2>2. CASE img.version = 3
    <3>1. Len(w') = EndAt(h)
      BY <1>2, <1>5, <2>2, NothingBehind
    <3>2. stage' = "take"
      BY <1>1, <2>2
    <3>3. ImageOf(w', img, section, from)
      BY <1>0, <1>2, <1>4, <1>5, <1>6, <2>2, <3>1 DEF ImageOf
    <3> QED
      BY <1>1, <1>4, <1>6, <3>2, <3>3 DEF Put
  <2> QED
    BY <1>2, <2>1, <2>2
<1>8. h = HeaderFor(img', Len(section'))
  BY <1>0, <1>1
<1>9. stage' \in {"put_ramdisk", "put_dtb", "put_table", "take"}
  BY <1>1
<1> QED
  BY <1>1, <1>3, <1>7, <1>8, <1>9 DEF BuildInv

\* A table entry put behind what is written.
LEMMA PutOneEntry ==
  ASSUME NEW v \in File, NEW e \in Cell
  PROVE  LET f == v \o <<e>> \o Zeros(EntryLen - 1)
         IN  /\ f \in File /\ Len(f) = Len(v) + EntryLen /\ Len(v) \in Nat
             /\ Kept(f, 0, v) /\ Kept(f, Len(v), <<e>>)
<1>1. PICK o : o = <<e>>
  OBVIOUS
<1>2. PICK z : z = Zeros(EntryLen - 1)
  OBVIOUS
<1>3. EntryLen \in Nat \ {0} /\ EntryLen - 1 \in Nat
  BY VendorBootAssumption
<1>4. o \in Seq(Cell) /\ Len(o) = 1
  BY <1>1
<1>5. z \in Seq(Cell) /\ Len(z) = EntryLen - 1
  BY <1>2, <1>3, FileFacts, ZerosFacts
<1>6. v \in Seq(Cell) /\ Len(v) \in Nat
  BY FileFacts, LenProperties
<1>7. PICK f : f = v \o o \o z
  OBVIOUS
<1>8. /\ f \in Seq(Cell) /\ Len(f) = Len(v) + Len(o) + Len(z)
      /\ Holds(f, 0, v) /\ Holds(f, Len(v), o)
  <2>1. v \in Seq(Cell) /\ o \in Seq(Cell) /\ z \in Seq(Cell)
    BY <1>4, <1>5, <1>6
  <2>2. /\ v \o o \o z \in Seq(Cell) /\ Len(v \o o \o z) = Len(v) + Len(o) + Len(z)
        /\ Holds(v \o o \o z, 0, v) /\ Holds(v \o o \o z, Len(v), o)
    BY ONLY <2>1, ThreeParts
  <2> QED
    BY <1>7, <2>2
<1>9. Kept(f, 0, v) /\ Kept(f, Len(v), o) /\ Len(f) = Len(v) + EntryLen
  BY <1>3, <1>4, <1>5, <1>6, <1>8 DEF Kept
<1> QED
  BY <1>1, <1>2, <1>6, <1>7, <1>8, <1>9, FileFacts

LEMMA PutEntryBuilds ==
  ASSUME Typed, BuildInv, PutEntry
  PROVE  BuildInv'
<1>0. PICK h : h = HeaderFor(img, Len(section))
  OBVIOUS
<1> DEFINE f == img.frags[at]
<1>1. /\ stage = "put_table" /\ stage' = "put_table" /\ img' = img /\ section' = section
      /\ at <= Len(img.frags) /\ at' = at + 1 /\ running' = running + Len(f.data)
      /\ w' = w \o <<[size |-> Len(f.data), offset |-> running, type |-> Named(f.type)]>>
                \o Zeros(EntryLen - 1)
  BY DEF PutEntry
<1>2. /\ h \in Header /\ h.version \in {3, 4} /\ h.page > 0 /\ h.version = img.version
      /\ section \in File /\ w \in File /\ img \in Content /\ img.dtb \in File
  BY <1>0, <1>1, BuildHeader DEF Editing, Content
<1>3. PICK from \in [1 .. Len(img.frags) + 1 -> 0 .. Len(section)] : Put(h, from)
  BY <1>0, <1>1 DEF BuildInv
<1>4. /\ LaidOut(section, img.frags, Len(img.frags), from)
      /\ Kept(w, 0, <<h>>) /\ Kept(w, RamdiskAt(h), section) /\ Kept(w, DtbAt(h), img.dtb)
      /\ img.version = 4 /\ Len(w) = EntryAt(h, at) /\ running = from[at]
      /\ Tabled(w, img, h, from, at - 1)
  BY <1>1, <1>3 DEF Put
<1>5. /\ at \in Nat \ {0} /\ img.frags \in Seq(Fragment) /\ at \in 1 .. Len(img.frags)
      /\ Len(img.frags) \in Nat /\ EntryLen \in Nat \ {0}
  BY <1>1, <1>2, LenProperties, VendorBootAssumption DEF Typed, TypeOK, Content
<1>6. PICK e : e = EntryFor(img, from, at)
  OBVIOUS
<1>7. w' = w \o <<e>> \o Zeros(EntryLen - 1)
  BY <1>1, <1>4, <1>6 DEF EntryFor
<1>8. e \in Cell
  <2>1. f \in Fragment
    BY <1>5, ElementOfSeq
  <2>2. Len(f.data) \in Nat /\ Named(f.type) \in Type
    BY <1>2, <2>1, BuildTypes, FileFacts, LenProperties DEF Fragment
  <2>3. from[at] \in Nat
    <3>1. running \in Nat
      BY DEF Typed, TypeOK
    <3> QED
      BY <1>4, <3>1
  <2> QED
    BY <1>6, <2>2, <2>3, FileFacts DEF EntryFor, Entry
<1>9. /\ w' \in File /\ Len(w') = Len(w) + EntryLen /\ Len(w) \in Nat
      /\ Kept(w', 0, w) /\ Kept(w', Len(w), <<e>>)
  BY <1>2, <1>7, <1>8, PutOneEntry
<1>10. Kept(w', EntryAt(h, at), <<e>>)
  BY <1>4, <1>9
<1>11. Len(w') = EntryAt(h, at + 1)
  BY <1>2, <1>4, <1>5, <1>9, EntryPlaces
<1>12. /\ Kept(w', 0, <<h>>) /\ Kept(w', RamdiskAt(h), section)
       /\ Kept(w', DtbAt(h), img.dtb)
  BY <1>2, <1>4, <1>9, WrittenStays
<1>13. Tabled(w', img, h, from, (at + 1) - 1)
  <2>1. at - 1 \in Nat
    BY <1>5
  <2>2. Tabled(w', img, h, from, at - 1)
    BY <1>2, <1>4, <1>9, <2>1, TabledOn
  <2>3. \A n \in 1 .. (at + 1) - 1 : n \in 1 .. at - 1 \/ n = at
    BY <1>5
  <2> QED
    BY <1>6, <1>10, <2>2, <2>3 DEF Tabled
<1>14. running' = from[at + 1]
  BY <1>1, <1>4, <1>5 DEF LaidOut
<1>15. at + 1 <= Len(img.frags) + 1
  BY <1>5
<1>16. Put(h, from)'
  BY <1>1, <1>4, <1>11, <1>12, <1>13, <1>14, <1>15 DEF Put
<1>17. h = HeaderFor(img', Len(section'))
  BY <1>0, <1>1
<1>18. stage' \in {"put_ramdisk", "put_dtb", "put_table", "take"}
  BY <1>1
<1> QED
  BY <1>1, <1>3, <1>16, <1>17, <1>18 DEF BuildInv

LEMMA PutBootconfigBuilds ==
  ASSUME Typed, BuildInv, PutBootconfig
  PROVE  BuildInv'
<1>0. PICK h : h = HeaderFor(img, Len(section))
  OBVIOUS
<1>1. /\ stage = "put_table" /\ stage' = "take" /\ img' = img /\ section' = section
      /\ at > Len(img.frags)
      /\ w' = IF img.bootconfig = <<>> THEN Padded(w, PageSize)
              ELSE Padded(Padded(w, PageSize) \o img.bootconfig, PageSize)
  BY DEF PutBootconfig
<1>3. PICK from \in [1 .. Len(img.frags) + 1 -> 0 .. Len(section)] : Put(h, from)
  BY <1>0, <1>1 DEF BuildInv
<1>4. /\ LaidOut(section, img.frags, Len(img.frags), from)
      /\ Kept(w, 0, <<h>>) /\ Kept(w, RamdiskAt(h), section) /\ Kept(w, DtbAt(h), img.dtb)
      /\ img.version = 4 /\ Len(w) = EntryAt(h, at) /\ at <= Len(img.frags) + 1
      /\ Tabled(w, img, h, from, at - 1)
  BY <1>1, <1>3 DEF Put
<1>2. /\ h \in Header /\ h.version \in {3, 4} /\ h.page > 0 /\ h.version = img.version
      /\ h.page = PageSize /\ PageSize \in Nat \ {0}
      /\ h.entry_num = Len(img.frags) /\ h.bootconfig_size = Len(img.bootconfig)
      /\ section \in File /\ w \in File
      /\ img \in Content /\ img.dtb \in File /\ img.bootconfig \in File
  BY <1>0, <1>1, <1>4, BuildHeader DEF Editing, Content
<1>5. at = Len(img.frags) + 1 /\ at - 1 = Len(img.frags) /\ Len(img.frags) \in Nat
  <2>1. at \in Nat /\ Len(img.frags) \in Nat
    BY <1>2, LenProperties DEF Typed, TypeOK, Content
  <2> QED
    BY <1>1, <1>4, <2>1
<1>6. PICK v : v = Padded(w, PageSize)
  OBVIOUS
<1>7. /\ v \in File /\ Len(v) = BootconfigAt(h) /\ Kept(v, 0, w)
  <2>1. Len(w) = TableAt(h) + Entries(h.entry_num)
    BY <1>2, <1>4, <1>5, EntryPlaces
  <2> QED
    BY <1>2, <1>6, <2>1, PadPart DEF BootconfigAt
<1>8. w' \in File /\ Len(w') = EndAt(h) /\ Kept(w', 0, v) /\ Kept(w', BootconfigAt(h), img.bootconfig)
  <2>1. CASE img.bootconfig = <<>>
    <3>1. h.bootconfig_size = 0 /\ Len(img.bootconfig) = 0 /\ w' = v
      BY <1>1, <1>2, <1>6, <2>1, EmptySeq
    <3>2. Len(v) = EndAt(h)
      BY <1>2, <1>7, <3>1, NothingBehind
    <3>3. BootconfigAt(h) \in Nat /\ Len(v) \in Nat
      BY <1>2, <1>7, Places
    <3>4. Kept(v, BootconfigAt(h), img.bootconfig)
      BY <1>7, <3>1, <3>3 DEF Kept, Holds
    <3>5. Kept(v, 0, v)
      BY <3>3 DEF Kept, Holds
    <3> QED
      BY <1>7, <3>1, <3>2, <3>4, <3>5
  <2>2. CASE img.bootconfig # <<>>
    <3>1. w' = Padded(v \o img.bootconfig, PageSize)
      BY <1>1, <1>6, <2>2
    <3>2. /\ w' \in File /\ Len(w') = AlignUp(Len(v) + Len(img.bootconfig), PageSize)
          /\ Kept(w', 0, v) /\ Kept(w', Len(v), img.bootconfig)
      BY <1>2, <1>7, <3>1, PutPart
    <3>3. EndAt(h) = AlignUp(Len(v) + Len(img.bootconfig), PageSize)
      BY <1>2, <1>7 DEF EndAt
    <3> QED
      BY <1>7, <3>2, <3>3
  <2> QED
    BY <2>1, <2>2
<1>9. /\ Kept(v, 0, <<h>>) /\ Kept(v, RamdiskAt(h), section) /\ Kept(v, DtbAt(h), img.dtb)
      /\ Tabled(v, img, h, from, Len(img.frags))
  BY <1>2, <1>4, <1>5, <1>7, WrittenStays, TabledOn
<1>10. /\ Kept(w', 0, <<h>>) /\ Kept(w', RamdiskAt(h), section) /\ Kept(w', DtbAt(h), img.dtb)
       /\ Tabled(w', img, h, from, Len(img.frags))
  BY <1>2, <1>5, <1>7, <1>8, <1>9, WrittenStays, TabledOn
<1>11. ImageOf(w', img, section, from)
  BY <1>0, <1>2, <1>4, <1>8, <1>10 DEF ImageOf
<1>12. Put(h, from)'
  BY <1>1, <1>4, <1>10, <1>11 DEF Put
<1>13. h = HeaderFor(img', Len(section'))
  BY <1>0, <1>1
<1>14. stage' \in {"put_ramdisk", "put_dtb", "put_table", "take"}
  BY <1>1
<1> QED
  BY <1>1, <1>3, <1>12, <1>13, <1>14 DEF BuildInv

LEMMA BuildStep ==
  ASSUME Typed, Fresh, BuildInv, [Next]_vars
  PROVE  BuildInv'
<1>1. CASE Parsing
  BY <1>1 DEF BuildInv, Parsing, ReadHeader, ReadRamdisk, ReadDtb, ReadSingle, ReadEntry,
              ReadBootconfig, Reject, Directory
<1>2. CASE Build
  <2>1. CASE img.version \in {3, 4}
    <3>1. stage' = "concat" /\ img' = img /\ section' = <<>> /\ at' = 1
      BY <1>2, <2>1 DEF Build, Fresh
    <3>2. PICK from \in [1 .. 1 -> 0 .. Len(<<>>)] : LaidOut(<<>>, img.frags, 0, from)
      BY LaidOutNone
    <3>3. Len(img.frags) \in Nat /\ 1 - 1 = 0
      BY <1>2, LenProperties DEF Build, Typed, Editing, Content
    <3>4. from \in [1 .. at' -> 0 .. Len(section')] /\ LaidOut(section', img'.frags, at' - 1, from)
      BY <3>1, <3>2, <3>3
    <3>5. at' <= Len(img'.frags) + 1
      BY <3>1, <3>3
    <3> QED
      BY <3>1, <3>4, <3>5 DEF BuildInv
  <2>2. CASE img.version \notin {3, 4}
    BY <1>2, <2>2 DEF Build, BuildInv
  <2> QED
    BY <2>1, <2>2
<1>3. CASE Take
  BY <1>3 DEF Take, BuildInv
<1>4. CASE User
  <2>1. PICK new \in Content : Edit(new)
    BY <1>4, UserEdits
  <2> QED
    BY <2>1 DEF BuildInv, Edit
<1>5. ASSUME NEW f, Unpack(f) PROVE BuildInv'
  BY <1>5 DEF BuildInv, Unpack
<1>6. CASE UNCHANGED vars
  BY <1>6 DEF BuildInv, Put, vars, building
<1> QED
  BY <1>1, <1>2, <1>3, <1>4, <1>5, <1>6, ConcatBuilds, PutHeaderBuilds, PutRamdiskBuilds,
     PutDtbBuilds, PutEntryBuilds, PutBootconfigBuilds DEF Next, Running, Putting

-----------------------------------------------------------------------------
(* Parse                                                                    *)

LEMMA ParseStep ==
  ASSUME Typed, Fresh, ParseInv, [Next]_vars
  PROVE  ParseInv'
<1>1. CASE ReadHeader
  <2>1. /\ stage' = "ramdisk" /\ file' = file /\ header' = file[1]
        /\ pos' = HeaderLen[file[1].version] /\ file \in File
        /\ file[1] \in Header /\ file[1].version \in {3, 4} /\ file[1].page > 0
        /\ img'.version = file[1].version /\ img'.page = file[1].page
        /\ img'.bootconfig = <<>> /\ img'.frags = <<>>
    BY <1>1 DEF ReadHeader, HeaderReadable, Typed
  <2> QED
    BY <2>1 DEF ParseInv, Opened, AfterHead
<1>2. CASE ReadRamdisk
  <2>1. /\ stage = "ramdisk" /\ stage' = "dtb" /\ file' = file /\ header' = header /\ img' = img
        /\ section' = Bytes(Start, header.ramdisk_size) /\ pos' = Start + header.ramdisk_size
    BY <1>2 DEF ReadRamdisk
  <2>2. Opened(file) /\ header = file[1] /\ pos = HeaderLen[header.version]
    BY <2>1 DEF ParseInv, AfterHead
  <2>3. Start = RamdiskAt(header)
    BY <2>2 DEF Start, RamdiskAt
  <2>4. section' = Ramdisk(file) /\ pos' = RamdiskAt(header) + header.ramdisk_size
    BY <2>1, <2>2, <2>3 DEF Bytes, Ramdisk
  <2> QED
    BY <2>1, <2>2, <2>4 DEF ParseInv, AfterHead, Opened, Ramdisk
<1>3. CASE ReadDtb
  <2>1. /\ stage = "dtb" /\ stage' = (IF WithTable(header) THEN "table" ELSE "single")
        /\ file' = file /\ header' = header /\ section' = section /\ at' = at
        /\ img' = [img EXCEPT !.dtb = Bytes(Start, header.dtb_size)]
        /\ pos' = After(header.dtb_size)
    BY <1>3 DEF ReadDtb, HasTable, WithTable
  <2>2. /\ Opened(file) /\ header = file[1] /\ section = Ramdisk(file)
        /\ pos = RamdiskAt(header) + header.ramdisk_size /\ at = 1
        /\ img.version = header.version /\ img.page = header.page
        /\ img.bootconfig = <<>> /\ img.frags = <<>> /\ img \in Content
    BY <2>1 DEF ParseInv, AfterHead, Fresh, Typed
  <2>3. Start = DtbAt(header)
    BY <2>2 DEF Start, DtbAt
  <2>4. pos' = TableAt(header)
    BY <2>1, <2>3 DEF After, TableAt
  <2>5. /\ img'.dtb = Cells(file, DtbAt(header), header.dtb_size)
        /\ img'.version = header.version /\ img'.page = header.page
        /\ img'.bootconfig = <<>> /\ img'.frags = <<>>
    BY <2>1, <2>2, <2>3 DEF Bytes, Content
  <2>6. header.entry_num \in Nat /\ Len(img'.frags) = 0
    BY <2>2, <2>5 DEF Opened, Header
  <2> QED
    BY <2>1, <2>2, <2>4, <2>5, <2>6 DEF ParseInv, AfterHead, Opened, Ramdisk
<1>4. CASE ReadEntry
  <2> DEFINE e == file[EntryPos(at) + 1]
             f == [type |-> e.type, data |-> SubSeq(section, e.offset + 1, e.offset + e.size)]
  <2>1. /\ stage = "table" /\ stage' = "table" /\ at <= header.entry_num /\ at' = at + 1
        /\ file' = file /\ header' = header /\ pos' = pos /\ section' = section
        /\ img' = [img EXCEPT !.frags = Append(@, f)]
        /\ e \in Entry /\ e.offset + e.size <= Len(section)
    BY <1>4 DEF ReadEntry, EntryReadable, parsing
  <2>2. /\ Opened(file) /\ header = file[1] /\ section = Ramdisk(file)
        /\ pos = TableAt(header) /\ img.dtb = Cells(file, DtbAt(header), header.dtb_size)
        /\ WithTable(header) /\ Len(img.frags) = at - 1
        /\ \A n \in 1 .. at - 1 :
             EntryIn(file, n) \in Entry /\ img.frags[n] = FragmentIn(file, n)
        /\ img.version = header.version /\ img.page = header.page
        /\ img.bootconfig = <<>> /\ img \in Content /\ at \in Nat \ {0}
    BY <2>1 DEF ParseInv, AfterHead, Typed, TypeOK
  <2>3. e = EntryIn(file, at) /\ e \in Entry
    BY <2>1, <2>2 DEF EntryIn, EntryPos
  <2>4. f = FragmentIn(file, at)
    BY <2>2, <2>3 DEF FragmentIn
  <2>5. f \in Fragment
    BY <2>1, PartInFile DEF Typed, TypeOK, Fragment, Entry
  <2> HIDE DEF e, f
  <2>6. /\ img'.frags = Append(img.frags, f) /\ img'.dtb = img.dtb
        /\ img'.version = img.version /\ img'.page = img.page
        /\ img'.bootconfig = img.bootconfig
    BY <2>1, <2>2 DEF Content
  <2>7. /\ Len(img'.frags) = at' - 1
        /\ \A n \in 1 .. at' - 1 :
             EntryIn(file, n) \in Entry /\ img'.frags[n] = FragmentIn(file, n)
    <3>1. img.frags \in Seq(Fragment)
      BY <2>2 DEF Content
    <3>2. /\ Len(img'.frags) = (at - 1) + 1 /\ img'.frags[(at - 1) + 1] = f
          /\ \A n \in 1 .. at - 1 : img'.frags[n] = img.frags[n]
      BY <2>2, <2>5, <2>6, <3>1, AppendProperties
    <3>3. (at - 1) + 1 = at /\ at' - 1 = at
      BY <2>1, <2>2
    <3>4. \A n \in 1 .. at : n \in 1 .. at - 1 \/ n = at
      BY <2>2
    <3> QED
      BY <2>2, <2>3, <2>4, <3>2, <3>3, <3>4
  <2>8. at' <= header.entry_num + 1
    BY <2>1, <2>2 DEF Opened, Header
  <2> QED
    <3>1. /\ Opened(file)' /\ header' = file'[1] /\ section' = Ramdisk(file)'
          /\ pos' = TableAt(header') /\ WithTable(header')
          /\ img'.dtb = Cells(file', DtbAt(header'), header'.dtb_size)
          /\ img'.version = header'.version /\ img'.page = header'.page
          /\ img'.bootconfig = <<>>
      BY <2>1, <2>2, <2>6 DEF Opened, Ramdisk
    <3>2. /\ Len(img'.frags) = at' - 1 /\ at' <= header'.entry_num + 1
          /\ \A n \in 1 .. at' - 1 :
               EntryIn(file', n) \in Entry /\ img'.frags[n] = FragmentIn(file', n)
      BY <2>1, <2>7, <2>8
    <3> QED
      BY <2>1, <3>1, <3>2 DEF ParseInv, AfterHead
<1>5. CASE ReadSingle \/ ReadBootconfig \/ Reject
  BY <1>5 DEF ParseInv, ReadSingle, ReadBootconfig, Reject, Directory, AfterHead
<1>6. CASE Putting
  BY <1>6 DEF ParseInv, Putting, Concat, PutHeader, PutRamdisk, PutDtb, PutEntry,
              PutBootconfig, Take, AfterHead
<1>7. CASE Build
  BY <1>7 DEF ParseInv, Build, AfterHead
<1>8. CASE User
  <2>1. PICK new \in Content : Edit(new)
    BY <1>8, UserEdits
  <2> QED
    BY <2>1 DEF ParseInv, Edit, AfterHead
<1>9. ASSUME NEW f, Unpack(f) PROVE ParseInv'
  BY <1>9 DEF ParseInv, Unpack, AfterHead
<1>10. CASE UNCHANGED vars
  BY <1>10 DEF ParseInv, vars, parsing, AfterHead, Opened, Ramdisk, FragmentIn, EntryIn
<1> QED
  BY <1>1, <1>2, <1>3, <1>4, <1>5, <1>6, <1>7, <1>8, <1>9, <1>10 DEF Next, Running, Parsing

-----------------------------------------------------------------------------
(* What was built is read                                                   *)

LEMMA ImageIs ==
  ASSUME NEW f, NEW c, NEW s \in File, NEW from, ImageOf(f, c, s, from)
  PROVE  /\ f[1] = HeaderFor(c, Len(s)) /\ Len(s) \in Nat
         /\ f[1] \in Header /\ f[1].version \in {3, 4} /\ f[1].page > 0
         /\ f[1].ramdisk_size = Len(s)
         /\ Ramdisk(f) = s
<1>1. c \in Content /\ c.version \in {3, 4} /\ Len(s) \in Nat /\ f \in File
  BY FileFacts, LenProperties DEF ImageOf
<1>2. PICK h : h = HeaderFor(c, Len(s))
  OBVIOUS
<1>3. /\ h \in Header /\ h.version = c.version /\ h.page \in Nat \ {0}
      /\ h.ramdisk_size = Len(s)
  BY <1>1, <1>2, HeaderForFacts
<1>4. Kept(f, 0, <<h>>) /\ Kept(f, RamdiskAt(h), s)
  BY <1>2 DEF ImageOf
<1>5. f[1] = h
  <2>1. Len(<<h>>) = 1 /\ 0 + 1 = 1 /\ <<h>>[1] = h
    OBVIOUS
  <2> QED
    BY <1>4, <2>1 DEF Kept, Holds
<1>6. RamdiskAt(h) \in Nat
  BY <1>1, <1>3, Places
<1>7. Cells(f, RamdiskAt(h), Len(s)) = s
  <2>1. \A i \in 1 .. Len(s) : f[RamdiskAt(h) + i] = s[i]
    BY <1>4 DEF Kept, Holds
  <2> QED
    BY <1>1, <1>6, <2>1, FileFacts, CellsFound
<1> QED
  BY <1>1, <1>2, <1>3, <1>5, <1>7 DEF Ramdisk

\* What is known of an image that build made.
LEMMA ImageFacts ==
  ASSUME NEW f, NEW c, Image(f, c)
  PROVE  /\ f[1] = HeaderFor(c, f[1].ramdisk_size)
         /\ f[1] \in Header /\ f[1].version \in {3, 4} /\ f[1].page > 0
         /\ c \in Content /\ f[1].version = c.version
         /\ f \in File /\ Len(f) = EndAt(f[1]) /\ Len(Ramdisk(f)) = f[1].ramdisk_size
         /\ \E from : ImageOf(f, c, Ramdisk(f), from)
<1>1. PICK from : ImageOf(f, c, Ramdisk(f), from)
  BY DEF Image
<1> DEFINE s == Ramdisk(f)
<1>2. c \in Content /\ c.version \in {3, 4} /\ f \in File
  BY <1>1 DEF ImageOf
<1>3. Kept(f, 0, <<HeaderFor(c, Len(s))>>) /\ Len(f) = EndAt(HeaderFor(c, Len(s)))
  BY <1>1 DEF ImageOf
<1>4. f[1] = HeaderFor(c, Len(s))
  <2>1. PICK h : h = HeaderFor(c, Len(s))
    OBVIOUS
  <2>2. Len(<<h>>) = 1 /\ 0 + 1 = 1 /\ <<h>>[1] = h
    OBVIOUS
  <2> QED
    BY <1>3, <2>1, <2>2 DEF Kept, Holds
<1>5. f[1].ramdisk_size = Len(s)
  BY <1>4 DEF HeaderFor
<1>6. Len(s) \in Nat
  <2>1. from \in [1 .. Len(c.frags) + 1 -> 0 .. Len(s)] /\ from[Len(c.frags) + 1] = Len(s)
    BY <1>1 DEF ImageOf, LaidOut
  <2>2. Len(c.frags) + 1 \in 1 .. Len(c.frags) + 1
    BY <1>2, LenProperties DEF Content
  <2> QED
    BY <2>1, <2>2
<1> HIDE DEF s
<1>7. /\ f[1] \in Header /\ f[1].version = c.version /\ f[1].page \in Nat \ {0}
  BY <1>2, <1>4, <1>6, HeaderForFacts
<1> QED
  BY <1>1, <1>2, <1>3, <1>4, <1>5, <1>7 DEF s

\* Entry n of such an image is the one build put, and its fragment is there.
LEMMA EntryRead ==
  ASSUME NEW f, NEW c, NEW from, ImageOf(f, c, Ramdisk(f), from), Image(f, c),
         c.version = 4, NEW n \in 1 .. Len(c.frags)
  PROVE  /\ f[1].entry_num = Len(c.frags) /\ f[1].entry_size = EntryLen
         /\ n \in Nat \ {0}
         /\ TableAt(f[1]) + (n - 1) * f[1].entry_size = EntryAt(f[1], n)
         /\ EntryAt(f[1], n) \in Nat /\ EntryAt(f[1], n) + EntryLen <= Len(f)
         /\ EntryIn(f, n) \in Entry
         /\ EntryIn(f, n).offset + EntryIn(f, n).size <= Len(Ramdisk(f))
         /\ FragmentIn(f, n) = [type |-> Named(c.frags[n].type), data |-> c.frags[n].data]
<1>1. PICK h : h = f[1]
  OBVIOUS
<1>2. PICK s : s = Ramdisk(f)
  OBVIOUS
<1>3. /\ h = HeaderFor(c, Len(s)) /\ h \in Header /\ h.version \in {3, 4} /\ h.page > 0
      /\ c \in Content /\ f \in File /\ Len(f) = EndAt(h) /\ Len(s) = h.ramdisk_size
  BY <1>1, <1>2, ImageFacts
<1>4. h.entry_num = Len(c.frags) /\ h.entry_size = EntryLen
  BY <1>3 DEF HeaderFor
<1>5. /\ LaidOut(s, c.frags, Len(c.frags), from) /\ Tabled(f, c, h, from, Len(c.frags))
  BY <1>2, <1>3 DEF ImageOf
<1>6. /\ n \in Nat \ {0} /\ Len(c.frags) \in Nat /\ n <= h.entry_num
      /\ c.frags \in Seq(Fragment) /\ Len(s) \in Nat
  BY <1>3, <1>4, LenProperties DEF Content, Header
<1>7. /\ EntryAt(h, n) \in Nat /\ EntryAt(h, n) + EntryLen <= BootconfigAt(h)
      /\ BootconfigAt(h) <= EndAt(h) /\ BootconfigAt(h) \in Nat /\ EndAt(h) \in Nat
  <2>1. h.bootconfig_size \in Nat /\ BootconfigAt(h) + h.bootconfig_size <= EndAt(h)
        /\ BootconfigAt(h) \in Nat /\ EndAt(h) \in Nat
    BY <1>3, Places
  <2>2. EntryAt(h, n) \in Nat /\ EntryAt(h, n) + EntryLen <= BootconfigAt(h)
    BY <1>3, <1>6, EntryPlaces
  <2> QED
    BY <2>1, <2>2
<1>8. TableAt(h) + (n - 1) * h.entry_size = EntryAt(h, n)
  BY <1>4 DEF EntryAt, Entries
<1>9. EntryAt(h, n) + EntryLen <= Len(f)
  BY <1>3, <1>7, VendorBootAssumption
<1>10. PICK e : e = EntryFor(c, from, n)
  OBVIOUS
<1>11. EntryIn(f, n) = e
  <2>1. Kept(f, EntryAt(h, n), <<e>>)
    BY <1>5, <1>10 DEF Tabled
  <2>2. Len(<<e>>) = 1 /\ <<e>>[1] = e
    OBVIOUS
  <2>3. f[EntryAt(h, n) + 1] = e
    BY <2>1, <2>2 DEF Kept, Holds
  <2> QED
    BY <1>1, <1>8, <2>3 DEF EntryIn
<1>12. /\ from[n] \in 0 .. Len(s) /\ from[n + 1] \in 0 .. Len(s)
       /\ from[n + 1] = from[n] + Len(c.frags[n].data)
       /\ SubSeq(s, from[n] + 1, from[n + 1]) = c.frags[n].data
  <2>1. n \in 1 .. Len(c.frags) + 1 /\ n + 1 \in 1 .. Len(c.frags) + 1
    BY <1>6
  <2>2. from[n] \in 0 .. Len(s) /\ from[n + 1] \in 0 .. Len(s)
    BY <1>5, <2>1 DEF LaidOut
  <2> QED
    BY <1>5, <2>2 DEF LaidOut
<1>13. /\ e.size = Len(c.frags[n].data) /\ e.offset = from[n]
       /\ e.type = Named(c.frags[n].type) /\ e \in Entry
  <2>1. c.frags[n] \in Fragment
    BY <1>6, ElementOfSeq
  <2>2. Len(c.frags[n].data) \in Nat /\ Named(c.frags[n].type) \in Type
    <3>1. Known \subseteq Type /\ "none" \in Known
      BY VendorBootAssumption
    <3> QED
      BY <2>1, <3>1, FileFacts, LenProperties DEF Fragment, Named
  <2> QED
    BY <1>10, <1>12, <2>2 DEF EntryFor, Entry
<1>14. e.offset + e.size = from[n + 1]
  BY <1>12, <1>13
<1>15. FragmentIn(f, n) = [type |-> e.type, data |-> SubSeq(s, from[n] + 1, from[n + 1])]
  BY <1>2, <1>11, <1>13, <1>14 DEF FragmentIn
<1>16. FragmentIn(f, n) = [type |-> Named(c.frags[n].type), data |-> c.frags[n].data]
  BY <1>12, <1>13, <1>15
<1>17. EntryIn(f, n) \in Entry /\ EntryIn(f, n).offset + EntryIn(f, n).size <= Len(s)
  BY <1>6, <1>11, <1>12, <1>13, <1>14
<1> QED
  BY <1>1, <1>2, <1>4, <1>6, <1>7, <1>8, <1>9, <1>16, <1>17, Zenon

\* Unpacking an image that build made: what parse makes of it is what it says.
LEMMA ReadSays ==
  ASSUME NEW f, NEW c, NEW r \in Content, Image(f, c), ReadFrom(f, r)
  PROVE  Says(r, c)
<1>1. PICK from : ImageOf(f, c, Ramdisk(f), from)
  BY ImageFacts
<1>2. PICK h : h = f[1]
  OBVIOUS
<1>3. PICK s : s = Ramdisk(f)
  OBVIOUS
<1>4. /\ h = HeaderFor(c, Len(s)) /\ h \in Header /\ h.version \in {3, 4} /\ h.page > 0
      /\ c \in Content /\ f \in File /\ Len(s) = h.ramdisk_size /\ c.version = h.version
  BY <1>2, <1>3, ImageFacts
<1>5. /\ LaidOut(s, c.frags, Len(c.frags), from) /\ Kept(f, DtbAt(h), c.dtb)
      /\ c.version = 4 => Kept(f, BootconfigAt(h), c.bootconfig)
  BY <1>1, <1>3, <1>4 DEF ImageOf
<1>6. /\ h.page = (IF c.page = 0 THEN DefaultPage ELSE c.page) /\ h.dtb_size = Len(c.dtb)
      /\ h.entry_num = (IF c.version = 4 THEN Len(c.frags) ELSE 0)
      /\ h.entry_size = (IF c.version = 4 THEN EntryLen ELSE 0)
      /\ h.bootconfig_size = (IF c.version = 4 THEN Len(c.bootconfig) ELSE 0)
  BY <1>4 DEF HeaderFor
<1>7. r.version = h.version /\ r.page = h.page /\ r.dtb = Cells(f, DtbAt(h), h.dtb_size)
  BY <1>2 DEF ReadFrom
<1>8. r.dtb = c.dtb
  <2>1. DtbAt(h) \in Nat /\ f \in Seq(Cell) /\ c.dtb \in Seq(Cell)
    BY <1>4, Places, FileFacts DEF Content
  <2>2. \A i \in 1 .. Len(c.dtb) : f[DtbAt(h) + i] = c.dtb[i]
    BY <1>5 DEF Kept, Holds
  <2>3. Cells(f, DtbAt(h), Len(c.dtb)) = c.dtb
    BY <2>1, <2>2, CellsFound
  <2> QED
    BY <1>6, <1>7, <2>3
<1>9. CASE c.version = 4 /\ c.frags # <<>>
  <2>1. c.frags \in Seq(Fragment) /\ Len(c.frags) \in Nat \ {0}
    BY <1>4, <1>9, EmptySeq DEF Content
  <2>2. WithTable(h)
    BY <1>4, <1>6, <1>9, <2>1 DEF WithTable
  <2>3. /\ Len(r.frags) = h.entry_num
        /\ \A n \in 1 .. h.entry_num :
             EntryIn(f, n) \in Entry /\ r.frags[n] = FragmentIn(f, n)
        /\ r.bootconfig = Cells(f, TableEndIn(h), h.bootconfig_size)
    BY <1>2, <2>2 DEF ReadFrom
  <2>4. TableEndIn(h) = BootconfigAt(h)
    BY <1>6, <1>9 DEF TableEndIn, BootconfigAt, Entries
  <2>5. r.bootconfig = c.bootconfig
    <3>1. BootconfigAt(h) \in Nat /\ f \in Seq(Cell) /\ c.bootconfig \in Seq(Cell)
      BY <1>4, Places, FileFacts DEF Content
    <3>2. \A i \in 1 .. Len(c.bootconfig) : f[BootconfigAt(h) + i] = c.bootconfig[i]
      BY <1>5, <1>9 DEF Kept, Holds
    <3>3. Cells(f, BootconfigAt(h), Len(c.bootconfig)) = c.bootconfig
      BY <3>1, <3>2, CellsFound
    <3> QED
      BY <1>6, <1>9, <2>3, <2>4, <3>3
  <2>6. \A n \in 1 .. Len(c.frags) :
          r.frags[n] = [type |-> Named(c.frags[n].type), data |-> c.frags[n].data]
    <3> TAKE n \in 1 .. Len(c.frags)
    <3>1. FragmentIn(f, n) = [type |-> Named(c.frags[n].type), data |-> c.frags[n].data]
      BY <1>1, <1>9, EntryRead
    <3> QED
      BY <1>6, <1>9, <2>3, <3>1
  <2> DEFINE g == [n \in 1 .. Len(c.frags) |->
                    [type |-> Named(c.frags[n].type), data |-> c.frags[n].data]]
  <2>7. r.frags \in Seq(Fragment) /\ Len(r.frags) = Len(c.frags)
    BY <1>6, <1>9, <2>3 DEF Content
  <2>8. r.frags = g
    <3>1. r.frags \in [1 .. Len(c.frags) -> Fragment]
      BY <2>7, LenProperties
    <3> QED
      BY <2>6, <3>1
  <2> QED
    BY <1>4, <1>6, <1>7, <1>8, <1>9, <2>5, <2>8 DEF Says
<1>10. CASE ~(c.version = 4 /\ c.frags # <<>>)
  <2>1. ~WithTable(h)
    <3>1. c.version = 4 => Len(c.frags) = 0
      BY <1>10, EmptySeq
    <3> QED
      BY <1>4, <1>6, <3>1 DEF WithTable
  <2>2. r.frags = <<[type |-> "none", data |-> s]>>
    BY <1>2, <1>3, <2>1 DEF ReadFrom
  <2>3. Tiles(s, c.frags)
    BY <1>5, LaidOutTiles
  <2>4. Len(r.frags) = 1 /\ r.frags[1].data = s
    BY <2>2
  <2> QED
    BY <1>4, <1>6, <1>7, <1>8, <1>10, <2>3, <2>4 DEF Says
<1> QED
  BY <1>9, <1>10

\* Parse does not refuse an image that build made.
LEMMA ImageAccepted ==
  ASSUME Typed, ParseInv, Image(file, origin)
  PROVE  ~Reject
<1>1. PICK h : h = file[1]
  OBVIOUS
<1>2. /\ h = HeaderFor(origin, Len(Ramdisk(file)))
      /\ h \in Header /\ h.version \in {3, 4} /\ h.page > 0 /\ h.version = origin.version
      /\ file \in File /\ Len(file) = EndAt(h) /\ Len(Ramdisk(file)) = h.ramdisk_size
  BY <1>1, ImageFacts
<1>0. Len(file) = EndAt(h)
  BY <1>2
<1>3. PICK from : ImageOf(file, origin, Ramdisk(file), from)
  BY ImageFacts
<1>4. /\ h.page \in Nat \ {0} /\ h.ramdisk_size \in Nat /\ h.dtb_size \in Nat
      /\ h.entry_num \in Nat /\ h.bootconfig_size \in Nat
      /\ HeaderLen[h.version] \in Nat \ {0}
      /\ RamdiskAt(h) \in Nat /\ DtbAt(h) \in Nat /\ TableAt(h) \in Nat
      /\ BootconfigAt(h) \in Nat /\ EndAt(h) \in Nat /\ Entries(h.entry_num) \in Nat
  BY <1>2, Places
<1>11. /\ HeaderLen[h.version] <= RamdiskAt(h)
      /\ RamdiskAt(h) + h.ramdisk_size <= DtbAt(h)
      /\ DtbAt(h) + h.dtb_size <= TableAt(h)
      /\ TableAt(h) + Entries(h.entry_num) <= BootconfigAt(h)
      /\ BootconfigAt(h) + h.bootconfig_size <= EndAt(h)
  BY <1>2, Places
<1>12. TableAt(h) <= Len(file)
  BY <1>0, <1>4, <1>11
<1>13. DtbAt(h) <= Len(file)
  BY <1>0, <1>4, <1>11, <1>12
<1>14. RamdiskAt(h) + h.ramdisk_size <= Len(file) /\ RamdiskAt(h) <= Len(file)
  BY <1>0, <1>4, <1>11, <1>13
<1>5. h.entry_size = (IF h.version = 4 THEN EntryLen ELSE 0)
  BY <1>2 DEF HeaderFor
<1>6. EntryLen \in Nat \ {0}
  BY VendorBootAssumption
<1>7. HeaderReadable
  <2> DEFINE len == HeaderLen[h.version]
  <2>3. len \in Nat \ {0} /\ len <= RamdiskAt(h)
    BY <1>4, <1>11
  <2>4. RamdiskAt(h) \in Nat /\ RamdiskAt(h) <= Len(file) /\ Len(file) \in Nat
    BY <1>0, <1>4, <1>14
  <2> HIDE DEF len
  <2>5. Len(file) > 0 /\ 0 + len <= Len(file)
    BY <2>3, <2>4
  <2>1. Len(file) > 0 /\ 0 + HeaderLen[h.version] <= Len(file)
    BY <2>5 DEF len
  <2>2. h.version = 4 => h.entry_size >= EntryLen
    BY <1>5, <1>6
  <2> QED
    BY <1>1, <1>2, <2>1, <2>2 DEF HeaderReadable, Has
<1>8. CASE stage = "ramdisk"
  <2>1. header = h /\ pos = HeaderLen[h.version]
    BY <1>1, <1>8 DEF ParseInv, AfterHead
  <2>2. Start = RamdiskAt(h)
    BY <2>1 DEF Start, RamdiskAt
  <2>4. Has(Start, header.ramdisk_size)
    BY <1>14, <2>1, <2>2 DEF Has
  <2> QED
    BY <1>8, <2>4 DEF Reject
<1>9. CASE stage = "dtb"
  <2>1. header = h /\ pos = RamdiskAt(h) + h.ramdisk_size
    BY <1>1, <1>9 DEF ParseInv, AfterHead
  <2>2. After(h.dtb_size) = TableAt(h)
    BY <2>1 DEF Start, After, DtbAt, TableAt
  <2>3. TableAt(h) + 0 <= Len(file)
    BY <1>4, <1>12
  <2>4. Has(After(header.dtb_size), 0)
    BY <2>1, <2>2, <2>3 DEF Has
  <2> QED
    BY <1>9, <2>4 DEF Reject
<1>10. CASE stage = "table"
  <2>1. /\ header = h /\ pos = TableAt(h) /\ section = Ramdisk(file) /\ WithTable(h)
        /\ at \in Nat \ {0}
    BY <1>1, <1>10 DEF ParseInv, AfterHead, Typed, TypeOK
  <2>2. h.version = 4 /\ h.entry_num > 0 /\ h.entry_size = EntryLen
    BY <1>5, <2>1 DEF WithTable
  <2>3. h.entry_num = Len(origin.frags) /\ origin.version = 4
    BY <1>2, <2>2 DEF HeaderFor
  <2>4. ASSUME at <= h.entry_num PROVE EntryReadable(at)
    <3>1. at \in 1 .. Len(origin.frags)
      BY <1>4, <2>1, <2>3, <2>4
    <3>2. /\ TableAt(h) + (at - 1) * h.entry_size = EntryAt(h, at)
          /\ EntryAt(h, at) + EntryLen <= Len(file)
          /\ EntryIn(file, at) \in Entry
          /\ EntryIn(file, at).offset + EntryIn(file, at).size <= Len(Ramdisk(file))
      BY <1>1, <1>3, <2>3, <3>1, EntryRead
    <3>3. EntryPos(at) = EntryAt(h, at)
      BY <2>1, <3>2 DEF EntryPos
    <3>4. EntryIn(file, at) = file[EntryPos(at) + 1]
      BY <1>1, <2>1 DEF EntryIn, EntryPos
    <3> QED
      BY <2>1, <3>2, <3>3, <3>4 DEF EntryReadable, Has
  <2>5. Has(BootconfigEnd, 0)
    <3>1. TableEnd = BootconfigAt(h)
      <4>1. EntryPos(h.entry_num + 1) = TableAt(h) + Entries(h.entry_num)
        <5>1. (h.entry_num + 1) - 1 = h.entry_num
          BY <1>4
        <5> QED
          BY <2>1, <2>2, <5>1 DEF EntryPos, Entries
      <4> QED
        BY <2>1, <4>1 DEF TableEnd, BootconfigAt
    <3>2. BootconfigEnd = EndAt(h)
      BY <1>2, <2>1, <3>1, NothingBehind DEF BootconfigEnd, EndAt
    <3>3. EndAt(h) + 0 <= Len(file)
      BY <1>0, <1>4
    <3> QED
      BY <3>2, <3>3 DEF Has
  <2> QED
    BY <1>10, <2>1, <2>4, <2>5 DEF Reject
<1> QED
  BY <1>7, <1>8, <1>9, <1>10 DEF Reject

-----------------------------------------------------------------------------
(* Rounds                                                                   *)

\* What parse has read is what ReadFrom says.
LEMMA ReadDone ==
  ASSUME Typed, Fresh, ParseInv, ReadSingle \/ ReadBootconfig
  PROVE  ReadFrom(file, img')
<1>1. PICK h : h = file[1]
  OBVIOUS
<1>2. stage \in {"single", "table"}
  BY DEF ReadSingle, ReadBootconfig
<1>3. /\ Opened(file) /\ header = h /\ img.version = h.version /\ img.page = h.page
      /\ img.dtb = Cells(file, DtbAt(h), h.dtb_size) /\ img.bootconfig = <<>>
      /\ section = Ramdisk(file) /\ pos = TableAt(h) /\ img \in Content
  BY <1>1, <1>2 DEF ParseInv, AfterHead, Typed
<1>4. CASE ReadSingle
  <2>1. ~WithTable(h)
    BY <1>3, <1>4 DEF ReadSingle, ParseInv
  <2>2. /\ img'.version = img.version /\ img'.page = img.page /\ img'.dtb = img.dtb
        /\ img'.bootconfig = img.bootconfig
        /\ img'.frags = <<[type |-> "none", data |-> section]>>
    BY <1>3, <1>4 DEF ReadSingle, Content
  <2> QED
    BY <1>1, <1>3, <2>1, <2>2 DEF ReadFrom
<1>5. CASE ReadBootconfig
  <2>1. /\ WithTable(h) /\ at <= h.entry_num + 1 /\ Len(img.frags) = at - 1
        /\ \A n \in 1 .. at - 1 :
             EntryIn(file, n) \in Entry /\ img.frags[n] = FragmentIn(file, n)
        /\ at > h.entry_num /\ at \in Nat
    BY <1>3, <1>5 DEF ReadBootconfig, ParseInv, Typed, TypeOK
  <2>2. at - 1 = h.entry_num /\ h.entry_num \in Nat
    BY <1>1, <1>3, <2>1 DEF Opened, Header
  <2>3. /\ img'.version = img.version /\ img'.page = img.page /\ img'.dtb = img.dtb
        /\ img'.bootconfig = Bytes(TableEnd, h.bootconfig_size)
        /\ img'.frags = img.frags
    BY <1>3, <1>5 DEF ReadBootconfig, Content
  <2>4. TableEnd = TableEndIn(h)
    <3>1. (h.entry_num + 1) - 1 = h.entry_num
      BY <2>2
    <3> QED
      BY <1>3, <3>1 DEF TableEnd, TableEndIn, EntryPos
  <2> QED
    BY <1>1, <1>3, <2>1, <2>2, <2>3, <2>4 DEF ReadFrom, Bytes
<1> QED
  BY <1>4, <1>5

LEMMA TakeIsImage ==
  ASSUME Typed, BuildInv, Take
  PROVE  Image(w, img)
<1>1. PICK from \in [1 .. Len(img.frags) + 1 -> 0 .. Len(section)] :
        Put(HeaderFor(img, Len(section)), from)
  BY DEF Take, BuildInv
<1>2. ImageOf(w, img, section, from)
  BY <1>1 DEF Take, Put
<1>3. section \in File
  BY DEF Typed, TypeOK
<1>4. Ramdisk(w) = section /\ w[1].ramdisk_size = Len(section)
  BY <1>2, <1>3, ImageIs
<1>5. from \in [1 .. Len(img.frags) + 1 -> 0 .. w[1].ramdisk_size]
  BY <1>4
<1>6. ImageOf(w, img, Ramdisk(w), from)
  BY <1>2, <1>4
<1> QED
  BY <1>5, <1>6 DEF Image

LEMMA RoundStep ==
  ASSUME IInv, [Next]_vars
  PROVE  RoundInv'
<1>0. Typed /\ Fresh /\ ParseInv /\ BuildInv /\ RoundInv /\ Null \notin File
  BY NullApart DEF IInv
<1>1. ASSUME NEW f, Unpack(f) PROVE RoundInv'
  <2>1. stage' = "header" /\ file' = f /\ result' = "none" /\ img' = Null
    BY <1>1 DEF Unpack
  <2>2. origin' # Null => f \in File /\ Image(f, origin')
    <3>1. result = "image" => out \in File
      BY <1>0 DEF Typed, TypeOK
    <3> QED
      BY <1>0, <1>1, <3>1 DEF Unpack, RoundInv
  <2> QED
    BY <2>1, <2>2 DEF RoundInv, Editing
<1>2. CASE ReadHeader \/ ReadRamdisk \/ ReadDtb \/ ReadEntry
  <2>1. /\ file' = file /\ origin' = origin /\ result' = result
        /\ stage' \in {"ramdisk", "dtb", "table", "single"} /\ result = "none"
    BY <1>0, <1>2 DEF ReadHeader, ReadRamdisk, ReadDtb, ReadEntry, Typed
  <2> QED
    BY <1>0, <2>1 DEF RoundInv, Editing
<1>3. CASE ReadSingle \/ ReadBootconfig
  <2>1. /\ file' = file /\ origin' = origin /\ result' = result /\ stage' = "edit"
        /\ result = "none"
    BY <1>0, <1>3 DEF ReadSingle, ReadBootconfig, Directory, Typed
  <2>2. ReadFrom(file, img')
    BY <1>0, <1>3, ReadDone
  <2> QED
    BY <1>0, <2>1, <2>2 DEF RoundInv
<1>4. CASE Reject
  <2>1. file' = file /\ origin' = origin /\ result' = "error" /\ stage' = "idle"
    BY <1>4 DEF Reject
  <2>2. origin = Null
    BY <1>0, <1>4, ImageAccepted DEF RoundInv
  <2> QED
    BY <2>1, <2>2 DEF RoundInv, Editing
<1>5. CASE Build
  <2>1. /\ file' = file /\ origin' = origin /\ img' = img /\ result' \in {"none", "error"}
        /\ stage = "edit" /\ stage' \in {"edit", "concat"}
    BY <1>5 DEF Build
  <2> QED
    BY <1>0, <2>1 DEF RoundInv, Editing
<1>6. CASE User
  <2>1. PICK new \in Content : Edit(new)
    BY <1>0, <1>6, UserEdits
  <2> QED
    BY <2>1 DEF RoundInv, Edit
<1>7. CASE Concat \/ PutHeader \/ PutRamdisk \/ PutDtb \/ PutEntry \/ PutBootconfig
  <2>1. /\ file' = file /\ origin' = origin /\ img' = img /\ result' = result
        /\ result = "none" /\ stage \in Editing /\ stage' \in Editing
    BY <1>0, <1>7 DEF Concat, PutHeader, PutRamdisk, PutDtb, PutEntry, PutBootconfig,
                      Editing, Typed
  <2> QED
    BY <1>0, <2>1 DEF RoundInv, Editing
<1>8. CASE Take
  <2>1. /\ file' = file /\ origin' = origin /\ img' = img /\ out' = w
        /\ stage \in Editing /\ stage' = "edit"
    BY <1>8 DEF Take, Editing
  <2>2. Image(w, img)
    BY <1>0, <1>8, TakeIsImage
  <2> QED
    BY <1>0, <2>1, <2>2 DEF RoundInv, Editing
<1>9. CASE UNCHANGED vars
  BY <1>0, <1>9 DEF RoundInv, vars, Editing
<1> QED
  BY <1>1, <1>2, <1>3, <1>4, <1>5, <1>6, <1>7, <1>8, <1>9 DEF Next, Running, Parsing, Putting

\* The invariant: the layout, as far as build and parse are with it.
THEOREM Invariant == Spec => []IInv
<1>1. Init => IInv
  <2> SUFFICES ASSUME Init PROVE IInv
    OBVIOUS
  <2>1. Typed
    BY FileFacts DEF Init, Typed, TypeOK, AfterHead, Editing
  <2>2. Fresh /\ ParseInv /\ BuildInv /\ RoundInv
    BY DEF Init, Fresh, ParseInv, BuildInv, RoundInv, AfterHead, Editing
  <2> QED
    BY <2>1, <2>2 DEF IInv
<1>2. IInv /\ [Next]_vars => IInv'
  BY TypedStep, FreshStep, ParseStep, BuildStep, RoundStep DEF IInv
<1> QED
  BY <1>1, <1>2, PTL DEF Spec

\* Parse accepts every output of build, for any fragments on pages of any size:
\* its cursor is at each section where build's was.
THEOREM BuiltIsAccepted == Spec => []OutputAccepted
<1>1. IInv => OutputAccepted
  BY DEF IInv, RoundInv, OutputAccepted
<1> QED
  BY <1>1, Invariant, PTL

\* Whatever the user made of the directory, unpacking the output gives it back:
\* every fragment from the place that running_offset gave it, its name as far as
\* the type has one, the dtb and the bootconfig behind the table.
THEOREM BuiltSaysIt == Spec => []OutputSaysIt
<1>1. IInv => OutputSaysIt
  <2> SUFFICES ASSUME IInv, stage = "edit", origin # Null PROVE Says(img, origin)
    BY DEF OutputSaysIt
  <2>1. /\ file \in File /\ Image(file, origin) /\ Null \notin File
        /\ file # Null => ReadFrom(file, img)
    BY NullApart DEF IInv, RoundInv, Editing
  <2>2. img \in Content
    BY DEF IInv, Typed, Editing
  <2> QED
    BY <2>1, <2>2, ReadSays
<1> QED
  BY <1>1, Invariant, PTL

-----------------------------------------------------------------------------
(* An image that is built again                                             *)

\* Where fragment n lies in the ramdisk section of f, and where the last ends.
PlaceIn(f, n) ==
  IF n = 1 THEN 0
  ELSE IF WithTable(f[1]) /\ n <= f[1].entry_num THEN EntryIn(f, n).offset
  ELSE f[1].ramdisk_size

\* What build puts together is so far what the file f begins with.
Follows(f) ==
  /\ stage = "concat" =>
       /\ at <= Len(img.frags) + 1
       /\ Len(section) = PlaceIn(f, at) /\ Holds(Ramdisk(f), 0, section)
  /\ stage \in {"put_ramdisk", "put_dtb", "put_table", "take"} =>
       section = Ramdisk(f) /\ Holds(f, 0, w)
  /\ stage = "put_ramdisk" => Len(w) = RamdiskAt(f[1])
  /\ stage = "put_dtb" => Len(w) = DtbAt(f[1])
  /\ stage = "put_table" =>
       /\ at <= Len(img.frags) + 1
       /\ Len(w) = EntryAt(f[1], at) /\ running = PlaceIn(f, at)
  /\ stage = "take" => w = f
  /\ result = "image" => out = f

AgainInv ==
  /\ result = "image" => stage = "edit"
  /\ file # Null /\ stage \in Editing /\ OwnLayout(file) => Follows(file)

\* The cells of f between a and b are zeros.
Gap(f, a, b) == \A p \in a + 1 .. b : f[p] = Zero

\* Entries do not overlap, and lie behind the dtb.
LEMMA EntryApart ==
  ASSUME NEW h \in Header, h.version \in {3, 4}, h.page > 0
  PROVE  /\ \A n \in Nat \ {0} :
              /\ TableAt(h) <= EntryAt(h, n)
              /\ n <= h.entry_num =>
                   EntryAt(h, n) + EntryLen <= TableAt(h) + Entries(h.entry_num)
         /\ \A n \in Nat \ {0}, m \in Nat \ {0} :
              n < m => EntryAt(h, n) + EntryLen <= EntryAt(h, m)
<1>1. TableAt(h) \in Nat /\ h.entry_num \in Nat /\ EntryLen \in Nat
  BY Places, VendorBootAssumption
<1>2. ASSUME NEW n \in Nat \ {0}
      PROVE  /\ EntryAt(h, n) = TableAt(h) + Entries(n - 1)
             /\ Entries(n - 1) \in Nat /\ Entries(n) \in Nat
             /\ Entries(n) = Entries(n - 1) + EntryLen
  <2>1. n - 1 \in Nat /\ (n - 1) + 1 = n
    OBVIOUS
  <2>2. Entries(n - 1) \in Nat /\ Entries((n - 1) + 1) = Entries(n - 1) + EntryLen
    BY <2>1, EntriesFacts
  <2> QED
    BY <1>1, <2>1, <2>2 DEF EntryAt
<1>3. ASSUME NEW n \in Nat \ {0} PROVE TableAt(h) <= EntryAt(h, n)
  BY <1>1, <1>2
<1>4. ASSUME NEW n \in Nat \ {0}, n <= h.entry_num
      PROVE  EntryAt(h, n) + EntryLen <= TableAt(h) + Entries(h.entry_num)
  <2>1. Entries(n) <= Entries(h.entry_num) /\ Entries(h.entry_num) \in Nat
    BY <1>1, <1>4, EntriesFacts
  <2> QED
    BY <1>1, <1>2, <2>1
<1>5. ASSUME NEW n \in Nat \ {0}, NEW m \in Nat \ {0}, n < m
      PROVE  EntryAt(h, n) + EntryLen <= EntryAt(h, m)
  <2>1. n <= m - 1 /\ m - 1 \in Nat /\ n \in Nat
    BY <1>5
  <2>2. Entries(n) <= Entries(m - 1)
    BY <2>1, EntriesFacts
  <2> QED
    BY <1>1, <1>2, <2>2
<1> QED
  BY <1>3, <1>4, <1>5

\* The cells that are not zeros in an image of this layout.
Used(h, p) ==
  \/ p = 1
  \/ p \in RamdiskAt(h) + 1 .. RamdiskAt(h) + h.ramdisk_size
  \/ p \in DtbAt(h) + 1 .. DtbAt(h) + h.dtb_size
  \/ p \in BootconfigAt(h) + 1 .. BootconfigAt(h) + h.bootconfig_size
  \/ \E n \in 1 .. h.entry_num : p = EntryAt(h, n) + 1

\* OwnLayout in the terms of the places above.
LEMMA OwnFacts ==
  ASSUME NEW f, Opened(f), OwnLayout(f)
  PROVE  LET h == f[1]
         IN  /\ h \in Header /\ h.version \in {3, 4} /\ h.page > 0 /\ f \in File
             /\ Len(f) = EndAt(h)
             /\ \A p \in 1 .. EndAt(h) : ~Used(h, p) => f[p] = Zero
             /\ h.version = 3 => h.entry_num = 0 /\ h.entry_size = 0 /\ h.bootconfig_size = 0
             /\ h.version = 4 =>
                  /\ WithTable(h) /\ h.entry_size = EntryLen
                  /\ EntryIn(f, 1).offset = 0
                  /\ \A n \in 1 .. h.entry_num :
                       /\ f[EntryAt(h, n) + 1] = EntryIn(f, n)
                       /\ EntryIn(f, n).type \in Known
                       /\ EntryIn(f, n).offset + EntryIn(f, n).size = PlaceIn(f, n + 1)
<1> DEFINE h == f[1]
<1>2. h \in Header /\ h.version \in {3, 4} /\ h.page > 0 /\ f \in File /\ h.entry_num \in Nat
  BY DEF Opened, Header
<1> DEFINE entryAt == [n \in 1 .. h.entry_num |-> TableAt(h) + (n - 1) * EntryLen + 1]
           used == {1} \cup (RamdiskAt(h) + 1 .. RamdiskAt(h) + h.ramdisk_size)
                       \cup (DtbAt(h) + 1 .. DtbAt(h) + h.dtb_size)
                       \cup (BootconfigAt(h) + 1 .. BootconfigAt(h) + h.bootconfig_size)
                       \cup {entryAt[n] : n \in 1 .. h.entry_num}
<1>3. /\ Len(f) = EndAt(h)
      /\ \A p \in 1 .. EndAt(h) : p \notin used => f[p] = Zero
      /\ IF h.version = 3
           THEN h.entry_num = 0 /\ h.entry_size = 0 /\ h.bootconfig_size = 0
           ELSE /\ h.entry_num > 0 /\ h.entry_size = EntryLen
                /\ f[entryAt[1]].offset = 0
                /\ \A n \in 1 .. h.entry_num :
                     /\ f[entryAt[n]].type \in Known
                     /\ f[entryAt[n]].offset + f[entryAt[n]].size =
                          IF n < h.entry_num THEN f[entryAt[n + 1]].offset
                          ELSE h.ramdisk_size
  BY Zenon DEF OwnLayout, EndAt, BootconfigAt, TableAt, DtbAt, RamdiskAt, Entries
<1>1. h = f[1]
  OBVIOUS
<1> HIDE DEF h
<1>4. \A n \in 1 .. h.entry_num : entryAt[n] = EntryAt(h, n) + 1
  BY DEF EntryAt, Entries
<1> HIDE DEF entryAt
<1>5. ASSUME NEW p \in 1 .. EndAt(h), ~Used(h, p) PROVE f[p] = Zero
  <2>1. p \notin used
    BY <1>4, <1>5 DEF Used
  <2> QED
    BY <1>3, <2>1
<1> HIDE DEF used
<1>6. ASSUME h.version = 4
      PROVE  /\ WithTable(h) /\ h.entry_size = EntryLen
             /\ EntryIn(f, 1).offset = 0
             /\ \A n \in 1 .. h.entry_num :
                  /\ f[EntryAt(h, n) + 1] = EntryIn(f, n)
                  /\ EntryIn(f, n).type \in Known
                  /\ EntryIn(f, n).offset + EntryIn(f, n).size = PlaceIn(f, n + 1)
  <2>1. h.entry_num > 0 /\ h.entry_size = EntryLen /\ WithTable(h) /\ 1 \in 1 .. h.entry_num
    BY <1>2, <1>3, <1>6 DEF WithTable
  <2>2. \A n \in 1 .. h.entry_num : f[entryAt[n]] = EntryIn(f, n)
    BY <1>1, <1>4, <2>1 DEF EntryIn, EntryAt, Entries
  <2>3. ASSUME NEW n \in 1 .. h.entry_num
        PROVE  EntryIn(f, n).offset + EntryIn(f, n).size = PlaceIn(f, n + 1)
    <3>1. n + 1 # 1 /\ (n < h.entry_num <=> n + 1 <= h.entry_num)
      BY <1>2
    <3>2. n < h.entry_num => n + 1 \in 1 .. h.entry_num
      BY <1>2
    <3>3. PlaceIn(f, n + 1) = IF n < h.entry_num THEN EntryIn(f, n + 1).offset
                              ELSE h.ramdisk_size
      BY <1>1, <2>1, <3>1 DEF PlaceIn
    <3>4. f[entryAt[n]].offset + f[entryAt[n]].size =
            IF n < h.entry_num THEN f[entryAt[n + 1]].offset ELSE h.ramdisk_size
      BY <1>3, <1>6
    <3> QED
      BY <2>2, <3>2, <3>3, <3>4
  <2>4. \A n \in 1 .. h.entry_num : EntryIn(f, n).type \in Known
    BY <1>3, <1>6, <2>2
  <2>5. EntryIn(f, 1).offset = 0
    BY <1>3, <1>6, <2>1, <2>2
  <2> QED
    BY <1>4, <2>1, <2>2, <2>3, <2>4, <2>5
<1>7. h.version = 3 => h.entry_num = 0 /\ h.entry_size = 0 /\ h.bootconfig_size = 0
  BY <1>3
<1> QED
  BY <1>1, <1>2, <1>3, <1>5, <1>6, <1>7

\* Between the parts there are zeros.
LEMMA OwnGaps ==
  ASSUME NEW f, Opened(f), OwnLayout(f)
  PROVE  LET h == f[1]
         IN  /\ Gap(f, 1, RamdiskAt(h))
             /\ Gap(f, RamdiskAt(h) + h.ramdisk_size, DtbAt(h))
             /\ Gap(f, DtbAt(h) + h.dtb_size, TableAt(h))
             /\ \A n \in 1 .. h.entry_num :
                  Gap(f, EntryAt(h, n) + 1, EntryAt(h, n) + EntryLen)
             /\ Gap(f, TableAt(h) + Entries(h.entry_num), BootconfigAt(h))
             /\ Gap(f, BootconfigAt(h) + h.bootconfig_size, EndAt(h))
<1>1. PICK h : h = f[1]
  OBVIOUS
<1>2. /\ h \in Header /\ h.version \in {3, 4} /\ h.page > 0
      /\ \A p \in 1 .. EndAt(h) : ~Used(h, p) => f[p] = Zero
  BY <1>1, OwnFacts
<1>3. /\ RamdiskAt(h) \in Nat \ {0} /\ DtbAt(h) \in Nat /\ TableAt(h) \in Nat
      /\ BootconfigAt(h) \in Nat /\ EndAt(h) \in Nat /\ Entries(h.entry_num) \in Nat
      /\ h.ramdisk_size \in Nat /\ h.dtb_size \in Nat /\ h.entry_num \in Nat
      /\ h.bootconfig_size \in Nat /\ EntryLen \in Nat \ {0}
      /\ RamdiskAt(h) + h.ramdisk_size <= DtbAt(h)
      /\ DtbAt(h) + h.dtb_size <= TableAt(h)
      /\ TableAt(h) + Entries(h.entry_num) <= BootconfigAt(h)
      /\ BootconfigAt(h) + h.bootconfig_size <= EndAt(h)
  <2>1. HeaderLen[h.version] \in Nat \ {0} /\ HeaderLen[h.version] <= RamdiskAt(h)
        /\ RamdiskAt(h) \in Nat
    BY <1>2, Places
  <2>2. RamdiskAt(h) \in Nat \ {0}
    BY <2>1
  <2> QED
    BY <1>2, <2>2, Places, VendorBootAssumption
<1>4. \A n \in 1 .. h.entry_num :
        /\ EntryAt(h, n) \in Nat /\ TableAt(h) <= EntryAt(h, n)
        /\ EntryAt(h, n) + EntryLen <= TableAt(h) + Entries(h.entry_num)
  <2> TAKE n \in 1 .. h.entry_num
  <2>1. n \in Nat \ {0} /\ n <= h.entry_num
    BY <1>3
  <2> QED
    BY <1>2, <2>1, EntryApart, EntryPlaces
<1> USE DEF Gap
<1>5. Gap(f, 1, RamdiskAt(h))
  <2> SUFFICES ASSUME NEW p \in 1 + 1 .. RamdiskAt(h) PROVE f[p] = Zero
    OBVIOUS
  <2>1. p \in 1 .. EndAt(h) /\ p <= RamdiskAt(h) /\ p > 1
    BY <1>3
  <2>2. ~Used(h, p)
    BY <1>3, <1>4, <2>1 DEF Used
  <2> QED
    BY <1>2, <2>1, <2>2
<1>6. Gap(f, RamdiskAt(h) + h.ramdisk_size, DtbAt(h))
  <2> SUFFICES ASSUME NEW p \in RamdiskAt(h) + h.ramdisk_size + 1 .. DtbAt(h)
               PROVE  f[p] = Zero
    OBVIOUS
  <2>1. p \in 1 .. EndAt(h) /\ p <= DtbAt(h) /\ p > RamdiskAt(h) + h.ramdisk_size
    BY <1>3
  <2>2. ~Used(h, p)
    BY <1>3, <1>4, <2>1 DEF Used
  <2> QED
    BY <1>2, <2>1, <2>2
<1>7. Gap(f, DtbAt(h) + h.dtb_size, TableAt(h))
  <2> SUFFICES ASSUME NEW p \in DtbAt(h) + h.dtb_size + 1 .. TableAt(h)
               PROVE  f[p] = Zero
    OBVIOUS
  <2>1. p \in 1 .. EndAt(h) /\ p <= TableAt(h) /\ p > DtbAt(h) + h.dtb_size
    BY <1>3
  <2>2. ~Used(h, p)
    BY <1>3, <1>4, <2>1 DEF Used
  <2> QED
    BY <1>2, <2>1, <2>2
<1>8. ASSUME NEW n \in 1 .. h.entry_num
      PROVE  Gap(f, EntryAt(h, n) + 1, EntryAt(h, n) + EntryLen)
  <2> SUFFICES ASSUME NEW p \in EntryAt(h, n) + 1 + 1 .. EntryAt(h, n) + EntryLen
               PROVE  f[p] = Zero
    OBVIOUS
  <2>0. /\ EntryAt(h, n) \in Nat /\ TableAt(h) <= EntryAt(h, n)
        /\ EntryAt(h, n) + EntryLen <= TableAt(h) + Entries(h.entry_num)
    BY <1>4
  <2>1. p \in 1 .. EndAt(h) /\ p <= BootconfigAt(h) /\ p > DtbAt(h) + h.dtb_size
        /\ p > EntryAt(h, n) + 1 /\ p <= EntryAt(h, n) + EntryLen
    BY <1>3, <2>0
  <2>2. ASSUME NEW m \in 1 .. h.entry_num PROVE p # EntryAt(h, m) + 1
    <3>1. n \in Nat \ {0} /\ m \in Nat \ {0} /\ EntryAt(h, m) \in Nat
      BY <1>3, <1>4
    <3>2. CASE m < n
      <4>1. EntryAt(h, m) + EntryLen <= EntryAt(h, n)
        BY <1>2, <3>1, <3>2, EntryApart
      <4> QED
        BY <1>3, <2>0, <2>1, <3>1, <4>1
    <3>3. CASE n < m
      <4>1. EntryAt(h, n) + EntryLen <= EntryAt(h, m)
        BY <1>2, <3>1, <3>3, EntryApart
      <4> QED
        BY <1>3, <2>0, <2>1, <3>1, <4>1
    <3>4. CASE n = m
      BY <2>0, <2>1, <3>4
    <3> QED
      BY <3>1, <3>2, <3>3, <3>4
  <2>3. ~Used(h, p)
    BY <1>3, <2>1, <2>2 DEF Used
  <2> QED
    BY <1>2, <2>1, <2>3
<1>9. Gap(f, TableAt(h) + Entries(h.entry_num), BootconfigAt(h))
  <2> SUFFICES ASSUME NEW p \in TableAt(h) + Entries(h.entry_num) + 1 .. BootconfigAt(h)
               PROVE  f[p] = Zero
    OBVIOUS
  <2>1. p \in 1 .. EndAt(h) /\ p <= BootconfigAt(h)
        /\ p > TableAt(h) + Entries(h.entry_num)
    BY <1>3
  <2>3. ASSUME NEW n \in 1 .. h.entry_num PROVE p # EntryAt(h, n) + 1
    BY <1>3, <1>4, <2>1
  <2>2. ~Used(h, p)
    BY <1>3, <2>1, <2>3 DEF Used
  <2> QED
    BY <1>2, <2>1, <2>2
<1>10. Gap(f, BootconfigAt(h) + h.bootconfig_size, EndAt(h))
  <2> SUFFICES ASSUME NEW p \in BootconfigAt(h) + h.bootconfig_size + 1 .. EndAt(h)
               PROVE  f[p] = Zero
    OBVIOUS
  <2>0. /\ p \in Nat /\ p <= EndAt(h) /\ p > BootconfigAt(h) + h.bootconfig_size
        /\ p > TableAt(h) + Entries(h.entry_num)
    BY <1>3
  <2>1. /\ p \in 1 .. EndAt(h) /\ p > BootconfigAt(h) + h.bootconfig_size
        /\ p > TableAt(h) + Entries(h.entry_num) /\ p > DtbAt(h) + h.dtb_size
        /\ p > RamdiskAt(h) + h.ramdisk_size /\ p > 1
    BY <1>3, <2>0
  <2>2. \A n \in 1 .. h.entry_num : p # EntryAt(h, n) + 1
    BY <1>3, <1>4, <2>1
  <2>3. ~Used(h, p)
    BY <1>3, <2>1, <2>2 DEF Used
  <2> QED
    BY <1>2, <2>1, <2>3
<1> HIDE DEF Gap
<1> QED
  BY <1>1, <1>5, <1>6, <1>7, <1>8, <1>9, <1>10

\* A part put where the file has it, before zeros, gives what the file has.
LEMMA PutAgain ==
  ASSUME NEW f, NEW v \in File, NEW t \in File, NEW p \in Nat \ {0},
         Holds(f, 0, v), Holds(f, Len(v), t),
         Gap(f, Len(v) + Len(t), AlignUp(Len(v) + Len(t), p))
  PROVE  Holds(f, 0, Padded(v \o t, p))
<1>1. v \in Seq(Cell) /\ t \in Seq(Cell) /\ Len(v) \in Nat /\ Len(t) \in Nat
  BY FileFacts, LenProperties
<1>2. /\ v \o t \in Seq(Cell) /\ Len(v \o t) = Len(v) + Len(t)
      /\ \A i \in 1 .. Len(v) + Len(t) :
           (v \o t)[i] = IF i <= Len(v) THEN v[i] ELSE t[i - Len(v)]
  BY <1>1, ConcatProperties
<1>3. PICK u : u = v \o t
  OBVIOUS
<1>4. PICK n : n = AlignUp(Len(v) + Len(t), p)
  OBVIOUS
<1>5. /\ u \in Seq(Cell) /\ Len(u) = Len(v) + Len(t) /\ Len(u) \in Nat
      /\ n \in Nat /\ Len(u) <= n
  <2>1. Len(v) + Len(t) \in Nat
    BY <1>1
  <2>2. n \in Nat /\ Len(v) + Len(t) <= n
    BY <1>4, <2>1, AlignUpFacts
  <2> QED
    BY <1>2, <1>3, <2>1, <2>2
<1>6. /\ Len(Padded(u, p)) = n
      /\ \A i \in 1 .. Len(u) : Padded(u, p)[i] = u[i]
      /\ \A i \in Len(u) + 1 .. n : Padded(u, p)[i] = Zero
  <2>1. Len(Padded(u, p)) = n /\ \A i \in 1 .. Len(u) : Padded(u, p)[i] = u[i]
    BY <1>4, <1>5, FileFacts, PaddedFacts
  <2>2. \A i \in Len(u) + 1 .. n : Padded(u, p)[i] = Zero
    BY <1>4, <1>5, FileFacts, PaddedZeros
  <2> QED
    BY <2>1, <2>2
<1>7. ASSUME NEW i \in 1 .. n PROVE f[0 + i] = Padded(u, p)[i]
  <2>1. CASE i <= Len(v)
    <3>1. i \in 1 .. Len(v) /\ i \in 1 .. Len(u) /\ i \in 1 .. Len(v) + Len(t)
      BY <1>1, <1>5, <2>1
    <3>2. u[i] = v[i]
      BY <1>2, <1>3, <2>1, <3>1
    <3> QED
      BY <1>6, <3>1, <3>2 DEF Holds
  <2>2. CASE i > Len(v) /\ i <= Len(u)
    <3>1. i \in 1 .. Len(u) /\ i \in 1 .. Len(v) + Len(t) /\ ~(i <= Len(v))
          /\ i - Len(v) \in 1 .. Len(t) /\ Len(v) + (i - Len(v)) = i /\ 0 + i = i
      BY <1>1, <1>5, <2>2
    <3>2. u[i] = t[i - Len(v)]
      BY <1>2, <1>3, <3>1
    <3>3. f[i] = t[i - Len(v)]
      BY <3>1 DEF Holds
    <3> QED
      BY <1>6, <3>1, <3>2, <3>3
  <2>3. CASE i > Len(u)
    <3>1. i \in Len(u) + 1 .. n /\ i \in Len(v) + Len(t) + 1 .. n /\ 0 + i = i
      BY <1>5, <2>3
    <3> QED
      BY <1>4, <1>6, <3>1 DEF Gap
  <2> QED
    BY <1>1, <1>5, <2>1, <2>2, <2>3
<1>8. Holds(f, 0, Padded(u, p))
  BY <1>6, <1>7 DEF Holds
<1> QED
  BY <1>3, <1>8

\* align() alone.
LEMMA PadAgain ==
  ASSUME NEW f, NEW v \in File, NEW p \in Nat \ {0}, Holds(f, 0, v),
         Gap(f, Len(v), AlignUp(Len(v), p))
  PROVE  Holds(f, 0, Padded(v, p))
<1>1. v \in Seq(Cell) /\ Len(v) \in Nat
  BY FileFacts, LenProperties
<1>2. PICK n : n = AlignUp(Len(v), p)
  OBVIOUS
<1>3. n \in Nat
  BY <1>1, <1>2, AlignUpFacts
<1>4. Len(Padded(v, p)) = n /\ \A i \in 1 .. Len(v) : Padded(v, p)[i] = v[i]
  BY <1>1, <1>2, FileFacts, PaddedFacts
<1>5. \A i \in Len(v) + 1 .. n : Padded(v, p)[i] = Zero
  BY <1>1, <1>2, FileFacts, PaddedZeros
<1>6. ASSUME NEW i \in 1 .. n PROVE f[0 + i] = Padded(v, p)[i]
  <2>1. i \in 1 .. Len(v) \/ i \in Len(v) + 1 .. n
    BY <1>1, <1>3
  <2> QED
    BY <1>2, <1>3, <1>4, <1>5, <2>1 DEF Holds, Gap
<1> QED
  BY <1>4, <1>6 DEF Holds

\* The fragments of such an image follow one another in the section.
LEMMA OwnFragments ==
  ASSUME NEW f, NEW c \in Content, ReadFrom(f, c), OwnLayout(f)
  PROVE  /\ Len(c.frags) \in Nat /\ PlaceIn(f, 1) = 0
         /\ PlaceIn(f, Len(c.frags) + 1) = f[1].ramdisk_size
         /\ f[1].version = 4 => Len(c.frags) = f[1].entry_num
         /\ \A n \in 1 .. Len(c.frags) :
              /\ c.frags[n].data \in File /\ Len(c.frags[n].data) \in Nat
              /\ PlaceIn(f, n) \in Nat
              /\ PlaceIn(f, n + 1) = PlaceIn(f, n) + Len(c.frags[n].data)
              /\ Holds(Ramdisk(f), PlaceIn(f, n), c.frags[n].data)
<1>1. PICK h : h = f[1]
  OBVIOUS
<1>2. PICK r : r = Ramdisk(f)
  OBVIOUS
<1>3. /\ h \in Header /\ h.version \in {3, 4} /\ h.page > 0 /\ h.entry_num \in Nat
      /\ h.ramdisk_size \in Nat
      /\ h.version = 3 => h.entry_num = 0
      /\ h.version = 4 =>
           /\ WithTable(h) /\ EntryIn(f, 1).offset = 0
           /\ \A n \in 1 .. h.entry_num :
                EntryIn(f, n).offset + EntryIn(f, n).size = PlaceIn(f, n + 1)
  <2>1. Opened(f)
    BY DEF ReadFrom
  <2> QED
    BY <1>1, <2>1, OwnFacts DEF Header
<1>4. Len(r) = h.ramdisk_size
  <2>1. RamdiskAt(h) \in Nat
    BY <1>3, Places
  <2> QED
    BY <1>1, <1>2, <1>3, <2>1, CellsAt DEF Ramdisk
<1>5. /\ c.frags \in Seq(Fragment) /\ Len(c.frags) \in Nat
      /\ \A n \in 1 .. Len(c.frags) : c.frags[n].data \in File
  <2>1. c.frags \in Seq(Fragment)
    BY DEF Content
  <2>2. \A n \in 1 .. Len(c.frags) : c.frags[n] \in Fragment
    BY <2>1, ElementOfSeq
  <2> QED
    BY <2>1, <2>2, LenProperties DEF Fragment
<1>6. PlaceIn(f, 1) = 0
  BY DEF PlaceIn
<1>7. \A n \in 1 .. Len(c.frags) : Len(c.frags[n].data) \in Nat
  BY <1>5, FileFacts, LenProperties
<1>8. CASE h.version = 4
  <2>1. /\ Len(c.frags) = h.entry_num /\ WithTable(h) /\ h.entry_num > 0
        /\ \A n \in 1 .. h.entry_num :
             EntryIn(f, n) \in Entry /\ c.frags[n] = FragmentIn(f, n)
    BY <1>1, <1>3, <1>8 DEF ReadFrom, WithTable
  <2>2. PlaceIn(f, Len(c.frags) + 1) = h.ramdisk_size
    BY <1>1, <1>3, <2>1 DEF PlaceIn
  <2>3. ASSUME NEW n \in 1 .. Len(c.frags)
        PROVE  /\ PlaceIn(f, n) \in Nat
               /\ PlaceIn(f, n + 1) = PlaceIn(f, n) + Len(c.frags[n].data)
               /\ Holds(r, PlaceIn(f, n), c.frags[n].data)
    <3>1. PICK e : e = EntryIn(f, n)
      OBVIOUS
    <3>2. e \in Entry /\ c.frags[n] = FragmentIn(f, n) /\ e.offset \in Nat /\ e.size \in Nat
      BY <2>1, <3>1 DEF Entry
    <3>3. PlaceIn(f, n) = e.offset
      BY <1>1, <1>3, <1>8, <2>1, <3>1 DEF PlaceIn
    <3>4. c.frags[n].data = Cells(r, e.offset, e.size)
      <4>1. FragmentIn(f, n) = [type |-> e.type, data |-> Cells(r, e.offset, e.size)]
        BY <1>2, <3>1 DEF FragmentIn, Cells
      <4> QED
        BY <3>2, <4>1
    <3>5. /\ Len(c.frags[n].data) = e.size
          /\ \A i \in 1 .. e.size : c.frags[n].data[i] = r[e.offset + i]
      <4>1. PICK d : d = Cells(r, e.offset, e.size)
        OBVIOUS
      <4>2. Len(d) = e.size /\ \A i \in 1 .. e.size : d[i] = r[e.offset + i]
        BY <3>2, <4>1, CellsAt
      <4> QED
        BY <3>4, <4>1, <4>2
    <3>6. Holds(r, e.offset, c.frags[n].data)
      BY <3>5 DEF Holds
    <3>7. PlaceIn(f, n + 1) = e.offset + e.size
      BY <1>3, <1>8, <2>1, <3>1
    <3> QED
      BY <3>2, <3>3, <3>5, <3>6, <3>7
  <2> QED
    BY <1>1, <1>2, <1>5, <1>6, <1>7, <2>1, <2>2, <2>3
<1>9. CASE h.version = 3
  <2>1. ~WithTable(h) /\ c.frags = <<[type |-> "none", data |-> r]>>
    BY <1>1, <1>2, <1>9 DEF ReadFrom, WithTable
  <2>2. Len(c.frags) = 1 /\ c.frags[1].data = r
    BY <2>1
  <2>3. PlaceIn(f, 2) = h.ramdisk_size
    BY <1>1, <2>1 DEF PlaceIn
  <2>4. Holds(r, 0, r)
    BY <1>3, <1>4 DEF Holds
  <2>5. \A n \in 1 .. Len(c.frags) : n = 1 /\ n + 1 = 2
    BY <2>2
  <2>6. Len(c.frags) + 1 = 2
    BY <2>2
  <2> QED
    BY <1>1, <1>2, <1>3, <1>4, <1>5, <1>6, <1>7, <1>9, <2>2, <2>3, <2>4, <2>5, <2>6
<1> QED
  BY <1>3, <1>8, <1>9

\* The header build makes of it is the one it has.
LEMMA OwnHeader ==
  ASSUME NEW f, NEW c \in Content, ReadFrom(f, c), OwnLayout(f)
  PROVE  /\ HeaderFor(c, f[1].ramdisk_size) = f[1]
         /\ Holds(f, DtbAt(f[1]), c.dtb)
         /\ f[1].version = 4 => Holds(f, BootconfigAt(f[1]), c.bootconfig)
<1>1. PICK h : h = f[1]
  OBVIOUS
<1>2. /\ h \in Header /\ h.version \in {3, 4} /\ h.page > 0
      /\ h.version = 3 => h.entry_num = 0 /\ h.entry_size = 0 /\ h.bootconfig_size = 0
      /\ h.version = 4 => WithTable(h) /\ h.entry_size = EntryLen
  <2>1. Opened(f)
    BY DEF ReadFrom
  <2> QED
    BY <1>1, <2>1, OwnFacts
<1>3. c.version = h.version /\ c.page = h.page /\ c.dtb = Cells(f, DtbAt(h), h.dtb_size)
  BY <1>1 DEF ReadFrom
<1>4. DtbAt(h) \in Nat /\ BootconfigAt(h) \in Nat /\ h.dtb_size \in Nat
      /\ h.bootconfig_size \in Nat
  BY <1>2, Places
<1>5. Len(c.dtb) = h.dtb_size /\ Holds(f, DtbAt(h), c.dtb)
  <2>1. PICK d : d = Cells(f, DtbAt(h), h.dtb_size)
    OBVIOUS
  <2>2. Len(d) = h.dtb_size /\ \A i \in 1 .. h.dtb_size : d[i] = f[DtbAt(h) + i]
    BY <1>4, <2>1, CellsAt
  <2> QED
    BY <1>3, <2>1, <2>2 DEF Holds
<1>6. ASSUME h.version = 4
      PROVE  /\ Len(c.frags) = h.entry_num /\ Len(c.bootconfig) = h.bootconfig_size
             /\ Holds(f, BootconfigAt(h), c.bootconfig)
  <2>1. Len(c.frags) = h.entry_num /\ c.bootconfig = Cells(f, TableEndIn(h), h.bootconfig_size)
    BY <1>1, <1>2, <1>6 DEF ReadFrom
  <2>2. TableEndIn(h) = BootconfigAt(h)
    BY <1>2, <1>6 DEF TableEndIn, BootconfigAt, Entries
  <2>3. PICK b : b = Cells(f, BootconfigAt(h), h.bootconfig_size)
    OBVIOUS
  <2>4. Len(b) = h.bootconfig_size
        /\ \A i \in 1 .. h.bootconfig_size : b[i] = f[BootconfigAt(h) + i]
    BY <1>4, <2>3, CellsAt
  <2> QED
    BY <2>1, <2>2, <2>3, <2>4 DEF Holds
<1>7. HeaderFor(c, h.ramdisk_size) = h
  <2>1. HeaderFor(c, h.ramdisk_size) =
          [version |-> h.version, page |-> h.page, ramdisk_size |-> h.ramdisk_size,
           dtb_size |-> h.dtb_size, entry_num |-> h.entry_num,
           entry_size |-> h.entry_size, bootconfig_size |-> h.bootconfig_size]
    <3>1. (IF c.page = 0 THEN DefaultPage ELSE c.page) = h.page
      BY <1>2, <1>3
    <3>2. (IF c.version = 4 THEN Len(c.frags) ELSE 0) = h.entry_num
      BY <1>2, <1>3, <1>6
    <3>3. (IF c.version = 4 THEN EntryLen ELSE 0) = h.entry_size
      BY <1>2, <1>3
    <3>4. (IF c.version = 4 THEN Len(c.bootconfig) ELSE 0) = h.bootconfig_size
      BY <1>2, <1>3, <1>6
    <3> QED
      BY <1>3, <1>5, <3>1, <3>2, <3>3, <3>4 DEF HeaderFor
  <2> QED
    BY <1>2, <2>1 DEF Header
<1> QED
  BY <1>1, <1>5, <1>6, <1>7

\* The entry build makes of a fragment is the one it was read from.
LEMMA OwnEntry ==
  ASSUME NEW f, NEW c \in Content, ReadFrom(f, c), OwnLayout(f), f[1].version = 4,
         NEW n \in 1 .. Len(c.frags)
  PROVE  [size |-> Len(c.frags[n].data), offset |-> PlaceIn(f, n),
          type |-> Named(c.frags[n].type)] = f[EntryAt(f[1], n) + 1]
<1>1. PICK h : h = f[1]
  OBVIOUS
<1>2. PICK e : e = EntryIn(f, n)
  OBVIOUS
<1>3. Opened(f)
  BY DEF ReadFrom
<1>4. Len(c.frags) = h.entry_num /\ Len(c.frags) \in Nat
  BY <1>1, OwnFragments
<1>5. WithTable(h) /\ EntryIn(f, 1).offset = 0 /\ f[EntryAt(h, n) + 1] = e /\ e.type \in Known
  BY <1>1, <1>2, <1>3, <1>4, OwnFacts
<1>6. e \in Entry /\ c.frags[n] = FragmentIn(f, n)
  BY <1>1, <1>2, <1>4, <1>5 DEF ReadFrom
<1>7. e.size \in Nat /\ e.offset \in Nat
  BY <1>6 DEF Entry
<1>8. PlaceIn(f, n) = e.offset
  BY <1>1, <1>2, <1>4, <1>5 DEF PlaceIn
<1>9. FragmentIn(f, n) = [type |-> e.type, data |-> Cells(Ramdisk(f), e.offset, e.size)]
  BY <1>2 DEF FragmentIn, Cells
<1>10. Len(c.frags[n].data) = e.size
  <2>1. PICK d : d = Cells(Ramdisk(f), e.offset, e.size)
    OBVIOUS
  <2>2. Len(d) = e.size
    BY <1>7, <2>1, CellsAt
  <2> QED
    BY <1>6, <1>9, <2>1, <2>2
<1>11. Named(c.frags[n].type) = e.type
  BY <1>5, <1>6, <1>9 DEF Named
<1>12. e = [size |-> e.size, offset |-> e.offset, type |-> e.type]
  BY <1>6 DEF Entry
<1> QED
  BY <1>1, <1>5, <1>8, <1>10, <1>11, <1>12

LEMMA HoldsNext ==
  ASSUME NEW f, NEW v \in File, NEW t \in File, Holds(f, 0, v), Holds(f, Len(v), t)
  PROVE  /\ Holds(f, 0, v \o t) /\ v \o t \in File
         /\ Len(v \o t) = Len(v) + Len(t) /\ Len(v) \in Nat /\ Len(t) \in Nat
<1>1. v \in Seq(Cell) /\ t \in Seq(Cell) /\ Len(v) \in Nat /\ Len(t) \in Nat
  BY FileFacts, LenProperties
<1>2. PICK u : u = v \o t
  OBVIOUS
<1>3. /\ u \in Seq(Cell) /\ Len(u) = Len(v) + Len(t)
      /\ \A i \in 1 .. Len(v) + Len(t) : u[i] = IF i <= Len(v) THEN v[i] ELSE t[i - Len(v)]
  BY <1>1, <1>2, ConcatProperties
<1>4. ASSUME NEW i \in 1 .. Len(u) PROVE f[0 + i] = u[i]
  <2>1. CASE i <= Len(v)
    <3>1. i \in 1 .. Len(v) /\ i \in 1 .. Len(v) + Len(t)
      BY <1>1, <1>3, <2>1
    <3> QED
      BY <1>3, <2>1, <3>1 DEF Holds
  <2>2. CASE ~(i <= Len(v))
    <3>1. i - Len(v) \in 1 .. Len(t) /\ i \in 1 .. Len(v) + Len(t)
          /\ Len(v) + (i - Len(v)) = 0 + i
      BY <1>1, <1>3, <2>2
    <3>2. f[Len(v) + (i - Len(v))] = t[i - Len(v)]
      BY <3>1 DEF Holds
    <3> QED
      BY <1>3, <2>2, <3>1, <3>2
  <2> QED
    BY <2>1, <2>2
<1> QED
  BY <1>1, <1>2, <1>3, <1>4, FileFacts DEF Holds

\* A file begins with all of itself only.
LEMMA HoldsAll ==
  ASSUME NEW f \in File, NEW v \in File, Holds(f, 0, v), Len(v) = Len(f)
  PROVE  v = f
<1>1. v \in Seq(Cell) /\ f \in Seq(Cell) /\ Len(v) \in Nat
  BY FileFacts, LenProperties
<1>2. \A i \in 1 .. Len(v) : f[i] = v[i]
  BY <1>1 DEF Holds
<1> QED
  BY <1>1, <1>2, SeqEqual

\* What is known of the file while it is built again.
LEMMA Again ==
  ASSUME IInv, stage \in Editing, NEW f, f = file, f # Null, OwnLayout(f)
  PROVE  /\ f \in File /\ Opened(f) /\ ReadFrom(f, img) /\ img \in Content
         /\ f[1] \in Header /\ f[1].version \in {3, 4} /\ f[1].page > 0
         /\ f[1].page \in Nat \ {0} /\ PageSize = f[1].page /\ img.version = f[1].version
         /\ Ramdisk(f) \in File /\ Len(Ramdisk(f)) = f[1].ramdisk_size
         /\ Holds(f, RamdiskAt(f[1]), Ramdisk(f))
         /\ w \in File /\ section \in File /\ at \in Nat \ {0}
<1>1. /\ f \in File /\ Opened(f) /\ ReadFrom(f, img) /\ img \in Content
      /\ w \in File /\ section \in File /\ at \in Nat \ {0}
  BY DEF IInv, RoundInv, Typed, TypeOK, Editing, ReadFrom
<1>2. PICK h : h = f[1]
  OBVIOUS
<1>3. h \in Header /\ h.version \in {3, 4} /\ h.page > 0
  BY <1>1, <1>2 DEF Opened
<1>4. img.version = h.version /\ img.page = h.page
  BY <1>1, <1>2 DEF ReadFrom
<1>5. h.page \in Nat \ {0} /\ PageSize = h.page
  BY <1>3, <1>4 DEF PageSize, Header
<1>6. /\ RamdiskAt(h) \in Nat /\ h.ramdisk_size \in Nat
      /\ RamdiskAt(h) + h.ramdisk_size <= EndAt(h)
  <2>1. /\ RamdiskAt(h) \in Nat /\ h.ramdisk_size \in Nat /\ DtbAt(h) \in Nat
        /\ h.dtb_size \in Nat /\ TableAt(h) \in Nat /\ Entries(h.entry_num) \in Nat
        /\ BootconfigAt(h) \in Nat /\ h.bootconfig_size \in Nat /\ EndAt(h) \in Nat
        /\ RamdiskAt(h) + h.ramdisk_size <= DtbAt(h)
        /\ DtbAt(h) + h.dtb_size <= TableAt(h)
        /\ TableAt(h) + Entries(h.entry_num) <= BootconfigAt(h)
        /\ BootconfigAt(h) + h.bootconfig_size <= EndAt(h)
    BY <1>3, Places
  <2> QED
    BY <2>1
<1>7. PICK r : r = Ramdisk(f)
  OBVIOUS
<1>8. r = Cells(f, RamdiskAt(h), h.ramdisk_size)
  BY <1>2, <1>7 DEF Ramdisk
<1>9. r \in File
  <2>1. Len(f) = EndAt(h)
    BY <1>1, <1>2, OwnFacts
  <2> QED
    BY <1>1, <1>6, <1>8, <2>1, CellsInFile
<1>10. Len(r) = h.ramdisk_size /\ \A i \in 1 .. h.ramdisk_size : r[i] = f[RamdiskAt(h) + i]
  BY <1>6, <1>8, CellsAt
<1>11. Holds(f, RamdiskAt(h), r)
  BY <1>10 DEF Holds
<1> QED
  BY <1>1, <1>2, <1>3, <1>4, <1>5, <1>7, <1>9, <1>10, <1>11

LEMMA ConcatFollows ==
  ASSUME IInv, NEW f, f = file, f # Null, OwnLayout(f), Follows(f), Concat
  PROVE  Follows(f)'
<1>1. /\ stage = "concat" /\ at <= Len(img.frags) /\ section' = section \o img.frags[at].data
      /\ at' = at + 1 /\ stage' = "concat" /\ img' = img /\ result' = result
  BY DEF Concat
<1>2. /\ ReadFrom(f, img) /\ img \in Content /\ section \in File /\ at \in Nat \ {0}
  BY <1>1, Again DEF Editing
<1>3. PICK d : d = img.frags[at].data
  OBVIOUS
<1>4. Len(img.frags) \in Nat
  BY <1>2, OwnFragments
<1>5. at \in 1 .. Len(img.frags)
  BY <1>1, <1>2, <1>4
<1>6. /\ d \in File /\ PlaceIn(f, at + 1) = PlaceIn(f, at) + Len(d)
      /\ Holds(Ramdisk(f), PlaceIn(f, at), d)
  BY <1>2, <1>3, <1>5, OwnFragments
<1>7. Len(section) = PlaceIn(f, at) /\ Holds(Ramdisk(f), 0, section)
  BY <1>1 DEF Follows
<1>8. Holds(Ramdisk(f), 0, section \o d) /\ Len(section \o d) = Len(section) + Len(d)
  BY <1>2, <1>6, <1>7, HoldsNext
<1>9. Len(section') = PlaceIn(f, at + 1) /\ Holds(Ramdisk(f), 0, section')
  BY <1>1, <1>3, <1>6, <1>7, <1>8
<1>10. at + 1 <= Len(img.frags) + 1
  BY <1>1, <1>2, <1>4
<1>11. result = "none"
  BY <1>1 DEF IInv, Typed
<1> QED
  BY <1>1, <1>9, <1>10, <1>11 DEF Follows

LEMMA PutHeaderFollows ==
  ASSUME IInv, NEW f, f = file, f # Null, OwnLayout(f), Follows(f), PutHeader
  PROVE  Follows(f)'
<1>1. /\ stage = "concat" /\ at > Len(img.frags) /\ stage' = "put_ramdisk"
      /\ section' = section /\ result' = result
      /\ w' = Padded(<<HeaderOf(IF img.version = 4 THEN Len(img.frags) ELSE 0)>>
                       \o Zeros(HeaderLen[img.version] - 1), PageSize)
  BY DEF PutHeader
<1>2. PICK h : h = f[1]
  OBVIOUS
<1>3. /\ f \in File /\ Opened(f) /\ ReadFrom(f, img) /\ img \in Content
      /\ h \in Header /\ h.version \in {3, 4} /\ h.page > 0 /\ h.page \in Nat \ {0}
      /\ PageSize = h.page /\ img.version = h.version
      /\ Ramdisk(f) \in File /\ Len(Ramdisk(f)) = h.ramdisk_size
      /\ section \in File /\ at \in Nat \ {0}
  BY <1>1, <1>2, Again DEF Editing
<1>4. section = Ramdisk(f)
  <2>1. Len(img.frags) \in Nat /\ PlaceIn(f, Len(img.frags) + 1) = h.ramdisk_size
    BY <1>2, <1>3, OwnFragments
  <2>2. at <= Len(img.frags) + 1 /\ Len(section) = PlaceIn(f, at)
        /\ Holds(Ramdisk(f), 0, section)
    BY <1>1 DEF Follows
  <2>3. at = Len(img.frags) + 1
    BY <1>1, <1>3, <2>1, <2>2
  <2> QED
    BY <1>3, <2>1, <2>2, <2>3, HoldsAll
<1>5. HeaderOf(IF img.version = 4 THEN Len(img.frags) ELSE 0) = h
  <2>1. HeaderOf(IF img.version = 4 THEN Len(img.frags) ELSE 0) = HeaderFor(img, Len(section))
    BY <1>1, BuildHeader DEF IInv, Editing
  <2>2. HeaderFor(img, h.ramdisk_size) = h
    BY <1>2, <1>3, OwnHeader
  <2> QED
    BY <1>3, <1>4, <2>1, <2>2
<1>6. PICK n : n = HeaderLen[h.version]
  OBVIOUS
<1>7. n \in Nat \ {0} /\ n <= RamdiskAt(h) /\ RamdiskAt(h) \in Nat
  BY <1>3, <1>6, Places
<1>8. PICK v : v = <<h>> \o Zeros(n - 1)
  OBVIOUS
<1>9. /\ v \in File /\ Len(v) = n /\ v[1] = h /\ \A i \in 2 .. n : v[i] = Zero
  BY <1>3, <1>7, <1>8, FileFacts, OneCell
<1>10. w' = Padded(v, h.page)
  BY <1>1, <1>3, <1>5, <1>6, <1>8
<1>11. RamdiskAt(h) = AlignUp(Len(v), h.page)
  BY <1>6, <1>9 DEF RamdiskAt
<1>12. Gap(f, 1, RamdiskAt(h))
  BY <1>2, <1>3, OwnGaps
<1>13. Holds(f, 0, v)
  <2> SUFFICES ASSUME NEW i \in 1 .. n PROVE f[0 + i] = v[i]
    BY <1>9 DEF Holds
  <2>1. CASE i = 1
    BY <1>2, <1>9, <2>1
  <2>2. CASE i # 1
    <3>1. i \in 2 .. n /\ i \in 1 + 1 .. RamdiskAt(h) /\ 0 + i = i
      BY <1>7, <2>2
    <3> QED
      BY <1>9, <1>12, <3>1 DEF Gap
  <2> QED
    BY <2>1, <2>2
<1>14. Gap(f, Len(v), AlignUp(Len(v), h.page))
  <2>1. \A p \in n + 1 .. RamdiskAt(h) : p \in 1 + 1 .. RamdiskAt(h)
    BY <1>7
  <2> QED
    BY <1>9, <1>11, <1>12, <2>1 DEF Gap
<1>15. Holds(f, 0, w')
  BY <1>3, <1>9, <1>10, <1>13, <1>14, PadAgain
<1>16. Len(w') = RamdiskAt(h)
  BY <1>3, <1>9, <1>10, <1>11, PadPart
<1>17. result = "none"
  BY <1>1 DEF IInv, Typed
<1> QED
  BY <1>1, <1>2, <1>4, <1>15, <1>16, <1>17 DEF Follows

LEMMA PutRamdiskFollows ==
  ASSUME IInv, NEW f, f = file, f # Null, OwnLayout(f), Follows(f), PutRamdisk
  PROVE  Follows(f)'
<1>1. /\ stage = "put_ramdisk" /\ stage' = "put_dtb" /\ section' = section
      /\ result' = result /\ w' = Padded(w \o section, PageSize)
  BY DEF PutRamdisk
<1>2. PICK h : h = f[1]
  OBVIOUS
<1>3. /\ Opened(f) /\ h.page \in Nat \ {0} /\ PageSize = h.page
      /\ Len(Ramdisk(f)) = h.ramdisk_size /\ Holds(f, RamdiskAt(h), Ramdisk(f))
      /\ w \in File /\ section \in File
  BY <1>1, <1>2, Again DEF Editing
<1>4. section = Ramdisk(f) /\ Holds(f, 0, w) /\ Len(w) = RamdiskAt(h)
  BY <1>1, <1>2 DEF Follows
<1>5. Holds(f, Len(w), section) /\ Len(section) = h.ramdisk_size
  BY <1>3, <1>4
<1>6. AlignUp(Len(w) + Len(section), h.page) = DtbAt(h)
  BY <1>4, <1>5 DEF DtbAt
<1>7. Gap(f, Len(w) + Len(section), AlignUp(Len(w) + Len(section), h.page))
  <2>1. Gap(f, RamdiskAt(h) + h.ramdisk_size, DtbAt(h))
    BY <1>2, <1>3, OwnGaps
  <2> QED
    BY <1>4, <1>5, <1>6, <2>1
<1>8. Holds(f, 0, Padded(w \o section, h.page))
  BY <1>3, <1>4, <1>5, <1>7, PutAgain
<1>9. Len(Padded(w \o section, h.page)) = DtbAt(h)
  BY <1>3, <1>6, PutPart
<1>10. result = "none"
  BY <1>1 DEF IInv, Typed
<1> QED
  BY <1>1, <1>2, <1>3, <1>4, <1>8, <1>9, <1>10 DEF Follows

LEMMA PutDtbFollows ==
  ASSUME IInv, NEW f, f = file, f # Null, OwnLayout(f), Follows(f), PutDtb
  PROVE  Follows(f)'
<1>1. /\ stage = "put_dtb" /\ section' = section /\ result' = result /\ at' = at
      /\ running' = running /\ img' = img /\ w' = Padded(w \o img.dtb, PageSize)
      /\ stage' = (IF img.version = 4 THEN "put_table" ELSE "take")
  BY DEF PutDtb
<1>2. PICK h : h = f[1]
  OBVIOUS
<1>3. /\ f \in File /\ Opened(f) /\ ReadFrom(f, img) /\ img \in Content
      /\ h \in Header /\ h.version \in {3, 4} /\ h.page > 0 /\ h.page \in Nat \ {0}
      /\ PageSize = h.page /\ img.version = h.version /\ w \in File /\ img.dtb \in File
  BY <1>1, <1>2, Again DEF Editing, Content
<1>4. section = Ramdisk(f) /\ Holds(f, 0, w) /\ Len(w) = DtbAt(h)
  BY <1>1, <1>2 DEF Follows
<1>5. PICK d : d = img.dtb
  OBVIOUS
<1>6. d \in File /\ Holds(f, Len(w), d) /\ Len(d) = h.dtb_size
  <2>1. HeaderFor(img, h.ramdisk_size) = h /\ Holds(f, DtbAt(h), img.dtb)
    BY <1>2, <1>3, OwnHeader
  <2>2. h.dtb_size = Len(img.dtb)
    BY <2>1 DEF HeaderFor
  <2> QED
    BY <1>3, <1>4, <1>5, <2>1, <2>2
<1>7. AlignUp(Len(w) + Len(d), h.page) = TableAt(h)
  BY <1>4, <1>6 DEF TableAt
<1>8. Gap(f, Len(w) + Len(d), AlignUp(Len(w) + Len(d), h.page))
  <2>1. Gap(f, DtbAt(h) + h.dtb_size, TableAt(h))
    BY <1>2, <1>3, OwnGaps
  <2> QED
    BY <1>4, <1>6, <1>7, <2>1
<1>9. w' = Padded(w \o d, h.page)
  BY <1>1, <1>3, <1>5
<1>10. Holds(f, 0, w')
  BY <1>3, <1>4, <1>6, <1>8, <1>9, PutAgain
<1>11. Len(w') = TableAt(h) /\ w' \in File
  BY <1>3, <1>6, <1>7, <1>9, PutPart
<1>12. result = "none"
  BY <1>1 DEF IInv, Typed
<1>13. CASE h.version = 4
  <2>1. stage' = "put_table"
    BY <1>1, <1>3, <1>13
  <2>2. at = 1 /\ running = 0
    BY <1>1 DEF IInv, Fresh
  <2>3. Len(img.frags) \in Nat /\ PlaceIn(f, 1) = 0
    BY <1>3, OwnFragments
  <2>4. EntryAt(h, 1) = TableAt(h)
    BY <1>3, EntryPlaces
  <2> QED
    BY <1>1, <1>2, <1>4, <1>10, <1>11, <1>12, <2>1, <2>2, <2>3, <2>4 DEF Follows
<1>14. CASE h.version = 3
  <2>1. stage' = "take"
    BY <1>1, <1>3, <1>14
  <2>2. h.entry_num = 0 /\ h.bootconfig_size = 0 /\ Len(f) = EndAt(h)
    BY <1>2, <1>3, <1>14, OwnFacts
  <2>3. Len(w') = Len(f)
    BY <1>3, <1>11, <2>2, NothingBehind
  <2>4. w' = f
    BY <1>3, <1>10, <1>11, <2>3, HoldsAll
  <2> QED
    BY <1>1, <1>2, <1>4, <1>10, <1>12, <2>1, <2>4 DEF Follows
<1> QED
  BY <1>3, <1>13, <1>14

\* A table entry put where the file has it.
LEMMA EntryAgain ==
  ASSUME NEW f, NEW v \in File, NEW e \in Cell, Holds(f, 0, v), f[Len(v) + 1] = e,
         Gap(f, Len(v) + 1, Len(v) + EntryLen)
  PROVE  Holds(f, 0, v \o <<e>> \o Zeros(EntryLen - 1))
<1>1. EntryLen \in Nat \ {0} /\ EntryLen - 1 \in Nat /\ Len(v) \in Nat /\ v \in Seq(Cell)
  BY FileFacts, LenProperties, VendorBootAssumption
<1>2. PICK t : t = Zeros(EntryLen - 1)
  OBVIOUS
<1>3. PICK o : o = <<e>>
  OBVIOUS
<1>4. /\ t \in File /\ Len(t) = EntryLen - 1 /\ \A i \in 1 .. EntryLen - 1 : t[i] = Zero
  BY <1>1, <1>2, FileFacts, ZerosFacts DEF Zeros
<1>5. o \in File /\ Len(o) = 1 /\ o[1] = e
  BY <1>3, FileFacts
<1>6. Holds(f, Len(v), o)
  BY <1>5 DEF Holds
<1>7. Holds(f, 0, v \o o) /\ v \o o \in File /\ Len(v \o o) = Len(v) + 1
  BY <1>5, <1>6, HoldsNext
<1>8. PICK u : u = v \o o
  OBVIOUS
<1>9. Holds(f, Len(u), t)
  <2> SUFFICES ASSUME NEW i \in 1 .. EntryLen - 1 PROVE f[Len(u) + i] = t[i]
    BY <1>4 DEF Holds
  <2>1. Len(u) + i \in Len(v) + 1 + 1 .. Len(v) + EntryLen
    BY <1>1, <1>7, <1>8
  <2> QED
    BY <1>4, <2>1 DEF Gap
<1>10. Holds(f, 0, u \o t)
  BY <1>4, <1>7, <1>8, <1>9, HoldsNext
<1> QED
  BY <1>2, <1>3, <1>8, <1>10

LEMMA PutEntryFollows ==
  ASSUME IInv, NEW f, f = file, f # Null, OwnLayout(f), Follows(f), PutEntry
  PROVE  Follows(f)'
<1> DEFINE d == img.frags[at].data
<1>1. /\ stage = "put_table" /\ stage' = "put_table" /\ at <= Len(img.frags)
      /\ section' = section /\ result' = result /\ img' = img
      /\ at' = at + 1 /\ running' = running + Len(d)
      /\ w' = w \o <<[size |-> Len(d), offset |-> running, type |-> Named(img.frags[at].type)]>>
                \o Zeros(EntryLen - 1)
  BY DEF PutEntry
<1>2. PICK h : h = f[1]
  OBVIOUS
<1>3. /\ f \in File /\ Opened(f) /\ ReadFrom(f, img) /\ img \in Content
      /\ h \in Header /\ h.version \in {3, 4} /\ h.page > 0
      /\ img.version = h.version /\ w \in File /\ at \in Nat \ {0}
  BY <1>1, <1>2, Again DEF Editing
<1>4. /\ section = Ramdisk(f) /\ Holds(f, 0, w) /\ Len(w) = EntryAt(h, at)
      /\ running = PlaceIn(f, at)
  BY <1>1, <1>2 DEF Follows
<1>5. h.version = 4
  <2>1. PICK from : Put(HeaderFor(img, Len(section)), from)
    BY <1>1 DEF IInv, BuildInv
  <2>2. img.version = 4
    BY <1>1, <2>1 DEF Put
  <2> QED
    BY <1>3, <2>2
<1>6. /\ Len(img.frags) \in Nat /\ Len(img.frags) = h.entry_num
  BY <1>2, <1>3, <1>5, OwnFragments
<1>7. at \in 1 .. Len(img.frags)
  BY <1>1, <1>3, <1>6
<1>8. PlaceIn(f, at + 1) = PlaceIn(f, at) + Len(d)
  BY <1>3, <1>7, OwnFragments
<1>9. PICK e : e = f[EntryAt(h, at) + 1]
  OBVIOUS
<1>10. w' = w \o <<e>> \o Zeros(EntryLen - 1)
  <2>1. [size |-> Len(d), offset |-> running, type |-> Named(img.frags[at].type)] = e
    BY <1>2, <1>3, <1>4, <1>5, <1>7, <1>9, OwnEntry
  <2> QED
    BY <1>1, <2>1
<1>11. e \in Cell
  <2>1. e = EntryIn(f, at) /\ WithTable(h)
    BY <1>2, <1>3, <1>5, <1>6, <1>7, <1>9, OwnFacts
  <2>2. e \in Entry
    BY <1>2, <1>3, <1>6, <1>7, <2>1 DEF ReadFrom
  <2> QED
    BY <2>2, FileFacts
<1>12. Gap(f, Len(w) + 1, Len(w) + EntryLen)
  <2>1. Gap(f, EntryAt(h, at) + 1, EntryAt(h, at) + EntryLen)
    BY <1>2, <1>3, <1>6, <1>7, OwnGaps
  <2> QED
    BY <1>4, <2>1
<1>13. Holds(f, 0, w')
  BY <1>3, <1>4, <1>9, <1>10, <1>11, <1>12, EntryAgain
<1>14. Len(w') = EntryAt(h, at + 1)
  <2>1. Len(w') = Len(w) + EntryLen
    BY <1>3, <1>10, <1>11, PutOneEntry
  <2> QED
    BY <1>3, <1>4, <2>1, EntryPlaces
<1>15. at + 1 <= Len(img.frags) + 1
  BY <1>6, <1>7
<1>16. result = "none"
  BY <1>1 DEF IInv, Typed
<1>17. running' = PlaceIn(f, at + 1)
  BY <1>1, <1>4, <1>8
<1> HIDE DEF d
<1> QED
  BY <1>1, <1>2, <1>4, <1>13, <1>14, <1>15, <1>16, <1>17 DEF Follows

LEMMA PutBootconfigFollows ==
  ASSUME IInv, NEW f, f = file, f # Null, OwnLayout(f), Follows(f), PutBootconfig
  PROVE  Follows(f)'
<1>1. /\ stage = "put_table" /\ stage' = "take" /\ at > Len(img.frags)
      /\ section' = section /\ result' = result
      /\ w' = IF img.bootconfig = <<>> THEN Padded(w, PageSize)
              ELSE Padded(Padded(w, PageSize) \o img.bootconfig, PageSize)
  BY DEF PutBootconfig
<1>2. PICK h : h = f[1]
  OBVIOUS
<1>3. /\ f \in File /\ Opened(f) /\ ReadFrom(f, img) /\ img \in Content
      /\ h \in Header /\ h.version \in {3, 4} /\ h.page > 0 /\ h.page \in Nat \ {0}
      /\ PageSize = h.page /\ img.version = h.version /\ w \in File /\ at \in Nat \ {0}
      /\ img.bootconfig \in File
  BY <1>1, <1>2, Again DEF Editing, Content
<1>4. /\ section = Ramdisk(f) /\ Holds(f, 0, w) /\ Len(w) = EntryAt(h, at)
      /\ at <= Len(img.frags) + 1
  BY <1>1, <1>2 DEF Follows
<1>5. h.version = 4
  <2>1. PICK from : Put(HeaderFor(img, Len(section)), from)
    BY <1>1 DEF IInv, BuildInv
  <2>2. img.version = 4
    BY <1>1, <2>1 DEF Put
  <2> QED
    BY <1>3, <2>2
<1>6. /\ Len(img.frags) \in Nat /\ Len(img.frags) = h.entry_num
  BY <1>2, <1>3, <1>5, OwnFragments
<1>7. at = h.entry_num + 1
  BY <1>1, <1>3, <1>4, <1>6
<1>8. Len(w) = TableAt(h) + Entries(h.entry_num)
  BY <1>3, <1>4, <1>7, EntryPlaces
<1>9. AlignUp(Len(w), h.page) = BootconfigAt(h)
  BY <1>8 DEF BootconfigAt
<1>10. PICK v : v = Padded(w, h.page)
  OBVIOUS
<1>11. v \in File /\ Len(v) = BootconfigAt(h) /\ Holds(f, 0, v)
  <2>1. Gap(f, Len(w), AlignUp(Len(w), h.page))
    <3>1. Gap(f, TableAt(h) + Entries(h.entry_num), BootconfigAt(h))
      BY <1>2, <1>3, OwnGaps
    <3> QED
      BY <1>8, <1>9, <3>1
  <2>2. Holds(f, 0, v)
    BY <1>3, <1>4, <1>10, <2>1, PadAgain
  <2> QED
    BY <1>3, <1>9, <1>10, <2>2, PadPart
<1>12. PICK b : b = img.bootconfig
  OBVIOUS
<1>13. b \in File /\ Holds(f, Len(v), b) /\ Len(b) = h.bootconfig_size
  <2>1. HeaderFor(img, h.ramdisk_size) = h /\ Holds(f, BootconfigAt(h), img.bootconfig)
    BY <1>2, <1>3, <1>5, OwnHeader
  <2>2. h.bootconfig_size = Len(img.bootconfig)
    BY <1>3, <1>5, <2>1 DEF HeaderFor
  <2> QED
    BY <1>3, <1>11, <1>12, <2>1, <2>2
<1>14. Len(f) = EndAt(h)
  BY <1>2, <1>3, OwnFacts
<1>15. w' = f
  <2>1. CASE b = <<>>
    <3>1. h.bootconfig_size = 0 /\ w' = v
      BY <1>1, <1>3, <1>10, <1>12, <1>13, <2>1
    <3>2. Len(v) = Len(f)
      BY <1>3, <1>11, <1>14, <3>1, NothingBehind
    <3> QED
      BY <1>3, <1>11, <3>1, <3>2, HoldsAll
  <2>2. CASE b # <<>>
    <3>1. w' = Padded(v \o b, h.page)
      BY <1>1, <1>3, <1>10, <1>12, <2>2
    <3>2. AlignUp(Len(v) + Len(b), h.page) = EndAt(h)
      BY <1>11, <1>13 DEF EndAt
    <3>3. Gap(f, Len(v) + Len(b), AlignUp(Len(v) + Len(b), h.page))
      <4>1. Gap(f, BootconfigAt(h) + h.bootconfig_size, EndAt(h))
        BY <1>2, <1>3, OwnGaps
      <4> QED
        BY <1>11, <1>13, <3>2, <4>1
    <3>4. Holds(f, 0, w')
      BY <1>3, <1>11, <1>13, <3>1, <3>3, PutAgain
    <3>5. w' \in File /\ Len(w') = EndAt(h)
      BY <1>3, <1>11, <1>13, <3>1, <3>2, PutPart
    <3> QED
      BY <1>3, <1>14, <3>4, <3>5, HoldsAll
  <2> QED
    BY <2>1, <2>2
<1>16. Holds(f, 0, f)
  <2>1. Len(f) \in Nat
    BY <1>3, FileFacts, LenProperties
  <2> QED
    BY <2>1 DEF Holds
<1>17. result = "none"
  BY <1>1 DEF IInv, Typed
<1> QED
  BY <1>1, <1>4, <1>15, <1>16, <1>17 DEF Follows

LEMMA AgainStep ==
  ASSUME IInv, AgainInv, [Next]_vars
  PROVE  AgainInv'
<1>0. (result = "image" => stage = "edit")'
  <2>1. CASE Parsing
    BY <2>1 DEF Parsing, ReadHeader, ReadRamdisk, ReadDtb, ReadSingle, ReadEntry,
                ReadBootconfig, Reject, Directory, IInv, Typed
  <2>2. CASE Putting
    BY <2>2 DEF Putting, Concat, PutHeader, PutRamdisk, PutDtb, PutEntry,
                PutBootconfig, Take, IInv, Typed
  <2>3. CASE User
    <3>1. PICK new \in Content : Edit(new)
      BY <2>3, UserEdits DEF IInv
    <3> QED
      BY <3>1 DEF Edit
  <2> QED
    BY <2>1, <2>2, <2>3 DEF Next, Running, Build, Unpack, vars, building, AgainInv
<1>1. CASE Parsing
  <2>1. /\ stage' \in Editing => stage' = "edit" /\ result' = "none"
    BY <1>1 DEF Parsing, ReadHeader, ReadRamdisk, ReadDtb, ReadSingle, ReadEntry,
                ReadBootconfig, Reject, Directory, Editing, IInv, Typed
  <2> QED
    BY <1>0, <2>1 DEF AgainInv, Follows
<1>2. CASE Build
  <2> SUFFICES ASSUME NEW f, f = file, f # Null, OwnLayout(f) PROVE Follows(f)'
    BY <1>0, <1>2 DEF Build, AgainInv
  <2>1. stage = "edit" /\ img' = img /\ section' = section /\ at' = at
    BY <1>2 DEF Build
  <2>2. ReadFrom(f, img) /\ img \in Content /\ img.version \in {3, 4}
    BY <2>1, Again DEF Editing
  <2>3. stage' = "concat" /\ result' = "none"
    BY <1>2, <2>2 DEF Build
  <2>4. at = 1 /\ section = <<>>
    BY <2>1 DEF IInv, Fresh
  <2>5. Len(img.frags) \in Nat /\ PlaceIn(f, 1) = 0
    BY <2>2, OwnFragments
  <2>6. Len(<<>>) = 0 /\ Holds(Ramdisk(f), 0, <<>>)
    BY DEF Holds
  <2> QED
    BY <2>1, <2>3, <2>4, <2>5, <2>6 DEF Follows
<1>3. CASE User
  <2>1. PICK new \in Content : Edit(new)
    BY <1>3, UserEdits DEF IInv
  <2> QED
    BY <1>0, <2>1 DEF Edit, AgainInv
<1>4. ASSUME NEW f, Unpack(f) PROVE AgainInv'
  BY <1>0, <1>4 DEF Unpack, AgainInv, Editing
<1>5. CASE Putting
  <2> SUFFICES ASSUME NEW f, f = file, f # Null, OwnLayout(f) PROVE Follows(f)'
    BY <1>0, <1>5 DEF Putting, Concat, PutHeader, PutRamdisk, PutDtb, PutEntry,
                PutBootconfig, Take, AgainInv
  <2>1. Follows(f)
    BY <1>5 DEF AgainInv, Putting, Concat, PutHeader, PutRamdisk, PutDtb, PutEntry,
                PutBootconfig, Take, Editing
  <2>2. CASE Take
    BY <2>1, <2>2 DEF Take, Follows
  <2> QED
    BY <1>5, <2>1, <2>2, ConcatFollows, PutHeaderFollows, PutRamdiskFollows, PutDtbFollows,
       PutEntryFollows, PutBootconfigFollows DEF Putting
<1>6. CASE UNCHANGED vars
  BY <1>0, <1>6 DEF vars, building, AgainInv, Follows
<1> QED
  BY <1>1, <1>2, <1>3, <1>4, <1>5, <1>6 DEF Next, Running

\* An image as mkbootimg lays it out, with any number of fragments, comes back cell
\* for cell when nothing is edited: build puts every part, every table entry and
\* every zero where it was.
THEOREM Verbatim == Spec => []UntouchedVerbatim
<1>1. Init => AgainInv
  BY DEF Init, AgainInv
<1>2. IInv /\ AgainInv /\ [Next]_vars => AgainInv'
  BY AgainStep
<1>3. IInv /\ AgainInv => UntouchedVerbatim
  <2> SUFFICES ASSUME IInv, AgainInv, result = "image", file # Null, OwnLayout(file)
               PROVE  out = file
    BY DEF UntouchedVerbatim
  <2>1. stage \in Editing
    BY DEF AgainInv, Editing
  <2> QED
    BY <2>1 DEF AgainInv, Follows
<1> QED
  BY <1>1, <1>2, <1>3, Invariant, PTL DEF Spec

=============================================================================
