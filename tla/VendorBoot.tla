------------------------------ MODULE VendorBoot ------------------------------
(***************************************************************************)
(* vendor_boot images through parse, edits and build, over any number of   *)
(* rounds.  A file is a sequence of cells, read and written at a cursor:   *)
(* the header, the ramdisk section, the dtb and, from version 4 on, the    *)
(* table of the ramdisk fragments and the bootconfig, each on a page of    *)
(* its own.  The fragments lie in the ramdisk section where the table says.*)
(*                                                                         *)
(* A header or a table entry is one cell with its numbers, and zeros for   *)
(* the rest of its length.  Fields that parse and build only carry along   *)
(* (addresses, names, command line) are left out.                          *)
(***************************************************************************)
EXTENDS ByteIO

CONSTANTS
  Type,        \* ramdisk types, as numbers in a table entry
  Known,       \* those that have a name; "none" among them
  HeaderLen,   \* per header version: the length of the header
  EntryLen,    \* the length of a table entry
  DefaultPage, \* the page size build takes for 0
  Files,       \* the images at hand
  Data,        \* what the user puts into a fragment, the dtb, the bootconfig
  Page,        \* the page sizes the user sets
  MaxFrags,    \* the bound on the number of fragments
  MaxLen,      \* the bound on a fragment's length when one more is added
  Null

Header == [version : Nat, page : Nat, ramdisk_size : Nat, dtb_size : Nat,
           entry_num : Nat, entry_size : Nat, bootconfig_size : Nat]
Entry  == [size : Nat, offset : Nat, type : Type]
File   == Seq(Byte \cup Header \cup Entry)

ASSUME VendorBootAssumption ==
  /\ Known \subseteq Type /\ "none" \in Known
  /\ HeaderLen \in [{3, 4} -> Nat \ {0}] /\ EntryLen \in Nat \ {0}
  /\ DefaultPage \in Nat \ {0} /\ MaxFrags \in Nat /\ MaxLen \in Nat
  /\ Files \subseteq File /\ Data \subseteq Seq(Byte) /\ Page \subseteq Nat
  /\ Byte \cap (Header \cup Entry) = {}
  /\ Null \notin File \cup Header

VARIABLES
  stage,   \* the next part of parse or build; "idle", "edit" between them
  file,    \* the image unpacked last; Null once its directory was edited
  origin,  \* history: the content file was built from; Null if not by us
  header,  \* what parse has read of the header
  pos,     \* the reader's cursor, at the table: its beginning
  section, \* the ramdisk section as read, or as put together
  at,      \* the next fragment
  img,     \* the VendorBootImage, in memory or as the directory holds it
  w,       \* what build has written so far
  running, \* running_offset
  result,  \* "none", "image" or "error": how the last command ended
  out      \* the image built last

parsing  == <<header, pos>>
building == <<w, running>>
vars == <<stage, file, origin, parsing, section, at, img, building, result, out>>

\* A blob may hold any cells: one read from an image can be an image itself.
Fragment == [type : Type, data : File]
Content  == [version : Nat, page : Nat, dtb : File,
             bootconfig : File, frags : Seq(Fragment)]

-----------------------------------------------------------------------------
\* BinaryReader: n bytes at p are inside the file, their end too when aligned.
Has(p, n)        == p + n <= Len(file)
Bytes(p, n)      == Cells(file, p, n)

-----------------------------------------------------------------------------
Init ==
  /\ stage = "idle" /\ file = Null /\ origin = Null
  /\ header = Null /\ pos = 0 /\ section = <<>> /\ at = 1
  /\ img = Null /\ w = <<>> /\ running = 0
  /\ result = "none" /\ out = Null

\* An image at hand is unpacked, or the one just built.
Unpack(f) ==
  /\ stage \in {"idle", "edit"}
  /\ \/ f \in Files /\ origin' = Null
     \/ result = "image" /\ f = out /\ origin' = img
  /\ stage' = "header" /\ file' = f
  /\ img' = Null /\ result' = "none" /\ out' = Null
  /\ UNCHANGED <<parsing, section, at, building>>

(* VendorBootImage::parse                                                  *)

HeaderReadable ==
  /\ Len(file) > 0 /\ file[1] \in Header
  /\ file[1].version \in {3, 4} /\ file[1].page > 0
  /\ Has(0, HeaderLen[file[1].version])
  /\ file[1].version = 4 /\ file[1].entry_num > 0 =>
       file[1].entry_size >= EntryLen

ReadHeader ==
  /\ stage = "header" /\ HeaderReadable
  /\ stage' = "ramdisk" /\ header' = file[1]
  /\ pos' = HeaderLen[file[1].version]
  /\ img' = [version |-> file[1].version, page |-> file[1].page,
             dtb |-> <<>>, bootconfig |-> <<>>, frags |-> <<>>]
  /\ UNCHANGED <<file, origin, section, at, building, result, out>>

\* Where the next section begins, and where the page after n bytes of it does.
Start    == AlignUp(pos, header.page)
After(n) == AlignUp(Start + n, header.page)

ReadRamdisk ==
  /\ stage = "ramdisk" /\ Has(Start, header.ramdisk_size)
  /\ stage' = "dtb"
  /\ section' = Bytes(Start, header.ramdisk_size)
  /\ pos' = Start + header.ramdisk_size
  /\ UNCHANGED <<file, origin, header, at, img, building, result, out>>

HasTable == header.version = 4 /\ header.entry_num > 0

ReadDtb ==
  /\ stage = "dtb" /\ Has(After(header.dtb_size), 0)
  /\ stage' = IF HasTable THEN "table" ELSE "single"
  /\ img' = [img EXCEPT !.dtb = Bytes(Start, header.dtb_size)]
  /\ pos' = After(header.dtb_size)
  /\ UNCHANGED <<file, origin, header, section, at, building, result, out>>

\* The directory is written, the parser's memory gone.
Directory ==
  /\ stage' = "edit" /\ header' = Null /\ pos' = 0 /\ section' = <<>> /\ at' = 1
  /\ UNCHANGED <<file, origin, building, result, out>>

\* Without a table the whole section is one fragment.
ReadSingle ==
  /\ stage = "single"
  /\ img' = [img EXCEPT !.frags = <<[type |-> "none", data |-> section]>>]
  /\ Directory

\* Table entry n; anything else at its place reads as wild numbers.
EntryPos(n) == pos + (n - 1) * header.entry_size
EntryReadable(n) ==
  /\ Has(EntryPos(n), EntryLen) /\ file[EntryPos(n) + 1] \in Entry
  /\ LET e == file[EntryPos(n) + 1] IN e.offset + e.size <= Len(section)

\* The next entry, and its part of the section.
ReadEntry ==
  /\ stage = "table" /\ at <= header.entry_num /\ EntryReadable(at)
  /\ LET e == file[EntryPos(at) + 1]
     IN  img' = [img EXCEPT !.frags = Append(@,
                   [type |-> e.type,
                    data |-> SubSeq(section, e.offset + 1, e.offset + e.size)])]
  /\ at' = at + 1
  /\ UNCHANGED <<stage, file, origin, parsing, section, building, result, out>>

TableEnd == AlignUp(EntryPos(header.entry_num + 1), header.page)
BootconfigEnd ==
  IF header.bootconfig_size = 0 THEN TableEnd
  ELSE AlignUp(TableEnd + header.bootconfig_size, header.page)

ReadBootconfig ==
  /\ stage = "table" /\ at > header.entry_num /\ Has(BootconfigEnd, 0)
  /\ img' = [img EXCEPT !.bootconfig = Bytes(TableEnd, header.bootconfig_size)]
  /\ Directory

\* Any of the reads throws, before anything is written; what an earlier unpack
\* left in the directory is the business of Workspace.
Reject ==
  /\ \/ stage = "header" /\ ~HeaderReadable
     \/ stage = "ramdisk" /\ ~Has(Start, header.ramdisk_size)
     \/ stage = "dtb" /\ ~Has(After(header.dtb_size), 0)
     \/ stage = "table" /\ at <= header.entry_num /\ ~EntryReadable(at)
     \/ stage = "table" /\ at > header.entry_num /\ ~Has(BootconfigEnd, 0)
  /\ stage' = "idle" /\ result' = "error" /\ img' = Null
  /\ header' = Null /\ pos' = 0 /\ section' = <<>> /\ at' = 1
  /\ UNCHANGED <<file, origin, building, out>>

-----------------------------------------------------------------------------
(* The user's edits                                                        *)

Edit(new) ==
  /\ stage = "edit" /\ new # img
  /\ img' = new
  /\ file' = Null /\ origin' = Null /\ result' = "none" /\ out' = Null
  /\ UNCHANGED <<stage, parsing, section, at, building>>

EditFragment(n, type, data) ==
  Edit([img EXCEPT !.frags[n] = [type |-> type, data |-> data]])

\* ramdisk_count and the lines of one more fragment.
AddFragment(type, data) ==
  /\ Len(img.frags) < MaxFrags
  /\ \A n \in 1 .. Len(img.frags) : Len(img.frags[n].data) <= MaxLen
  /\ Edit([img EXCEPT !.frags = Append(@, [type |-> type, data |-> data])])

DropFragment ==
  /\ Len(img.frags) > 0
  /\ Edit([img EXCEPT !.frags = SubSeq(@, 1, Len(@) - 1)])

EditBlob(data) ==
  Edit([img EXCEPT !.dtb = data]) \/ Edit([img EXCEPT !.bootconfig = data])

EditHeader(version, page) ==
  Edit([img EXCEPT !.version = version, !.page = page])

-----------------------------------------------------------------------------
(* VendorBootImage::build                                                  *)

PageSize == IF img.page = 0 THEN DefaultPage ELSE img.page

\* The name in the manifest; a type without one comes back as "none".
Named(type) == IF type \in Known THEN type ELSE "none"

\* Mutant: the output of the build before is still there.
BuildKeepsOutput ==
  /\ stage = "edit" /\ out' = out
  /\ IF img.version \in {3, 4} THEN stage' = "concat" /\ result' = "none"
                               ELSE stage' = stage /\ result' = "error"
  /\ UNCHANGED <<file, origin, parsing, section, at, img, building>>

\* Repack reads the directory; build throws for a version it does not know.
Build ==
  /\ stage = "edit" /\ out' = Null
  /\ IF img.version \in {3, 4} THEN stage' = "concat" /\ result' = "none"
                               ELSE stage' = stage /\ result' = "error"
  /\ UNCHANGED <<file, origin, parsing, section, at, img, building>>

\* concatenated_ramdisk().
Concat ==
  /\ stage = "concat" /\ at <= Len(img.frags)
  /\ section' = section \o img.frags[at].data
  /\ at' = at + 1
  /\ UNCHANGED <<stage, file, origin, parsing, img, building, result, out>>

\* Mutant: the fields of version 4 are filled in for version 3 too.
HeaderOfFour(num) ==
  [version |-> img.version, page |-> PageSize,
   ramdisk_size |-> Len(section), dtb_size |-> Len(img.dtb),
   entry_num |-> num, entry_size |-> EntryLen,
   bootconfig_size |-> Len(img.bootconfig)]

\* The header, with num table entries.
HeaderOf(num) ==
  [version |-> img.version, page |-> PageSize,
   ramdisk_size |-> Len(section), dtb_size |-> Len(img.dtb),
   entry_num |-> num,
   entry_size |-> IF img.version = 4 THEN EntryLen ELSE 0,
   bootconfig_size |-> IF img.version = 4 THEN Len(img.bootconfig) ELSE 0]

PutHeader ==
  /\ stage = "concat" /\ at > Len(img.frags)
  /\ w' = Padded(<<HeaderOf(IF img.version = 4 THEN Len(img.frags) ELSE 0)>>
                   \o Zeros(HeaderLen[img.version] - 1), PageSize)
  /\ stage' = "put_ramdisk" /\ at' = 1
  /\ UNCHANGED <<file, origin, parsing, section, img, running, result, out>>

PutRamdisk ==
  /\ stage = "put_ramdisk"
  /\ w' = Padded(w \o section, PageSize)
  /\ stage' = "put_dtb"
  /\ UNCHANGED <<file, origin, parsing, section, at, img, running, result, out>>

PutDtb ==
  /\ stage = "put_dtb"
  /\ w' = Padded(w \o img.dtb, PageSize)
  /\ stage' = IF img.version = 4 THEN "put_table" ELSE "take"
  /\ UNCHANGED <<file, origin, parsing, section, at, img, running, result, out>>

\* Mutant: running_offset is not moved on.
PutEntryStill ==
  /\ stage = "put_table" /\ at <= Len(img.frags)
  /\ LET f == img.frags[at]
     IN  w' = w \o <<[size |-> Len(f.data), offset |-> running,
                      type |-> Named(f.type)]>> \o Zeros(EntryLen - 1)
  /\ at' = at + 1
  /\ UNCHANGED <<stage, file, origin, parsing, section, img, running, result, out>>

\* The table entry of the next fragment.
PutEntry ==
  /\ stage = "put_table" /\ at <= Len(img.frags)
  /\ LET f == img.frags[at]
     IN  /\ w' = w \o <<[size |-> Len(f.data), offset |-> running,
                         type |-> Named(f.type)]>> \o Zeros(EntryLen - 1)
         /\ running' = running + Len(f.data)
  /\ at' = at + 1
  /\ UNCHANGED <<stage, file, origin, parsing, section, img, result, out>>

\* Mutant: the last page is not filled.
PutBootconfigUnpadded ==
  /\ stage = "put_table" /\ at > Len(img.frags)
  /\ w' = Padded(w, PageSize) \o img.bootconfig
  /\ stage' = "take"
  /\ UNCHANGED <<file, origin, parsing, section, at, img, running, result, out>>

PutBootconfig ==
  /\ stage = "put_table" /\ at > Len(img.frags)
  /\ LET table == Padded(w, PageSize)
     IN  w' = IF img.bootconfig = <<>> THEN table
              ELSE Padded(table \o img.bootconfig, PageSize)
  /\ stage' = "take"
  /\ UNCHANGED <<file, origin, parsing, section, at, img, running, result, out>>

Take ==
  /\ stage = "take"
  /\ out' = w /\ result' = "image" /\ stage' = "edit"
  /\ w' = <<>> /\ running' = 0 /\ section' = <<>> /\ at' = 1
  /\ UNCHANGED <<file, origin, parsing, img>>

-----------------------------------------------------------------------------
Parsing == ReadHeader \/ ReadRamdisk \/ ReadDtb \/ ReadSingle \/ ReadEntry
           \/ ReadBootconfig \/ Reject
Putting == Concat \/ PutHeader \/ PutRamdisk \/ PutDtb \/ PutEntry
           \/ PutBootconfig \/ Take
Running == Parsing \/ Putting

User ==
  /\ stage = "edit"
  /\ \/ \E type \in Known, data \in Data :
          AddFragment(type, data)
          \/ \E n \in 1 .. Len(img.frags) : EditFragment(n, type, data)
     \/ DropFragment
     \/ \E data \in Data : EditBlob(data)
     \/ \E version \in {3, 4, 5}, page \in Page : EditHeader(version, page)

Next == Running \/ Build \/ User \/ \E f \in Files \cup {out} : Unpack(f)

Spec == Init /\ [][Next]_vars
-----------------------------------------------------------------------------
(* Properties                                                              *)

\* The type of every variable.
TypeOK ==
  /\ stage \in {"idle", "edit", "header", "ramdisk", "dtb", "single", "table",
                "concat", "put_ramdisk", "put_dtb", "put_table", "take"}
  /\ file \in File \cup {Null} /\ out \in File \cup {Null}
  /\ origin \in Content \cup {Null} /\ img \in Content \cup {Null}
  /\ header \in Header \cup {Null}
  /\ pos \in Nat /\ running \in Nat /\ at \in Nat \ {0}
  /\ section \in File /\ w \in File
  /\ result \in {"none", "image", "error"}
  /\ result = "image" <=> out # Null

\* s is the fragments' data, one after the other and nothing else.
Tiles(s, frags) ==
  \E from \in [1 .. Len(frags) + 1 -> 0 .. Len(s)] :
    /\ from[1] = 0 /\ from[Len(frags) + 1] = Len(s)
    /\ \A n \in 1 .. Len(frags) :
         /\ from[n + 1] = from[n] + Len(frags[n].data)
         /\ SubSeq(s, from[n] + 1, from[n + 1]) = frags[n].data

\* What an image of content c says: of version 4 everything, a type without a
\* name aside; of version 3 one ramdisk, and no bootconfig.  A version 4 image
\* without a fragment is read as one of a single empty fragment.
Says(read, c) ==
  /\ read.version = c.version /\ read.dtb = c.dtb
  /\ read.page = IF c.page = 0 THEN DefaultPage ELSE c.page
  /\ IF c.version = 4 /\ c.frags # <<>>
       THEN /\ read.bootconfig = c.bootconfig
            /\ read.frags = [n \in 1 .. Len(c.frags) |->
                 [type |-> Named(c.frags[n].type), data |-> c.frags[n].data]]
       ELSE Len(read.frags) = 1 /\ Tiles(read.frags[1].data, c.frags)

\* Whatever was edited and built, unpacking the output gives it back: each
\* fragment, from its place in the section, and what follows the table.
OutputSaysIt == stage = "edit" /\ origin # Null => Says(img, origin)

\* Parse accepts every output of build: all sections end inside the file, on
\* the page where parse looks for the next.
OutputAccepted == stage = "idle" /\ result = "error" => origin = Null

\* The layout of build's own output, as mkbootimg makes it: sections on pages of
\* their own with zeros between them, fragments one after the other in the order
\* of the table, and nothing behind the last page.
OwnLayout(f) ==
  LET h == f[1]
      ramdisk == AlignUp(HeaderLen[h.version], h.page)
      dtb == AlignUp(ramdisk + h.ramdisk_size, h.page)
      table == AlignUp(dtb + h.dtb_size, h.page)
      bootconfig == AlignUp(table + h.entry_num * EntryLen, h.page)
      end == AlignUp(bootconfig + h.bootconfig_size, h.page)
      entryAt == [n \in 1 .. h.entry_num |-> table + (n - 1) * EntryLen + 1]
      used == {1} \cup (ramdisk + 1 .. ramdisk + h.ramdisk_size)
                  \cup (dtb + 1 .. dtb + h.dtb_size)
                  \cup (bootconfig + 1 .. bootconfig + h.bootconfig_size)
                  \cup {entryAt[n] : n \in 1 .. h.entry_num}
  IN  /\ Len(f) = end
      /\ \A p \in 1 .. end : p \notin used => f[p] = Zero
      /\ IF h.version = 3
           THEN h.entry_num = 0 /\ h.entry_size = 0 /\ h.bootconfig_size = 0
           ELSE /\ h.entry_num > 0 /\ h.entry_size = EntryLen
                /\ f[entryAt[1]].offset = 0
                /\ \A n \in 1 .. h.entry_num :
                     LET e == f[entryAt[n]]
                     IN  /\ e.type \in Known
                         /\ e.offset + e.size =
                              IF n < h.entry_num THEN f[entryAt[n + 1]].offset
                              ELSE h.ramdisk_size

\* Built again without an edit, such an image is what it was.
UntouchedVerbatim ==
  result = "image" /\ file # Null /\ OwnLayout(file) => out = file

\* README: a round trip is byte-for-byte identical to the original if none of
\* the extracted files is touched.
ByteForByte == result = "image" /\ file # Null => out = file
=============================================================================
