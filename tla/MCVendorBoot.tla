---------------------------- MODULE MCVendorBoot ----------------------------
(* VendorBoot with pages of two and three cells: a header shorter and longer *)
(* than a page, entries of two cells, pieces of no, one and two bytes.       *)
EXTENDS VendorBoot

CONSTANTS x, y

MCByte == {Zero, x, y}
MCType == {"none", "dlkm", "7"}
MCKnown == {"none", "dlkm"}
MCHeaderLen == [v \in {3, 4} |-> v - 1]
MCPage == {0, 2, 3}
MCData == {<<>>, <<x>>, <<x, y>>}

Hdr(version, page, ramdisk, dtb, num, size, bootconfig) ==
  [version |-> version, page |-> page, ramdisk_size |-> ramdisk,
   dtb_size |-> dtb, entry_num |-> num, entry_size |-> size,
   bootconfig_size |-> bootconfig]
Frag(size, offset, type) == [size |-> size, offset |-> offset, type |-> type]

\* A version 3 image; a version 4 image with two fragments and a bootconfig; the
\* same with its fragments in the other order and a type without a name;
\* one whose entry points outside the section.
Plain == <<Hdr(3, 2, 1, 1, 0, 0, 0), Zero, x, Zero, y, Zero>>
Two   == <<Hdr(4, 3, 3, 1, 2, 2, 1), Zero, Zero, x, y, y, x, Zero, Zero,
           Frag(1, 0, "none"), Zero, Frag(2, 1, "dlkm"), Zero, Zero, Zero,
           y, Zero, Zero>>
Swap  == <<Hdr(4, 3, 3, 1, 2, 2, 1), Zero, Zero, x, y, y, x, Zero, Zero,
           Frag(2, 1, "dlkm"), Zero, Frag(1, 0, "7"), Zero, Zero, Zero,
           y, Zero, Zero>>
Wild  == <<Hdr(4, 2, 1, 0, 1, 2, 0), Zero, Zero, Zero, x, Zero,
           Frag(1, 1, "none"), Zero>>

\* The second image cut anywhere, and bytes that are no image at all.
Cuts == {SubSeq(Two, 1, n) : n \in 0 .. Len(Two) - 1} \cup {<<x, Zero, Zero>>}

\* As mkbootimg makes it when there is a bootconfig and no vendor ramdisk.
NoTable == <<Hdr(4, 2, 0, 1, 0, 2, 2), Zero, Zero, Zero, x, Zero, y, y>>

AllFiles == {Plain, Two, Swap, Wild} \cup Cuts
NoTableFile == {NoTable}
=============================================================================
