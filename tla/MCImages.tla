------------------------------- MODULE MCImages -------------------------------
(* Images with headers of two or three cells and pages of two to four, so    *)
(* that a header is shorter than, as long as and longer than a page; texts   *)
(* around the limits of their fields; blobs of no, one and two bytes.        *)
EXTENDS Images

CONSTANTS x, y

MCByte == {Zero, x, y, Blank, Break, Mark, Fill}
MCHeaderLen == [v \in 0 .. 5 |-> IF v \in {1, 2} THEN 3 ELSE 2]
MCPage == {0, 2, 4}
MCData == {<<>>, <<x>>, <<y, x>>, <<x, Mark>>}
MCText == {<<>>, <<y>>, <<x, Blank, x, y>>, <<y, y, Blank, x, x>>}
MCAttr == {0, 5}
NoText == [version |-> Unset, level |-> Unset]
MCOs == {NoText, [version |-> Malformed, level |-> <<21, 1>>],
         [version |-> <<3, 0, 1>>, level |-> <<23, 3>>],
         [version |-> <<0, 9, 1>>, level |-> <<19, 7>>]}

Sizes(k, r, s, o, d, b) ==
  [kernel |-> k, ramdisk |-> r, second |-> s, recovery_dtbo |-> o, dtb |-> d,
   boot_signature |-> b]
Boot(version, page, os, name, args, extra, id, at, size) ==
  [fmt |-> "boot", version |-> version, page |-> page, os |-> os, name |-> name,
   args |-> args, extra |-> extra, id |-> id, dtbo_at |-> at, size |-> size]

\* As mkbootimg makes them: versions 0, 2 and 4.
Boot0 == <<Boot(0, 2, 0, <<y>>, <<x>>, <<>>, <<<<x, y, x>>, <<y>>, <<>>>>, 0,
                Sizes(3, 1, 0, 0, 0, 0)), Zero, x, y, x, Zero, y, Zero>>
Boot2 == <<Boot(2, 4, 205, <<>>, <<x>>, <<>>,
                <<<<x>>, <<y, y>>, <<x>>, <<y>>, <<x, y>>>>, 16, Sizes(1, 2, 1, 1, 2, 0)),
           Zero, Zero, Zero, x, Zero, Zero, Zero, y, y, Zero, Zero,
           x, Zero, Zero, Zero, y, Zero, Zero, Zero, x, y, Zero, Zero>>
Boot4 == <<Boot(4, 3, 77, <<>>, <<x, Blank, x>>, <<>>, Unset, 0, Sizes(1, 0, 0, 0, 0, 2)),
           Zero, Zero, x, Zero, Zero, y, x, Zero>>
\* Not as mkbootimg: the first part of the command line is shorter than its field
\* and ends in a blank, what follows a line break is lost, another id, a wrong
\* offset, a page shorter than the header and bytes behind the last.
Boot1 == <<Boot(1, 2, 13, <<x, Break, y>>, <<Blank>>, <<x, Blank>>, <<<<x>>>>, 2,
                Sizes(1, 0, 0, 2, 0, 0)), Zero, Zero, Zero, x, Zero, y, x, x>>
\* What mkbootimg makes of a command line that needs the second field.
BootLong == MkBoot([type |-> "boot", version |-> 0, page |-> 2, name |-> <<y>>,
                    cmdline |-> <<x, y>>, os |-> NoText,
                    sec |-> [s \in Section |-> <<x>>]])
Boot5 == [Boot4 EXCEPT ![1].version = 5]

Table(version, page, total, rows_at, row_size, count) ==
  [fmt |-> "dtbo", acpio |-> FALSE, version |-> version, page |-> page,
   total |-> total, header_size |-> 2, rows_at |-> rows_at, row_size |-> row_size,
   count |-> count]
Rw(id, comp, offset, size) ==
  [fmt |-> "row", id |-> id, comp |-> comp, offset |-> offset, size |-> size]

\* As mkdtboimg makes them; with a shared blob, wide rows behind the data and a
\* blob deflated by another zlib; and with a row that points outside.
Dtbo0 == <<Table(0, 2, 9, 2, 2, 2), Zero, Rw(7, 1, 6, 1), Zero, Rw(8, 0, 7, 2), Zero, x, y, x>>
Dtbo1 == <<Table(1, 4, 11, 5, 3, 2), Zero>> \o Deflated(1, "vendor", <<x, y>>) \o
         <<y, Zero, Rw(7, 1, 2, 1), Zero, Zero, Rw(8, 2, 2, 1), Zero>>
\* The stream is cut off; bytes behind it.
DtboCut == [Dtbo1 EXCEPT ![3] = [@ EXCEPT !.enc = "cut", !.data = <<x>>],
                         ![9].size = 2]
DtboWild == [Dtbo0 EXCEPT ![5].size = 3]

Fdt(total) == [fmt |-> "fdt", total |-> total]
Tree2 == <<Fdt(2), x>>
Tree3 == <<Fdt(3), y, Zero>>
\* Two trees; with bytes behind the last one, other than zeros and zeros; a
\* totalsize that is too large.
Dtb2    == Tree2 \o Tree3
DtbTail == Tree3 \o <<Zero, y>>
DtbPad  == Tree3 \o <<Zero, Zero>>
DtbWild == Tree2 \o <<Fdt(4), x, x>>
MCTree  == {Tree2, Tree3, <<Fdt(4), y>>, <<x>>, <<Zero>>}

UHeader(os, arch, kind, name, data) ==
  LET h == [fmt |-> "uimage", hcrc |-> NoCrc, size |-> Len(data), dcrc |-> data,
            name |-> name, attr |-> [os |-> os, arch |-> arch, kind |-> kind, comp |-> 1]]
  IN  [h EXCEPT !.hcrc = h]
\* As mkimage makes it; for an architecture without a name, with bytes behind;
\* with a checksum that is wrong.
UKernel == <<UHeader(5, 22, 2, <<x, y>>, <<x, x>>), Zero, x, x>>
UPpc    == <<UHeader(5, 7, 2, <<x>>, <<y>>), Zero, y>>
UBad    == [UKernel EXCEPT ![3] = y]

Wrap(footer, padding, extra) == [footer |-> footer, padding |-> padding, extra |-> extra]
Footer == Wrap(TRUE, FALSE, <<>>)
Padding == Wrap(TRUE, TRUE, <<x>>)
MCWraps == {NoWrap, Footer, Padding, Wrap(FALSE, FALSE, <<y>>), Wrap(FALSE, TRUE, <<>>)}
Samsung(f) == <<[fmt |-> "dhtb", digest |-> f \o <<Mark, Fill>>, size |-> Len(f) + 2], Zero>>
              \o f \o <<Mark, Fill>> \o <<x>>
\* A wrapper that is cut off.
WrapWild == SubSeq(Samsung(Boot4), 1, 6)

Standard == {Boot0, Boot2, Boot4, Dtbo0, Dtb2, DtbTail, UKernel,
             Samsung(Boot0), Samsung(Dtb2)}
AllFiles == Standard \cup {Boot1, BootLong, Boot5, Dtbo1, DtboCut, DtboWild, DtbPad, DtbWild, UPpc,
                           UBad, WrapWild, <<>>, <<x>>, SubSeq(Boot0, 1, 7)}
Ppc == {UPpc}
=============================================================================
