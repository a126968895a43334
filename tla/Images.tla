-------------------------------- MODULE Images --------------------------------
(***************************************************************************)
(* Images through unpack, edits and repack, over any number of rounds: the *)
(* wrapper is taken off, the format detected, the image taken apart into   *)
(* what the directory says; the user edits that; repack puts an image      *)
(* together.  The containers are those of the modules below; vendor_boot   *)
(* and vbmeta have modules of their own, and how the directory lies on     *)
(* disk is Workspace's matter.                                             *)
(***************************************************************************)
EXTENDS BootImage, Dtbo, Dtb, UImage, Dhtb

CONSTANTS
  Files,     \* the images at hand
  Reference, \* those of them as the standard tools lay them out
  Data,      \* what the user puts into a section or a blob
  Text,      \* what the user writes for a name or a command line
  Os,        \* and for the os version and patch level
  Page,      \* and for the page size
  Attr,      \* and for an attribute of a uImage
  Tree,      \* what the user puts in place of a device tree
  Wraps,     \* and what the user says of the wrapper
  MaxEdits,  \* bound: edits since an image at hand was unpacked
  Null

-----------------------------------------------------------------------------
(* What a directory holds                                                   *)

IsText(t) == IsSeq(t) /\ Loaded(t) = t

\* Two texts of the manifest, with any numbers.
IsOs(os) ==
  /\ os = [version |-> os.version, level |-> os.level]
  /\ os.version \in {Unset, Malformed} \cup (Nat \X Nat \X Nat)
  /\ os.level \in {Unset, Malformed} \cup (Nat \X Nat)

\* The header has room for what they say: both can be read, and every number fits
\* its field.
OsFits(os) ==
  LET number == 0 .. FieldBase - 1
      year   == {0} \cup (BaseYear + 1 .. BaseYear + FieldBase - 1)
  IN  /\ os.version \in {Unset} \cup ((number \X number \X number) \ {<<0, 0, 0>>})
      /\ os.level \in {Unset} \cup ((year \X (0 .. MonthBase - 1)) \ {<<0, 0>>})

IsWrap(w) ==
  w = NoWrap \/ /\ w = [footer |-> w.footer, padding |-> w.padding, extra |-> w.extra]
                /\ w.footer \in BOOLEAN /\ w.padding \in BOOLEAN /\ IsSeq(w.extra)

IsBoot(img) ==
  /\ img = [type |-> img.type, version |-> img.version, page |-> img.page,
            name |-> img.name, cmdline |-> img.cmdline, os |-> img.os, sec |-> img.sec]
  /\ img.version \in 0 .. 5 /\ img.page \in Nat
  /\ IsText(img.name) /\ IsText(img.cmdline) /\ IsOs(img.os)
  /\ img.sec = [s \in Section |-> img.sec[s]] /\ \A s \in Section : IsSeq(img.sec[s])

IsDtbo(img) ==
  /\ img = [type |-> img.type, version |-> img.version, page |-> img.page,
            acpio |-> img.acpio, entries |-> img.entries]
  /\ img.version \in 0 .. 2 /\ IsSeq(img.entries)
  /\ \A i \in 1 .. Len(img.entries) :
       LET e == img.entries[i]
       IN  e = [id |-> e.id, comp |-> e.comp, data |-> e.data] /\ IsSeq(e.data)

IsDtb(img) ==
  /\ img = [type |-> img.type, blobs |-> img.blobs]
  /\ IsSeq(img.blobs) /\ img.blobs # <<>>
  /\ \A i \in 1 .. Len(img.blobs) : IsSeq(img.blobs[i])

IsUImage(img) ==
  /\ img = [type |-> img.type, name |-> img.name, attr |-> img.attr, data |-> img.data]
  /\ IsText(img.name) /\ IsSeq(img.data)
  /\ img.attr = [a \in DOMAIN Named |-> img.attr[a]]
  /\ \A a \in DOMAIN Named : img.attr[a] \in Named[a] \cup {Unknown}

IsDir(d) ==
  /\ d = [wrap |-> d.wrap, img |-> d.img] /\ IsWrap(d.wrap)
  /\ d.img.type \in {"boot", "dtbo", "dtb", "uimage"}
  /\ d.img.type = "boot"   => IsBoot(d.img)
  /\ d.img.type = "dtbo"   => IsDtbo(d.img)
  /\ d.img.type = "dtb"    => IsDtb(d.img)
  /\ d.img.type = "uimage" => IsUImage(d.img)

ASSUME ImagesAssumption ==
  /\ Reference \subseteq Files /\ MaxEdits \in Nat /\ Page \subseteq Nat
  /\ \A f \in Files : IsSeq(f)
  /\ \A t \in Text : IsText(t)
  /\ \A os \in Os : IsOs(os)
  /\ \A w \in Wraps : IsWrap(w)
  /\ \A b \in Data \cup Tree : IsSeq(b)

VARIABLES
  file,   \* the image unpacked last; Null once its directory was edited
  own,    \* history: repack built file, from a directory whose texts fit
  dir,    \* what the directory says: the image and its wrapper
  edits,
  result, \* how the last command ended: "none", "done" or "error"
  out     \* what repack made of dir

vars == <<file, own, dir, edits, result, out>>

-----------------------------------------------------------------------------
\* detect_format(), for images without an AVB tail.
Detect(f) ==
  IF Begins(f, "boot") THEN "boot"
  ELSE IF Begins(f, "dtbo") THEN "dtbo"
  ELSE IF Begins(f, "fdt") THEN "dtb"
  ELSE IF Begins(f, "uimage") THEN "uimage"
  ELSE "unknown"

Readable(f) ==
  CASE Detect(f) = "boot"    -> BootReadable(f)
    [] Detect(f) = "dtbo"    -> DtboReadable(f)
    [] Detect(f) = "dtb"     -> DtbReadable(f)
    [] Detect(f) = "uimage"  -> UImageReadable(f)
    [] Detect(f) = "unknown" -> FALSE

Accepted(f) == DhtbReadable(f) /\ Readable(StripDhtb(f).inner)

\* do_unpack: what it records.
Unpack(f) ==
  LET inner == StripDhtb(f).inner
  IN  [wrap |-> StripDhtb(f).wrap,
       img  |-> CASE Detect(inner) = "boot"   -> UnpackBoot(inner)
                  [] Detect(inner) = "dtbo"   -> UnpackDtbo(inner)
                  [] Detect(inner) = "dtb"    -> UnpackDtb(inner)
                  [] Detect(inner) = "uimage" -> UnpackUImage(inner)]

\* The builders throw for a version they do not know.
Buildable(img) ==
  /\ img.type = "boot" => img.version \in 0 .. 4
  /\ img.type = "dtbo" => img.version \in {0, 1}

\* do_repack: what it writes.
RepackImage(img) ==
  CASE img.type = "boot"   -> BuildBoot(img)
    [] img.type = "dtbo"   -> BuildDtbo(img)
    [] img.type = "dtb"    -> BuildDtb(img)
    [] img.type = "uimage" -> BuildUImage(img)

Repack(d) ==
  IF d.wrap = NoWrap THEN RepackImage(d.img)
  ELSE WrapDhtb(RepackImage(d.img), d.wrap)

-----------------------------------------------------------------------------
(* What a directory is expected to come to                                  *)

\* Device trees as dtc makes them, the last one maybe followed by other bytes.
Ordered(blobs) ==
  /\ blobs # <<>> /\ Begins(blobs[1], "fdt")
  /\ \A i \in DOMAIN blobs :
       \/ LooksLikeFdt(blobs[i]) /\ blobs[i][1].total = Len(blobs[i])
       \/ i = Len(blobs) /\ i > 1 /\ ~Begins(blobs[i], "fdt") /\ ~AllZero(blobs[i])

\* An image that ends like the footer strip_dhtb looks for.
LikeFooter(inner) == EndsWith(inner, <<Mark>>) \/ Filled(inner)

\* Repack can make an image of it that says the same.
Sane(d) ==
  /\ Buildable(d.img)
  /\ d.img.type = "dtb" => Ordered(d.img.blobs)
  /\ d.wrap = NoWrap \/ d.wrap.footer
       \/ (~d.wrap.padding /\ ~LikeFooter(RepackImage(d.img)))

\* What an image has room for.
CarriedImg(img) ==
  CASE img.type = "boot" ->
         [img EXCEPT
            !.page = IF img.version > 2 \/ @ = 0 THEN DefaultPage ELSE @,
            !.name = IF img.version > 2 THEN <<>> ELSE Loaded(Field(@, NameLen)),
            !.cmdline = Loaded(Field(@, ArgsLen + ExtraLen)),
            !.sec = [s \in Section |->
                       IF s \in SectionsOf(img.version) THEN @[s] ELSE <<>>]]
    [] img.type = "uimage" ->
         [img EXCEPT
            !.name = Loaded(Field(@, UImageNameLen)),
            !.attr.comp = IF @ = Unknown THEN 0 ELSE @]
    [] OTHER -> img

Carried(d) == [d EXCEPT !.img = CarriedImg(@)]

\* No text is cut off, and no signature is left over from version 4.
Fits(d) ==
  /\ Sane(d)
  /\ d.img.type = "boot" =>
       /\ Len(d.img.name) <= NameLen /\ Len(d.img.cmdline) <= ArgsLen + ExtraLen
       /\ d.img.version = 3 => d.img.sec.boot_signature = <<>>
  /\ d.img.type = "uimage" => Len(d.img.name) <= UImageNameLen

-----------------------------------------------------------------------------
Init ==
  /\ file = Null /\ own = FALSE /\ dir = Null /\ edits = 0
  /\ result = "none" /\ out = Null

\* `abr unpack`; a parser throws before the first write.
UnpackFile(f) ==
  IF Accepted(f)
    THEN file' = f /\ dir' = Unpack(f) /\ result' = "done" /\ out' = Null
    ELSE result' = "error" /\ UNCHANGED <<file, dir, out>>

UnpackImage ==
  \E f \in Files :
    /\ UnpackFile(f)
    /\ IF Accepted(f) THEN own' = FALSE /\ edits' = 0 ELSE UNCHANGED <<own, edits>>

UnpackOutput ==
  /\ out # Null /\ UnpackFile(out)
  /\ own' = IF Accepted(out) THEN Fits(dir) ELSE own
  /\ UNCHANGED edits

RepackDir ==
  /\ dir # Null /\ UNCHANGED <<file, own, dir, edits>>
  /\ IF Buildable(dir.img) THEN out' = Repack(dir) /\ result' = "done"
     ELSE result' = "error" /\ UNCHANGED out

-----------------------------------------------------------------------------
(* The user's edits                                                         *)

Edit(d) ==
  /\ edits < MaxEdits /\ edits' = edits + 1
  /\ dir' = d /\ d # dir
  /\ file' = Null /\ own' = FALSE /\ result' = "none" /\ out' = Null

Is(type) == dir # Null /\ dir.img.type = type

EditBoot ==
  /\ Is("boot")
  /\ \/ \E v \in 0 .. 5 : Edit([dir EXCEPT !.img.version = v])
     \/ \E p \in Page : Edit([dir EXCEPT !.img.page = p])
     \/ \E t \in Text : Edit([dir EXCEPT !.img.cmdline = t])
     \/ \E t \in Text : Edit([dir EXCEPT !.img.name = t])
     \/ \E o \in Os : Edit([dir EXCEPT !.img.os = o])
     \/ \E s \in Section, b \in Data : Edit([dir EXCEPT !.img.sec[s] = b])

EditDtbo ==
  /\ Is("dtbo")
  /\ \/ \E v \in 0 .. 2 : Edit([dir EXCEPT !.img.version = v])
     \/ Edit([dir EXCEPT !.img.acpio = ~@])
     \/ \E i \in DOMAIN dir.img.entries, b \in Data :
          Edit([dir EXCEPT !.img.entries[i].data = b])
     \/ \E i \in DOMAIN dir.img.entries, c \in 0 .. 3 :
          Edit([dir EXCEPT !.img.entries[i].comp = c])
     \/ \E i \in DOMAIN dir.img.entries :
          \/ Edit([dir EXCEPT !.img.entries = Append(@, @[i])])
          \/ Edit([dir EXCEPT !.img.entries = SubSeq(@, 1, i - 1) \o SubSeq(@, i + 1, Len(@))])

EditDtb ==
  /\ Is("dtb")
  /\ \/ \E i \in DOMAIN dir.img.blobs, b \in Tree :
          Edit([dir EXCEPT !.img.blobs[i] = b])
     \/ \E b \in Tree : Edit([dir EXCEPT !.img.blobs = Append(@, b)])

EditUImage ==
  /\ Is("uimage")
  /\ \/ \E t \in Text : Edit([dir EXCEPT !.img.name = t])
     \/ \E a \in DOMAIN Named, n \in Attr \cup {Unknown} :
          /\ n \in Named[a] \cup {Unknown}
          /\ Edit([dir EXCEPT !.img.attr[a] = n])
     \/ \E b \in Data : Edit([dir EXCEPT !.img.data = b])

EditWrap == dir # Null /\ \E w \in Wraps : Edit([dir EXCEPT !.wrap = w])

Next ==
  \/ UnpackImage \/ UnpackOutput \/ RepackDir
  \/ EditBoot \/ EditDtbo \/ EditDtb \/ EditUImage \/ EditWrap

Spec == Init /\ [][Next]_vars

-----------------------------------------------------------------------------
(* Properties                                                               *)

\* Texts in the directory are texts a manifest can hold, numbers fit the fields
\* they came from, contents are sequences of cells, and an own image was built
\* without an edit since.
TypeOK ==
  /\ dir # Null => IsDir(dir)
  /\ edits \in 0 .. MaxEdits /\ result \in {"none", "done", "error"}
  /\ file # Null => dir # Null
  /\ own => file # Null

\* An image repack made can be unpacked again, and is taken for one of its type:
\* build's cursors, offsets and checksums satisfy every check of parse.
OutputAccepted ==
  out # Null /\ Sane(dir) =>
    Accepted(out) /\ Detect(StripDhtb(out).inner) = dir.img.type

\* What repack wrote says what the directory said: no section, blob, text or
\* number is cut, shifted, or read back as another, unless the image's version has
\* no room for it.  Of the os version and patch level this is said only of texts
\* that can be read, with numbers in the width of their fields; whatever they are,
\* nothing else in the image suffers from them.
OutputSaysIt ==
  out # Null /\ Sane(dir) =>
    LET read == Unpack(out)
    IN  read = IF Is("boot") /\ ~OsFits(dir.img.os)
                 THEN [Carried(dir) EXCEPT !.img.os = read.img.os]
                 ELSE Carried(dir)

\* Of an image laid out as the standard tools do it (mkbootimg: with a command line
\* shorter than its first field), or by repack itself, unpack leaves a directory
\* that has room for all it says, and the image comes back byte for byte when
\* nothing is edited.
UntouchedVerbatim ==
  file # Null /\ (own \/ file \in Reference) =>
    Fits(dir) /\ (out # Null => out = file)

\* The id is taken over the sections the image of this version has, as they are
\* read from it, in their order.
IdCoversSections ==
  out # Null /\ Is("boot") /\ Sane(dir) =>
    LET inner == StripDhtb(out).inner
        order == <<"kernel", "ramdisk", "second", "recovery_dtbo", "dtb">>
        has   == {i \in 1 .. 5 : order[i] \in SectionsOf(inner[1].version)}
    IN  inner[1].version <= 2 =>
          inner[1].id = [i \in has |-> SectionIn(inner, order[i])]

\* Who follows recovery_dtbo_offset finds the overlay where parse finds it, if
\* the header takes one page.
RecoveryDtboFound ==
  out # Null /\ Is("boot") =>
    LET h == StripDhtb(out).inner[1]
    IN  h.version \in {1, 2} /\ h.size.recovery_dtbo > 0
          /\ BootHeaderLen[h.version] <= h.page
        => h.dtbo_at = Starts(h).recovery_dtbo

\* A uImage comes back with the operating system, architecture and type it had.
AttrsKept ==
  file # Null /\ out # Null /\ Is("uimage") =>
    StripDhtb(out).inner[1].attr = StripDhtb(file).inner[1].attr
=============================================================================
