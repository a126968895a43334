# abr in TLA+

Models, model-checking runs and machine-checked proofs for `abr`, the
unpacker and repacker of Android boot-family images in this repository.

`abr unpack` takes an image apart into a directory that a person can edit;
`abr repack` reads the directory back and writes an image. The program is one
sequential process per command and keeps nothing but that directory, so what
makes it hard to get right is not threads: it is the directory as shared state
of commands, failures and people; bytes that must come back exactly although
they went through a decoder; a signature that must only ever cover what it was
made for; and cursors, paddings and lengths.

## The system

| Part | State | Operations | Talks to |
|---|---|---|---|
| commands, dispatch (`main.cpp:657-788`) | none of its own | `do_unpack`, `do_repack`, `print_info`, `detect_format` | everything below |
| component I/O (`main.cpp:96-151`) | component files, `.abr_raw/*.raw` | `save_component`, `load_component`, `save_raw`, `load_raw` | compression, MTK header, SHA-256, manifest |
| manifest (`manifest.cpp`) | ordered lines, in memory and in `manifest.txt` | `load`, `save`, `set`, `get`, typed readers | file I/O |
| file I/O, cursors (`byte_io`) | a position in a buffer | `read_file`, `write_file`, `BinaryReader`, `BinaryWriter`, `align_up` | file system |
| compression (`compression.cpp`) | codec contexts, growing buffers | `detect_codec`, `compress`, `decompress`, the LZO and LZ4 legacy framings | zlib, lz4, zstd, liblzma, bzip2, minilzo |
| MTK header (`legacy/mtk.cpp`) | none | `has_`, `strip_`, `add_mtk_header` | component I/O |
| DHTB wrapper (`legacy/dhtb.cpp`) | none | `strip_dhtb`, `wrap_dhtb` | dispatch, SHA-256 |
| AVB (`vbmeta.cpp`, `main.cpp:153-230, 453-519`) | header, hash, signature, descriptors, host, footer | `parse`, `build`, `save_avb_tail`, `reattach_avb_tail` | OpenSSL, SHA |
| hashes (`sha.cpp`) | block buffer, bit count | `update`, `finish` | `recompute_id`, AVB, component I/O |
| boot (`boot_image.cpp`) | header fields, sections | `parse`, `build`, `recompute_id`, `OsVersion` | cursors, SHA-1 |
| vendor_boot (`vendor_boot.cpp`) | header fields, fragment table, sections | `parse`, `build` | cursors |
| dtbo, dtb (`dtbo.cpp`, `dtb.cpp`) | entry table; blobs | `parse`, `build`; `split`, `join` | zlib |
| uImage (`uimage.cpp`) | header, data | `parse`, `build`, the names of its numbers | CRC-32 |

Unpack: `read_file` → `strip_dhtb` → `detect_format` → the container's `parse`
→ per component `save_component` or `save_raw` (each one or two file writes) →
`save_avb_tail` → `Manifest::save`, and for a DHTB image a second
load/save of the manifest. Repack goes the other way: `Manifest::load` →
`load_component`/`load_raw` → `build` → `reattach_avb_tail` → `wrap_dhtb` →
`write_file`.

What is hard, and what must hold:

* **The directory.** Files are written in place, one after the other, the
  manifest last. A decoder may throw, a write may fail (noticed or not), the
  process may be killed, the directory may hold another image from before, and
  the user edits anything between commands. Wanted: an untouched component
  comes back byte for byte, an edited one is encoded anew, nothing stale leaks
  in, no manifest names a file that is not there, success means complete.
* **Signatures.** Repack passes a signature on, makes one, or refuses. Wanted:
  never a signature over something else, never a refusal without a cause, host,
  blob and footer inside the partition.
* **Streams and cursors.** Hash buffering, page alignment, table offsets,
  growing buffers: off-by-one territory at block, page and buffer limits.
* There is no concurrency, no network and no retry in this program; nothing of
  the kind is modelled.

`PROJECT.json` lists every component with its status, and under `hazards` each
place in the code that a test would hardly reach, with the properties that
cover it or the reason why none does yet.

## The modules

**`Component`** — the bytes of a component as far as unpack and repack tell them
apart: a stream has a codec, a content and the encoder that made it (`"vendor"`
for whoever built the image, `"abr"` for this program), possibly behind an MTK
header. The encoder is the point of the abstraction: recompressing gives the
same content but not the same bytes. `Cut` is the content of something that was
not written whole. `Lenient` are the codecs whose decoder returns the part it
could decode instead of throwing (gzip, both lz4 forms and zstd without
a stated size, `compression.cpp:79, 134, 169, 203-215`).

**`Workspace`** — the two commands on one directory. `plain`, `raw` and `manifest`
are the files; `mem` is the `Manifest` object, `built` the image repack has
assembled, `pc`/`at` the place in the command; `out` and `exit` are what the
last command left to its caller. One action per write or read that can fail:

| Code | Actions |
|---|---|
| `do_unpack` up to its first write | `BeginUnpack`, `RejectInput` |
| `save_component`, `save_raw` | `Skip`, `CannotDecode`, `SavePlain`, `SaveRaw` |
| `Manifest::save` | `SaveManifest` |
| the DHTB branch of `do_unpack` | `SaveWrapper`, `ResaveManifest` |
| `do_repack` | `BeginRepack`, `LoadComponent`, `LoadWrapper`, `MissingFile`, `WriteOut` |
| the operating system | `Kill`; outcomes `abort` and `silent` of each write |
| the user, between commands | `EditContent`, `EditCompression`, `EditMtkName`, `DropComponent`, `DeleteFile`, `RemoveRaw` |

The manifest is a sequence of lines in the order of the code's `set` calls, written
through a buffer that may reach the disk up to any byte (`manifest.cpp:35-39`).
`CutManifests` is what `Manifest::load` makes of such a beginning: no line, whole
lines (`FirstLines`), or whole lines and a part of the next, which counts where a part
reads as something else: the name of a file that is not there (`part`), or the text
of another codec (`Beginnings`, `lz4` of `lz4_legacy`). `whole` is a history variable:
no write of the last unpack was cut.

The components are a list of any length; which of them are codec-wrapped is a
constant. That covers boot (kernel, ramdisk, second | dtb, …), vendor_boot
(fragments | dtb, bootconfig), dtbo and uImage alike, whose `unpack_*`
functions differ in the list only. For dtb and bootconfig read `save_raw`.

**`EditSession`** — the abstract promise, without files and manifest: an image is
opened, what is wanted of each component is changed, an output is assembled from
the originals that are kept and from new encodings. **`WorkspaceSession`** maps
`Workspace` to it: the open image is the last one whose unpack was completed;
what is wanted is read off manifest and files.

**`WorkspaceInvariant`** — the inductive invariant. **`WorkspaceProofs`**,
**`WorkspaceSessionProofs`** — the theorems. **`MCWorkspace`** — instances.

**`Vbmeta`** — an AVB blob through unpack, edits and repack, over any number of
rounds, for its three places: `vbmeta.img`, behind an opaque host (found through
the footer), and as the tail of a boot, vendor_boot or dtbo image. `image` is
the file unpacked last, `dir` its fields as the directory holds them, `out` the
result. A hash is the content it was taken over, a signature the key and the
hash. Lengths are units: what counts is whether host, blob and footer fit.
**`VbmetaProofs`**, **`MCVbmeta`**: theorems and instances.

**`ShaStream`** — the buffering of `Sha1`, `Sha256`, `Sha512`: `update` copies round
by round, `finish` appends the mark, the zeros and the length. The block is a
sequence of bytes and `process_block` the append to `hashed`. The three classes
are one text with different block and length sizes; both are constants.
**`ShaStreamProofs`**, **`MCShaStream`**: theorems and instances.

**`VendorBoot`** — vendor_boot images through parse, edits and build. A file is a
sequence of cells; a header or a table entry is one cell with its numbers
followed by zeros for the rest of its length, so positions, pages and bounds are
those of the code. `ReadHeader` … `ReadBootconfig` are the reads of `parse` in
their order, `Reject` is any of its throws; `Build`, `Concat`, `PutHeader` …
`PutBootconfig`, `Take` are `build`, with one step per fragment for its two loops.
Between them the directory holds the content (`img`), which the user edits. An
output can be unpacked again; `origin` remembers what it was built from.
**`VendorBootProofs`**, **`MCVendorBoot`**: theorems and instances. **`ByteIOProofs`**
holds the lemmas about pages, padding and places that all proofs about byte layouts
share, and the rule of induction.

**`Images`** — the other formats through `unpack`, edits and `repack`, over any number
of rounds, with or without a DHTB wrapper: `file` is the image unpacked last, `dir`
what the directory says of it, `out` what repack made. Here the two commands are
one step each, since where they can fail between their writes is `Workspace`'s
matter; what counts is what they make of every byte. The formats are operators
in modules of their own, each with what parse refuses (`...Readable`), what
unpack records (`Unpack...`) and what build writes (`Build...`):

| Module | Code |
|---|---|
| **`ByteIO`** | `align_up`, padding, fields and ranges; a file is a sequence of cells, as in `VendorBoot`, which uses it too |
| **`ManifestText`** | what trimming and line breaks leave of a value (`manifest.cpp:10-38`) |
| **`BootImage`** | `boot_image.cpp`, `unpack_boot`, `repack_boot`: sections and pages of versions 0 to 4, the command line in two fields, the id (it is what the SHA-1 is taken over), `recovery_dtbo_offset`, the os version packed and as texts |
| **`Dtbo`** | `dtbo.cpp`: the table, whose rows may lie anywhere and be wider than known, shared and deflated blobs |
| **`Dtb`** | `dtb.cpp`: device trees split by `totalsize` and joined |
| **`UImage`** | `uimage.cpp`: a checksum is the content it is taken over; numbers go through names |
| **`Dhtb`** | `dhtb.cpp`: footer, padding, trailing bytes |

`Accepted`, `Unpack` and `Repack` in `Images` put them together as `do_unpack` and
`do_repack` do; `Carried` says what an image has room for, and `Sane` what a
directory must be like for that. `MkBoot` is what mkbootimg makes of the same parts.
**`MCImages`**: fifteen images that are read and eight that are refused. **`ImagesProofs`**: theorems about each format, the wrapper, and
the rounds.

**`Codecs`** — streams of every codec. `Begin`, `EncodeBlock`, `EndEncode` write one, as
this program does or as a vendor's tool (which stores an LZO block that does not
shrink, and may have a longer header); `CutStream` and `AppendTail` are what may
have become of it; the `Decode...` actions are the loops of `compression.cpp`, one
round each. The LZO and LZ4 legacy framings are read cell by cell; of a library's
stream only how much data it has and whether it has its end counts, and the
code's own part is the buffer that grows (`cap`), with its width. A piece of such a
stream carries all the data up to its end, since a library that has the piece has
those before it. A second lz4 stream behind the first one is taken to be shorter
than what its magic reads as where a length is expected (389 MB, `Wild`).
**`CodecsProofs`**, **`MCCodecs`**: theorems and instances.

Operators marked "Mutant" are single mistakes a change to the code could make.
Each is checked to violate the property it is paired with in `PROJECT.json`, so
every property of every run is known to be able to fail. No specification uses
them.

## The runs

| Run | Shows | Bounds |
|---|---|---|
| `faults` | `UntouchedVerbatim`, `RoundTrip`, `EditsReachOutput`, `OutputFollowsManifest`, `ManifestNamesExistingFiles` under kills, failed and unnoticed writes | a codec-wrapped and a plain component, DHTB trailing bytes, two contents, four codecs, one of them the beginning of another, seven images (with and without MTK header and wrapper, damaged ones of a lenient and of a strict decoder, one without a kernel) |
| `session` | `Workspace` implements `EditSession`; replay against recompression under every edit; an unpack that reports success is complete when no write fails unnoticed | three images, all edits, kills and failed writes |
| `silent` | finding: an unnoticed write failure ends in success | as `faults` |
| `stale_raw` | finding: a stream of another unpack is replayed | two coded components, one undecodable |
| `vbmeta` | `NoStaleSignature`, `UntouchedVerbatim`, `RefusalJustified`, `FooterInBounds` | three algorithms, three keys of two sizes, all three forms, host lengths 1 to 3, a blob altered after signing, a padded image, a footer that states no host size, a tail behind a gap, one without a signature |
| `vbmeta_tail` | finding: the version is not recorded | one image |
| `vendor_boot` | `OutputSaysIt`, `OutputAccepted`, `UntouchedVerbatim` | headers of two and three cells, pages of two and three, entries of two, up to two fragments of up to two bytes (four after a change of version), both versions and an unknown one, an image cut at every place, one with its fragments in another order than the table, one whose entry points outside |
| `vendor_boot_no_table` | finding: the bootconfig of an image without fragments is lost | one image |
| `sha` | `NoByteLost`, `HashesPaddedMessage`, `CallsReturn` | blocks of 5 bytes, a length of 2, messages up to 11 bytes of zeros and marks |
| `images` | `OutputAccepted`, `OutputSaysIt`, `UntouchedVerbatim`, `IdCoversSections`, `RecoveryDtboFound` | 23 images of four formats, nine of them as the standard tools make them; up to two edits after each unpack, of every line and file there is |
| `uimage_nameless` | finding: a number without a name becomes another | one image |
| `codecs` | `NothingForeign`, `PartOnlyIfLenient`, `RefusedForCause`, `DecodeEnds` | nine kinds of streams, blocks and words of two cells, contents of up to six blocks, every length a block can have, every cut, buffers that double up to three times and lengths that wrap at sixteen |

Why these bounds are enough. In `Workspace` components do not look at each other;
two suffice to have one behind and one ahead of any point of failure, one of
each kind, and `Extra` is the third. Two contents tell an edit from none and
from an edit taken back. Any number of commands and edits follow one another:
nothing counts them. In `Vbmeta` three host lengths reach the cases shorter,
equal and longer than before, and longer than the partition. In `ShaStream` five
bytes with a two-byte length have all cases of the padding (room for mark and
length, for the mark only, for neither) and eleven bytes cross two block limits,
in one call or several. In `VendorBoot` a header is shorter than, as long as and
longer than a page, sections fill their page, miss it or are empty, and two
fragments are enough for an offset that is not zero. `MaxLen` keeps an image from
growing for ever when its fragments are merged (version 3) and new ones added.
In `Images` a boot header is likewise shorter and longer than a page, texts are
shorter than, as long as and longer than their fields, with blanks at the limit,
and every section is empty, of one and of several cells, one of them ending like
the footer of a wrapper; two edits are what it
takes to change a version and something the other version lacks. Unpacking an
output counts as no edit, so rounds are not bounded. In `Codecs` a block is
stored, smaller than, as long as and longer than its data, and the buffers
overflow at their first length, at a later one and past half their range.
The proofs below do without bounds.

Fairness: `sha` assumes weak fairness of the running call (`Running`), `codecs` of the
running decoder (`Decode`). They are the two places with loops whose steps are computed:
rounds that copy what fits, and buffers that grow. That the other loops end is
not stated, since they go over lists. The program is a
single thread that never waits for anything, so a call that has begun keeps running.
Nothing is assumed of who makes the next call.

## Proofs

All theorems are checked by TLAPS for every value of the constants that meets
the named assumptions.

*Workspace* (`ComponentAssumption`, `WorkspaceAssumption`). `IInv` is the
conjunction of
`TypeOK`; `Control` (what `pc` says about the image and the objects);
`UnpackInv` (what an unpack whose writes were whole has recorded up to `at`, in
`mem`, the files and the streams); `SessionInv` (what no edit touches afterwards:
recorded hashes, the streams that are still there); `RepackInv` (each assembled
component is `LoadedBlob` of the directory as it stands); `FilesInv` (what a
manifest names is there). None of the properties is inductive alone:
`UntouchedVerbatim` needs that the stream under `.abr_raw` is the image's
(`SessionInv`), which needs that unpack recorded it (`UnpackInv`), which needs to
know which write comes next (`Control`). `Invariance` has one lemma per action.
The theorems for these six properties follow from `IInv` alone. `SuccessMeansUnpacked`
needs one invariant more (`SuccessInv`): an unpack that is running, or has succeeded,
has made every write whole if none can fail unnoticed. `SuccessOfWholeUnpack` states it
for any faults, `SuccessIsComplete` for those the program notices; the run `silent` is
the counterexample to more.

*Refinement* (`SessionAssumption` besides). With `IInv`, every step of
`Workspace` is a step of `EditSession` or leaves the mapped state alone: most
writes happen while nothing is open; the last write of an unpack is `Open`;
the first step of the next unpack `Close`; the user's acts are `Edit`; `WriteOut`
is `Repack`.

*Vbmeta* (`VbmetaAssumption`). `IInv` adds to the types that an image at hand is
`Sound` (hash and signature agree with each other, the vendor's signature is on
a hash the vendor signed), that no edit touches the recorded hash, signature and
partition size, and that the last result is what `Built` makes of the directory.
`Sound` has to be carried round the loop unpack → edit → repack → unpack, which
is why it is part of the invariant and not of the property. Lengths are any
numbers the footer's one check lets pass (`WellFormed`): a host size of 0 or beyond the
blob, gaps in front of the blob and behind it. `OwnLayout` is the hypothesis of
`UntouchedVerbatim` that leaves them out, as the code does not restore them.

*ShaStream* (`ShaAssumption`). The invariant states what is hashed so far as a
prefix in whole blocks of message, mark, zeros and length, and a bound on the
zeros. Its one delicate point is why `while (buffer_len_ != 56)` stops after
less than a block: the invariant counts the zeros against the room left.

*VendorBoot* (`VendorBootAssumption`). An image is described independently of parse
and build: `ImageOf` says of a file that it is laid out for a content, with header,
fragments (`LaidOut`), dtb, table (`Tabled`) and bootconfig at their pages. While parse
runs, what it has read is what lies at the places the header gives (`ParseInv`). While
build runs, the file is the beginning of the layout, each part put behind the last and
filled to its page, each fragment's offset the sum of the lengths before it (`BuildInv`);
the two loops are actions, so this sum is carried by the invariant from one fragment to
the next and needs no recursion. An output is an image of the content it was made from
(`RoundInv`), which makes it an input like any other for the next round. For
`UntouchedVerbatim` a second invariant (`AgainInv`) follows build along the file the
content came from: as long as nobody edited, what has been written is its beginning,
cell by cell, gaps included.

*Codecs* (`CodecsAssumption`). A framing is described by where each block begins (`at`)
and how much of the content lies before it (`from`): `Framing` says what words and data
lie at each of these places *if the stream goes that far* (`Seen`). So one description
holds of the encoder's stream as it grows, of what a cut leaves and of what has something
behind it; `EndIs` tells the three apart. The decoder is then always at one of the places
(`InFraming`: at the end, or before a block), and what it has is the content before it;
a block that is not all there means the stream was cut. For the libraries, `Packed` says the
same of their pieces (`LibraryReads`). `GrowInv` says that what a library gave
is what the growing buffer holds, and that zlib is told of all the room there is, unless
lengths wrap (`GzipWraps`). `CapInv` is why a decoder with a buffer of `unsigned
int` can meet the length 0 only for contents past half its range. `NothingForeign` and
`PartOnlyIfLenient` except two cases in so many words: `Coincidence`, a coded LZO block
behind two equal lengths, and `GzipWraps`. Both exceptions are needed: without
either of them the run finds a counterexample. The chain from
`EncodeBlock` through `CutStream` and `AppendTail` to the last `Decode...` step is one
invariant because none of the properties holds of a decoder that is given anything else
than what an encoder made.

*Images* (`BootAssumption`, `DtboAssumption`, `DtbAssumption`, `UImageAssumption`,
`DhtbAssumption`, `ImagesAssumption`, and `KindsApart`: a header is no byte, a sequence is
not the mark of a blob that cannot be read, a directory is there; it ranges over all
values, so it is a hypothesis of the theorems and not evaluated by TLC). First the builders,
one by one, for contents of any size:

* boot: `BuildIsReadable` and `SectionsReadBack` follow build's cursor: each section is
  put behind what is there and filled to a page (`PutStep`), so the length reached is where
  parse looks for the next one (`Cursors`), and a later section leaves an earlier one where
  it is (`PutKeeps`). The length of the whole is enough for what the header states because
  `align_up` is monotone, which matters for a signature left over in version 3: it is
  written and not stated. `BootReadsBack` adds the fields: the two parts of the command line
  are one again (`FieldsTogether`), and the five numbers of the os version, packed with
  shifts and masks, come out of the number as they went in (`PackedAndUnpacked`), if
  each fits its field (`OsFits`). A user may write any number (`IsOs`); one that
  does not fit is masked, the others of the five are not touched
  (`AnyPackedAndUnpacked`), and all other fields come back as they were.
  `DtboOffsetIsPlace` needs that the header
  takes one page; the place is then a number of whole pages (`PagesAfter`).
* dtbo: any number of rows and blobs. `FlattenSeq` is the concatenation whose parts lie one
  behind the other (`FlattenFacts`), the cursor a running sum (`CursorFacts`), so every
  offset in a row is where its blob lies (`DtboBuilt`, `DtboReadsBack`).
* device trees: `split_fdt_blobs()` goes by what it finds in the file, so that it stops
  where `join_fdt_blobs()` put the next tree is an induction from the last tree to the first
  (`DtbReadsBack`, under `Ordered`: each tree states its own size).
* uImage: both checksums are taken over what is read again, and a number without a name
  becomes one without a name (`UImageReadsBack`).

tlapm cannot instantiate the induction rules of its library, whose parameter is an operator.
`Induction` in `ByteIOProofs` is the rule for a *set* of numbers instead, from the
well-foundedness of the order of the naturals; a recursion is taken as the function that
satisfies its equation (`Joins`, `Sums`, `Split`), which is shown to exist.

`WrapAndStrip` is the round trip of the DHTB wrapper; with it `RepackedReadsBack`: what repack
makes of any sane directory is accepted, is of its type, and is unpacked to what the
directory said. Then the rounds. `IInv` says that the directory is one (`IsDir`), that the
output is what repack makes of it as it is now, that it is what unpack recorded of the
file, and that an own file is what repack makes of it again. That the directory is one is what the
builders need, so it has to be shown of *any* file that is accepted (`UnpackedSound`), an
output included, and kept by each edit. `TypeOK`, `OutputAccepted` and `OutputSaysIt` follow.
For `UntouchedVerbatim`, `RepackOfCarried` says that what an image has lost of a directory whose
texts fit (a name in version 3, a malformed version, a section the version lacks) does not
count when it is built again, and `CarriedFits` that what is left fits again.
An own file meets this by the invariant (`OwnVerbatim`); of the
reference images `Verbatim` has the hypothesis that each is what `Repack` makes of some
directory with texts that fit, or what `MkBoot` makes of one whose command line is shorter
than the first field. `MkBootIsBuild` is why the second comes to the first: of such a
command line mkbootimg keeps no byte back. Of a longer one it does, and the image does not
come back; such images (`BootLong`) are not among the references. That mkdtboimg, dtc and
mkimage lay their images out as the builders here do is not shown: the run `images` has
images of theirs, as far as one can say of their sources and of the tests.
`HeaderStays` is what is
left of an image when the wrapper says what it cannot hold, for `RecoveryDtboFound`,
which does not ask for a sane directory.

Only model-checked: the liveness properties (`CallsReturn`, `DecodeEnds`),
which are out of the prover's reach under fairness. Every invariant of every passing run is
proved. The runs that end in a finding show a statement that does not hold, so there is
nothing to prove about it.

## Findings

1. `silent`: `Manifest::save` (`manifest.cpp:38`) does not look at its stream,
   `write_file` (`byte_io.cpp:18-24`) looks before the buffer is flushed; unpack
   can report success over a cut directory.
2. `stale_raw`: nothing ties the stream under `.abr_raw` to the recorded hash
   (`main.cpp:126`); after a failed second unpack repack can replay another
   image's bytes.
3. `vbmeta_tail`: the required libavb version of an AVB tail is not recorded
   (`main.cpp:177-186, 207`), so an untouched signed tail of another version than
   1.0 is refused.
4. `vendor_boot_no_table`: a version 4 vendor_boot with a bootconfig and no
   fragments loses the bootconfig (`vendor_boot.cpp:73-102`) and gains a table.
5. `uimage_nameless`: a number without a name in `uimage.cpp:8-57` is `unknown` in the
   manifest, and `lookup` (`main.cpp:548`) takes the first such number for it: a
   PowerPC uImage (7) comes back for architecture 1.

Two more are named by the properties of `codecs` as exceptions without which they do not
hold:

* `Coincidence`: `lzo_compress` (`compression.cpp:360-371`) writes a block as coded,
  whatever its length, and its decoder (`:403`), like the kernel's, takes two equal lengths
  for a stored block. When lzo1x_1 codes a block to exactly its own length, what was
  compressed does not come back. It does so for some short inputs that repeat a little, and a
  last block may be short. lzop stores a block that does not shrink.
* `GzipWraps`: gzip contents of 4 GiB are beyond the `uInt` lengths of `zlib_run`
  (`compression.cpp:63, 70`): the output holds bytes that were never decoded, or the decoder
  gives up.

Smaller departures from the byte-for-byte round trip, which the properties leave
out by what they ask of an image: a `vbmeta.img` padded behind its blob loses the
padding (`vbmeta.cpp:382`); zeros behind the last device tree are dropped
(`dtb.cpp:25-31`, on purpose); an id of another scheme than mkbootimg's is
replaced (`main.cpp:299`, on purpose); blanks at the ends of a name or command line
and what follows a line break in one are lost (`manifest.cpp:28`); shared blobs and
a table behind its data are laid out anew (`dtbo.cpp:122`); an image that ends in the
SEANDROID mark, in a wrapper whose manifest denies a footer, loses the mark to the
next unpack (`dhtb.cpp:39-46`, `LikeFooter`). Further:

* AVB: what lies between a container and the blob of its tail (`main.cpp:156-159`) is
  not kept, and the footer's host size becomes the container's (`main.cpp:210`); a footer
  that states the host size 0 is rewritten with the host's length (`vbmeta.cpp:393`); the
  blob is taken as long as its header says, not as the footer's `vbmeta_size`.
* boot: of a command line of 512 bytes or more in header versions 0 to 2 mkbootimg
  keeps the last byte of the first field for a NUL (`mkbootimg.py:571-575`),
  `BootImage::build` does not (`boot_image.cpp:177-182`): the image changes although nothing
  was touched, against what `src/README.md:42-43` says. `MCImages` has such an image
  (`BootLong`); no word of it is lost.
* boot: what follows the last section is dropped; a version or patch level that cannot be
  read drops the other with it (`main.cpp:289`), one that does not fit is masked
  (`boot_image.cpp:24-28`).
* vendor_boot: gaps between fragments, fragments in another order than the table
  (`vendor_boot.cpp:85, 106-113`), types without a name (`:24`), and a table whose
  `entry_size` is larger than an entry are laid out anew.
* dtbo: a deflated blob that is cut short is inflated as far as it goes (`dtbo.cpp:53`).
* Streams: a second stream behind the first is dropped without a word by every decoder
  but zstd's with a stated size, which refuses it; `PartOnlyIfLenient` speaks of the first
  stream.

## Abstractions, and what is not modelled

* Contents are members of a small set; the hash of a content is told apart from
  that of every other (no collisions).
* A cut write leaves something no image contains (`Cut`) rather than each prefix,
  except for the manifest, of which every beginning is modelled that reads differently.
* Host and container content of `Vbmeta` are opaque; an edit may give it any
  length up to `MaxHost`, but not none (an empty `host_prefix.bin`). The `hash=` and
  `signature=` lines are not edited. The files of an AVB tail (`main.cpp:187-195`) are
  not among the writes of `Workspace`.
* Integers of the image formats are 32 or 64 bits wide; the models use numbers
  without a bound, as no file near 4 GiB passes the readers' bounds checks with
  a wrapped sum. The exceptions are the five numbers of the os version, which keep
  their bits, and the buffer lengths of `Codecs`, which wrap at `Width` where the
  code's do (gzip and bzip2).
* In `Images` the id, the checksums and the DHTB digest are the contents they are
  taken over, a deflated blob knows who deflated it, and addresses, timestamps and
  a dtbo entry's words other than id and compression are left out: the code hands
  them on as they are. `Edit...` only writes texts a manifest can hold.
* In `Codecs` a stream is cut or followed by something, not both, and its blocks are
  not damaged inside: what a library makes of garbage is not this program's doing.
  When a stream is cut, what its library still gets out of it is all the data in
  front of the cut. Cuts leave the magic whole: without it `detect_codec` sees no
  stream.
* Not modelled: `info` (read-only text), the byte order of integers and the number
  and hex formats of the manifest (conversions without a decision), the 512 bytes
  of an MTK header, the layout of vbmeta's header and descriptors (handed on as
  they are), `process_block` and RSA (arithmetic that test vectors settle),
  third-party codecs, build files.

## Plan

Done: every model of the list, with proofs of all the invariants that the runs check and of the
refinement.

Left: the formats inside what `Vbmeta` hands on as it is (header and descriptors), which is
layout without a decision, and the lines `hash=` and `signature=` as things a user may
edit.
