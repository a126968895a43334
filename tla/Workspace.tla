------------------------------ MODULE Workspace ------------------------------
(***************************************************************************)
(* `abr unpack` and `abr repack` working on one directory.                 *)
(*                                                                         *)
(* The directory holds one file per component (plain), the original        *)
(* stream of each codec-wrapped component (raw, under .abr_raw), and       *)
(* manifest.txt.  Unpack fills it file by file and writes the manifest     *)
(* last; the user edits it with anything at hand; repack reads it back and *)
(* writes one output image.  Each write is a step of its own, so a command *)
(* can fail or be killed between any two of them, and the directory may    *)
(* hold what an earlier unpack left there.                                 *)
(*                                                                         *)
(* Component Extra is dhtb_trailing_extra, the one component saved after   *)
(* the manifest, by the DHTB branch of do_unpack.                          *)
(***************************************************************************)
EXTENDS Component

CONSTANTS
  NumComp,   \* components an image can have; 1 .. NumComp, in saving order
  Coded,     \* those that go through save_component; the others save_raw
  Beginnings, \* what can be left of a codec's text when its line is cut
  Images,    \* the images the user has at hand
  UserActs,  \* what the user does to the directory between two commands
  Faults     \* what can go wrong in a command

Comp  == 1 .. NumComp
Extra == NumComp + 1
File  == 1 .. Extra

Flags == {{}, {"footer"}, {"footer", "padding"}}
Dhtb  == [flags : Flags, extra : Data \cup {Null}]
Image == [comp : [Comp -> Blob \cup {Null}], dhtb : Dhtb \cup {Null}]

\* What passes the container's parser: only codec-wrapped components have an
\* MTK header or a codec, and nothing but a compressed stream can be damaged.
WellFormed(img) ==
  /\ img \in Image
  /\ \A c \in Comp : img.comp[c] # Null =>
       /\ c \notin Coded => /\ img.comp[c].mtk = Null
                            /\ img.comp[c].stream.codec = "none"
       /\ img.comp[c].stream.codec = "none" => img.comp[c].stream.data # Cut
  /\ img.dhtb # Null => img.dhtb.extra # Cut

ASSUME WorkspaceAssumption ==
  /\ NumComp \in Nat \ {0}
  /\ Coded \subseteq Comp
  /\ Beginnings \in [CodecText -> SUBSET CodecText]
  /\ \A img \in Images : WellFormed(img)
  /\ Null \notin Image \cup Stream \cup Blob \cup Dhtb \cup Digest \cup Flags
  /\ UserActs \subseteq {"content", "compression", "mtk_name", "drop",
                         "delete", "rm_raw"}
  /\ Faults \subseteq {"kill", "abort", "silent"}

VARIABLES
  pc,       \* which part of which command runs; "idle" between commands
  at,       \* the component the loop of that part has reached
  image,    \* the argument of the running unpack, or of the last one
  mem,      \* the Manifest object of the running command
  built,    \* the image repack has assembled so far
  plain,    \* the component files
  raw,      \* the original streams under .abr_raw
  manifest, \* manifest.txt
  out,      \* the file the last command was told to write; Null if it is not
            \* a whole image, and once anything follows that command
  exit,     \* how the last command ended; "none" once anything follows it
  whole     \* history: an unpack began, it did not end in an error, and each
            \* of its writes so far was whole

disk == <<plain, raw, manifest>>
vars == <<pc, at, image, mem, built, plain, raw, manifest, out, exit, whole>>

-----------------------------------------------------------------------------
(* The manifest: a line per key, in the order the keys were first set.     *)

\* file: there is a <component>_file line; part: what it names is only the
\* beginning of the file's name, which no file has.
Entry == [mtk_name    : MtkName \cup {Null},
          file        : BOOLEAN,
          part        : BOOLEAN,
          compression : CodecText \cup {Null},
          orig_hash   : Digest \cup {Null}]

NoEntry == [mtk_name |-> Null, file |-> FALSE, part |-> FALSE,
            compression |-> Null, orig_hash |-> Null]

Manifest == [type : BOOLEAN, entry : [File -> Entry], dhtb : Flags \cup {Null}]

\* No manifest.txt, an empty one, or one whose type= is missing.
NoManifest == [type |-> FALSE, entry |-> [f \in File |-> NoEntry],
               dhtb |-> Null]

\* The lines of a manifest: type, four for each component, and behind them
\* has_dhtb, its two flags and the name of the trailing bytes.
Lines       == 0 .. 4*Extra + 1
FileLine(f) == IF f = Extra THEN 4*Extra + 1 ELSE 4*f - 1

\* The first n lines of manifest m.
FirstLines(m, n) ==
  [type  |-> m.type /\ n >= 1,
   entry |-> [f \in File |->
     [mtk_name    |-> IF n >= 4*f - 2 THEN m.entry[f].mtk_name ELSE Null,
      file        |-> m.entry[f].file /\ n >= FileLine(f),
      part        |-> m.entry[f].part /\ n >= FileLine(f),
      compression |-> IF n >= 4*f THEN m.entry[f].compression ELSE Null,
      orig_hash   |-> IF n >= 4*f + 1 THEN m.entry[f].orig_hash ELSE Null]],
   dhtb  |-> IF n < 4*Extra - 2 \/ m.dhtb = Null THEN Null
             ELSE m.dhtb \cap (IF n < 4*Extra - 1 THEN {}
                               ELSE IF n < 4*Extra THEN {"footer"}
                               ELSE {"footer", "padding"})]

\* What a cut can leave of manifest m, written through a buffer that is flushed
\* anywhere: whole lines, none among them; or the name of a file, or a codec's
\* text, cut in its middle.  A line cut elsewhere reads like none: a key is no
\* line, a flag is not "true", a hash is no file's, an MTK name stands in front
\* of the line that names its component.
CutManifests(m) ==
  {FirstLines(m, n) : n \in Lines}
  \cup {[FirstLines(m, FileLine(f)) EXCEPT !.entry[f].part = TRUE] :
          f \in {f \in File : m.entry[f].file}}
  \cup UNION {{[FirstLines(m, 4*c) EXCEPT !.entry[c].compression = text] :
                 text \in Beginnings[m.entry[c].compression]} :
                c \in {c \in Coded : m.entry[c].compression # Null}}

\* Mutant: the hash is taken over the compressed bytes.
EntryHashOfStream(c, blob) ==
  [mtk_name    |-> blob.mtk,
   file        |-> TRUE,
   part        |-> FALSE,
   compression |-> IF c \in Coded THEN blob.stream.codec ELSE Null,
   orig_hash   |-> IF c \in Coded THEN Sha256(blob.stream) ELSE Null]

\* What save_component, save_raw record about component c.
EntryOf(c, blob) ==
  [mtk_name    |-> blob.mtk,
   file        |-> TRUE,
   part        |-> FALSE,
   compression |-> IF c \in Coded THEN blob.stream.codec ELSE Null,
   orig_hash   |-> IF c \in Coded THEN Sha256(Decompress(blob.stream)) ELSE Null]

-----------------------------------------------------------------------------
(* Files are opened with trunc and written in place.  A write can be cut   *)
(* by an exception or a kill ("abort", the command ends), or by a failure  *)
(* the program does not look at ("silent": Manifest::save never tests its  *)
(* stream, write_file tests it before the destructor flushes).             *)

Outcome == {"whole"} \cup (Faults \cap {"abort", "silent"})

\* The file becomes `to`, or what a cut leaves of it.
Written(o, to, cut) == IF o = "whole" THEN to ELSE cut

\* The process is gone, and its memory with it.
End(result) ==
  pc' = "idle" /\ exit' = result /\ at' = 1 /\ mem' = NoManifest /\ built' = Null

\* After a write with outcome o: the command fails, or goes on with part `next`
\* at component k and Manifest m, or succeeds if nothing is left to do.
Continue(o, next, k, m) ==
  IF o = "abort" THEN End("error")
  ELSE IF next = "idle" THEN End("ok")
  ELSE pc' = next /\ at' = k /\ mem' = m /\ UNCHANGED <<exit, built>>

Init ==
  /\ pc = "idle" /\ at = 1 /\ exit = "none"
  /\ image = Null /\ built = Null
  /\ mem = NoManifest /\ manifest = NoManifest
  /\ plain = [f \in File |-> Null]
  /\ raw = [c \in Coded |-> Null]
  /\ out = Null
  /\ whole = FALSE

-----------------------------------------------------------------------------
(* abr unpack                                                              *)

\* Mutant: the keys of the manifest already there are carried over.
BeginUnpackMerging(img) ==
  /\ pc = "idle"
  /\ pc' = "save" /\ exit' = "none" /\ out' = Null
  /\ image' = img
  /\ mem' = [manifest EXCEPT !.type = TRUE]
  /\ whole' = TRUE
  /\ UNCHANGED <<at, built, disk>>

\* The input is read, a DHTB wrapper taken off, the container parsed.
BeginUnpack(img) ==
  /\ pc = "idle"
  /\ pc' = "save" /\ exit' = "none" /\ out' = Null
  /\ image' = img
  /\ mem' = [NoManifest EXCEPT !.type = TRUE]
  /\ whole' = TRUE
  /\ UNCHANGED <<at, built, disk>>

\* The input cannot be read or parsed: nothing has been written yet.
RejectInput ==
  /\ pc = "idle"
  /\ End("error") /\ out' = Null
  /\ UNCHANGED <<image, disk, whole>>

\* save_component, save_raw return at once for a component the image lacks.
Skip ==
  /\ pc = "save" /\ at \in Comp /\ image.comp[at] = Null
  /\ at' = at + 1
  /\ UNCHANGED <<pc, image, mem, built, disk, out, exit, whole>>

\* decompress() throws in the middle of an unpack.
CannotDecode ==
  /\ pc = "save" /\ at \in Comp /\ image.comp[at] # Null
  /\ at \in Coded /\ ~Decodes(image.comp[at].stream)
  /\ End("error") /\ whole' = FALSE
  /\ UNCHANGED <<image, disk, out>>

\* Mutant: an uncompressed component gets no copy under .abr_raw.
SavePlainRawIfCoded(o) ==
  /\ pc = "save" /\ at \in Comp /\ image.comp[at] # Null
  /\ at \in Coded => Decodes(image.comp[at].stream)
  /\ plain' = [plain EXCEPT ![at] =
                 Written(o, Decompress(image.comp[at].stream), Cut)]
  /\ LET m == [mem EXCEPT !.entry[at] = EntryOf(at, image.comp[at])]
     IN  IF at \in Coded /\ image.comp[at].stream.codec # "none"
           THEN Continue(o, "raw", at, m)
           ELSE Continue(o, "save", at + 1, m)
  /\ whole' = (whole /\ o = "whole")
  /\ UNCHANGED <<image, raw, manifest, out>>

\* save_component up to its first write_file, save_raw.
SavePlain(o) ==
  /\ pc = "save" /\ at \in Comp /\ image.comp[at] # Null
  /\ at \in Coded => Decodes(image.comp[at].stream)
  /\ plain' = [plain EXCEPT ![at] =
                 Written(o, Decompress(image.comp[at].stream), Cut)]
  /\ LET m == [mem EXCEPT !.entry[at] = EntryOf(at, image.comp[at])]
     IN  IF at \in Coded THEN Continue(o, "raw", at, m)
                         ELSE Continue(o, "save", at + 1, m)
  /\ whole' = (whole /\ o = "whole")
  /\ UNCHANGED <<image, raw, manifest, out>>

\* save_component's second write_file: the stream, without its MTK header.
SaveRaw(o) ==
  /\ pc = "raw"
  /\ LET stream == image.comp[at].stream
     IN  raw' = [raw EXCEPT ![at] = Written(o, stream, Truncated(stream))]
  /\ Continue(o, "save", at + 1, mem)
  /\ whole' = (whole /\ o = "whole")
  /\ UNCHANGED <<image, plain, manifest, out>>

\* m.save at the end of each unpack_<format>; any part of it may reach the disk.
SaveManifest(o) ==
  /\ pc = "save" /\ at = Extra
  /\ manifest' \in Written(o, {mem}, CutManifests(mem))
  /\ Continue(o, IF image.dhtb = Null THEN "idle" ELSE "wrap", at, mem)
  /\ whole' = (whole /\ o = "whole")
  /\ UNCHANGED <<image, plain, raw, out>>

\* The DHTB branch of do_unpack loads the manifest it has just saved, adds its
\* keys and the trailing bytes, ...
SaveWrapper(o) ==
  /\ pc = "wrap"
  /\ \/ /\ image.dhtb.extra = Null /\ o = "whole"
        /\ UNCHANGED plain
     \/ /\ image.dhtb.extra # Null
        /\ plain' = [plain EXCEPT ![Extra] = Written(o, image.dhtb.extra, Cut)]
  /\ Continue(o, "wrap_manifest", at,
       [manifest EXCEPT !.dhtb = image.dhtb.flags,
                        !.entry[Extra].file = image.dhtb.extra # Null])
  /\ whole' = (whole /\ o = "whole")
  /\ UNCHANGED <<image, raw, manifest, out>>

\* Mutant: the manifest is not saved a second time.
ForgetManifest(o) ==
  /\ pc = "wrap_manifest"
  /\ Continue(o, "idle", at, mem)
  /\ whole' = (whole /\ o = "whole")
  /\ UNCHANGED <<image, plain, raw, manifest, out>>

\* ... and saves the manifest again.
ResaveManifest(o) ==
  /\ pc = "wrap_manifest"
  /\ manifest' \in Written(o, {mem}, CutManifests(mem))
  /\ Continue(o, "idle", at, mem)
  /\ whole' = (whole /\ o = "whole")
  /\ UNCHANGED <<image, plain, raw, out>>

Unpacking == pc \in {"save", "raw", "wrap", "wrap_manifest"}

-----------------------------------------------------------------------------
(* abr repack                                                              *)

\* Manifest::load; without a manifest or a type= the command ends at once.
BeginRepack ==
  /\ pc = "idle"
  /\ out' = Null
  /\ IF manifest.type
       THEN /\ pc' = "load" /\ exit' = "none" /\ at' = 1
            /\ mem' = manifest
            /\ built' = [comp |-> [c \in Comp |-> Null], dhtb |-> Null]
       ELSE End("error")
  /\ UNCHANGED <<image, disk, whole>>

\* Mutants: never replay; replay without looking at the file; leave an edited
\* component uncompressed.
RecompressedAlways(m, c) ==
  Compress(CodecFromName(m.entry[c].compression), plain[c])

RecompressedNever(m, c) ==
  IF raw[c] # Null THEN raw[c]
  ELSE Compress(CodecFromName(m.entry[c].compression), plain[c])

RecompressedBare(m, c) ==
  IF m.entry[c].orig_hash = Sha256(plain[c]) /\ raw[c] # Null
    THEN raw[c]
    ELSE Compress("none", plain[c])

\* load_component under manifest m: the original stream if the file still has
\* the recorded hash and the stream is there, else a new one of m's codec.
Recompressed(m, c) ==
  IF m.entry[c].orig_hash = Sha256(plain[c]) /\ raw[c] # Null
    THEN raw[c]
    ELSE Compress(CodecFromName(m.entry[c].compression), plain[c])

\* Mutant: the MTK header is not put back.
LoadedBlobNoMtk(m, c) ==
  IF ~m.entry[c].file THEN Null
  ELSE AddMtkHeader(IF c \in Coded THEN Recompressed(m, c)
                    ELSE Compress("none", plain[c]), Null)

\* load_component, load_raw: nothing without a <component>_file line.
LoadedBlob(m, c) ==
  IF ~m.entry[c].file THEN Null
  ELSE IF c \in Coded
    THEN AddMtkHeader(Recompressed(m, c), m.entry[c].mtk_name)
    ELSE AddMtkHeader(Compress("none", plain[c]), Null)

\* Mutant: the trailing bytes are dropped.
LoadedWrapBare(m) ==
  IF m.dhtb = Null THEN Null ELSE [flags |-> m.dhtb, extra |-> Null]

\* wrap_dhtb under manifest m, with the trailing bytes load_raw finds.
LoadedWrap(m) ==
  IF m.dhtb = Null THEN Null
  ELSE [flags |-> m.dhtb,
        extra |-> IF m.entry[Extra].file THEN plain[Extra] ELSE Null]

\* load_component, load_raw of one component.
LoadComponent ==
  /\ pc = "load" /\ at \in Comp
  /\ mem.entry[at].file => plain[at] # Null /\ ~mem.entry[at].part
  /\ built' = [built EXCEPT !.comp[at] = LoadedBlob(mem, at)]
  /\ at' = at + 1
  /\ UNCHANGED <<pc, image, mem, disk, out, exit, whole>>

\* do_repack's wrap_dhtb, or nothing if the manifest has no has_dhtb.
LoadWrapper ==
  /\ pc = "load" /\ at = Extra
  /\ mem.dhtb # Null /\ mem.entry[Extra].file =>
       plain[Extra] # Null /\ ~mem.entry[Extra].part
  /\ built' = [built EXCEPT !.dhtb = LoadedWrap(mem)]
  /\ pc' = "write"
  /\ UNCHANGED <<at, image, mem, disk, out, exit, whole>>

\* A file the manifest names is gone, or was never there under a name that is
\* cut: read_file throws.
MissingFile ==
  /\ pc = "load"
  /\ mem.entry[at].file /\ (plain[at] = Null \/ mem.entry[at].part)
  /\ at = Extra => mem.dhtb # Null
  /\ End("error")
  /\ UNCHANGED <<image, disk, out, whole>>

\* do_repack's write_file.
WriteOut(o) ==
  /\ pc = "write"
  /\ out' = Written(o, built, Null)
  /\ End(IF o = "abort" THEN "error" ELSE "repacked")
  /\ UNCHANGED <<image, disk, whole>>

-----------------------------------------------------------------------------
(* Between and inside the commands                                         *)

\* The process is killed between two of its writes.
Kill ==
  /\ "kill" \in Faults /\ pc # "idle"
  /\ End("error")
  /\ whole' = (whole /\ ~Unpacking)
  /\ UNCHANGED <<image, disk, out>>

\* One edit, while no command runs.
UserAct(kind) ==
  /\ pc = "idle" /\ kind \in UserActs
  /\ exit' = "none" /\ out' = Null
  /\ UNCHANGED <<pc, at, image, mem, built, whole>>

EditContent(f, p) ==
  /\ UserAct("content")
  /\ plain[f] \notin {Null, p}
  /\ plain' = [plain EXCEPT ![f] = p]
  /\ UNCHANGED <<raw, manifest>>

EditCompression(c, text) ==
  /\ UserAct("compression")
  /\ manifest.entry[c].compression \notin {Null, text}
  /\ manifest' = [manifest EXCEPT !.entry[c].compression = text]
  /\ UNCHANGED <<plain, raw>>

\* Changing, adding or (Null) deleting the line <component>_mtk_name=.
EditMtkName(c, name) ==
  /\ UserAct("mtk_name")
  /\ manifest.entry[c].file /\ manifest.entry[c].mtk_name # name
  /\ manifest' = [manifest EXCEPT !.entry[c].mtk_name = name]
  /\ UNCHANGED <<plain, raw>>

\* Deleting the line <component>_file=: the component is to be left out.
DropComponent(f) ==
  /\ UserAct("drop")
  /\ manifest.entry[f].file
  /\ manifest' = [manifest EXCEPT !.entry[f].file = FALSE,
                                  !.entry[f].part = FALSE]
  /\ UNCHANGED <<plain, raw>>

DeleteFile(f) ==
  /\ UserAct("delete")
  /\ plain[f] # Null
  /\ plain' = [plain EXCEPT ![f] = Null]
  /\ UNCHANGED <<raw, manifest>>

\* .abr_raw is deleted, or did not come along when the directory was copied.
RemoveRaw ==
  /\ UserAct("rm_raw")
  /\ raw # [c \in Coded |-> Null]
  /\ raw' = [c \in Coded |-> Null]
  /\ UNCHANGED <<plain, manifest>>

-----------------------------------------------------------------------------
Unpack ==
  \/ \E img \in Images : BeginUnpack(img)
  \/ RejectInput \/ Skip \/ CannotDecode
  \/ \E o \in Outcome :
       \/ SavePlain(o) \/ SaveRaw(o) \/ SaveManifest(o)
       \/ SaveWrapper(o) \/ ResaveManifest(o)

Repack ==
  \/ BeginRepack \/ LoadComponent \/ LoadWrapper \/ MissingFile
  \/ \E o \in Outcome : WriteOut(o)

User ==
  \/ \E f \in File, p \in Content : EditContent(f, p)
  \/ \E c \in Coded, text \in CodecText : EditCompression(c, text)
  \/ \E c \in Coded, name \in MtkName \cup {Null} : EditMtkName(c, name)
  \/ \E f \in File : DropComponent(f) \/ DeleteFile(f)
  \/ RemoveRaw

Next == Unpack \/ Repack \/ Kill \/ User

Spec == Init /\ [][Next]_vars

-----------------------------------------------------------------------------
(* Properties                                                              *)

PC == {"idle", "save", "raw", "wrap", "wrap_manifest", "load", "write"}

\* The type of every variable.
TypeOK ==
  /\ pc \in PC
  /\ at \in 1 .. Extra
  /\ image \in Images \cup {Null}
  /\ mem \in Manifest /\ manifest \in Manifest
  /\ built \in Image \cup {Null} /\ out \in Image \cup {Null}
  /\ plain \in [File -> Data \cup {Null}]
  /\ raw \in [Coded -> Stream \cup {Null}]
  /\ exit \in {"none", "ok", "error", "repacked"}
  /\ whole \in BOOLEAN

\* The files of an unpack that was not cut, whatever the user did since.
Session == whole /\ ~Unpacking

\* The files and lines of component c are as unpack wrote them, the codec's
\* line aside: load_component does not look at it for an unedited file.
AsUnpacked(c) ==
  /\ image.comp[c] # Null
  /\ LET e == manifest.entry[c]  u == EntryOf(c, image.comp[c])
     IN  e.file /\ e.mtk_name = u.mtk_name /\ e.orig_hash = u.orig_hash
  /\ plain[c] = Decompress(image.comp[c].stream)
  /\ c \in Coded => raw[c] # Null

WrapperAsUnpacked ==
  IF image.dhtb = Null THEN manifest.dhtb = Null
  ELSE /\ manifest.dhtb = image.dhtb.flags
       /\ manifest.entry[Extra].file = (image.dhtb.extra # Null)
       /\ image.dhtb.extra # Null => plain[Extra] = image.dhtb.extra

Repacked == exit = "repacked" /\ out # Null

\* A component whose file holds what was extracted leaves repack byte for byte
\* as it came in, also when it was edited and changed back, when others were
\* edited, and when an earlier unpack into the directory was cut short.
UntouchedVerbatim ==
  Repacked /\ Session =>
    \A c \in Comp : AsUnpacked(c) => out.comp[c] = image.comp[c]

\* unpack followed by repack gives the image back, wrapper included, and nothing
\* of an image unpacked into the same directory before.
RoundTrip ==
  /\ Repacked /\ Session
  /\ \A c \in Comp : image.comp[c] # Null => AsUnpacked(c)
  /\ WrapperAsUnpacked
  => out = image

\* What the files hold is what the output holds: whether a stream is replayed
\* or made anew, it decodes to the file; a new one has the manifest's codec.
EditsReachOutput ==
  Repacked /\ Session =>
    \A c \in Comp : manifest.entry[c].file =>
      LET stream == out.comp[c].stream
      IN  /\ Decompress(stream) = plain[c]
          /\ c \in Coded /\ Sha256(plain[c]) # manifest.entry[c].orig_hash =>
               stream = Compress(CodecFromName(manifest.entry[c].compression),
                                 plain[c])

\* Even in a directory that kills, errors and cut writes have left behind, a
\* repack emits a component exactly when the manifest names it, with the MTK
\* name the manifest gives, and the wrapper the manifest describes: with its
\* flags and with the trailing bytes of the file it names, or none.  Nothing
\* comes of a manifest one of whose names is cut.
OutputFollowsManifest ==
  Repacked =>
    /\ manifest.type
    /\ \A c \in Comp :
         /\ (out.comp[c] # Null) = manifest.entry[c].file
         /\ c \in Coded /\ out.comp[c] # Null =>
              out.comp[c].mtk = manifest.entry[c].mtk_name
         /\ manifest.entry[c].file => ~manifest.entry[c].part
    /\ (out.dhtb = Null) = (manifest.dhtb = Null)
    /\ out.dhtb # Null =>
         /\ out.dhtb.flags = manifest.dhtb
         /\ IF manifest.entry[Extra].file
              THEN /\ out.dhtb.extra = plain[Extra]
                   /\ out.dhtb.extra # Null /\ ~manifest.entry[Extra].part
              ELSE out.dhtb.extra = Null

\* The manifest is written after what it names: at every step of every command,
\* finished or cut, the files it names in full and the streams it has hashes of
\* are there, unless the user deleted them.  A name of which a cut write left
\* only the beginning is never in the manifest of an unpack that went well,
\* whatever earlier ones left in the directory.
ManifestNamesExistingFiles ==
  \A f \in File :
    LET e == manifest.entry[f]
    IN  /\ "delete" \notin UserActs => (e.file /\ ~e.part => plain[f] # Null)
        /\ "rm_raw" \notin UserActs /\ f \in Coded =>
             (e.orig_hash # Null => raw[f] # Null)
        /\ e.part => ~Session

\* An unpack that reports success has left the whole image in the directory.
SuccessMeansUnpacked ==
  exit = "ok" =>
    /\ \A c \in Comp : image.comp[c] # Null => AsUnpacked(c)
    /\ WrapperAsUnpacked

\* Without the history of the directory: a repacked component always decodes to
\* the file it was made from.
ReplayMatchesFile ==
  Repacked =>
    \A c \in Coded : manifest.entry[c].file =>
      Decompress(out.comp[c].stream) = plain[c]
=============================================================================
