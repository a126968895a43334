--------------------------- MODULE WorkspaceProofs ---------------------------
(***************************************************************************)
(* Proofs about Workspace, for any number of components, any images, any   *)
(* of the user's acts and any of the faults.                               *)
(***************************************************************************)
EXTENDS WorkspaceInvariant, TLAPS

-----------------------------------------------------------------------------
(* The operators the model is built from.                                  *)

\* What Null is not.
LEMMA NullFacts ==
  /\ Null \notin Image /\ Null \notin Stream /\ Null \notin Blob
  /\ Null \notin Dhtb /\ Null \notin Digest /\ Null \notin Flags
  /\ Null \notin Data /\ Null \notin CodecText /\ Null \notin Codec
  /\ Null \notin MtkName
BY ComponentAssumption, WorkspaceAssumption DEF Data

\* Indices.
LEMMA IndexFacts ==
  /\ NumComp \in Nat /\ Extra \in Nat /\ 1 \in Comp /\ Extra \in File
  /\ Comp \subseteq File /\ Coded \subseteq Comp /\ Coded \subseteq File
  /\ Extra \notin Comp /\ Extra \notin Coded /\ 0 \notin File
  /\ 1 .. Extra = File
  /\ \A c \in Comp : c + 1 \in File /\ c \in Nat
  /\ \A f \in File : f \in Nat /\ (f \in Comp \/ f = Extra)
BY WorkspaceAssumption DEF Comp, Extra, File

\* The loops over the components go up by one.
LEMMA LoopFacts ==
  ASSUME NEW k \in Comp
  PROVE  /\ \A c \in Comp : c < k + 1 <=> c < k \/ c = k
         /\ \A f \in File : f > k + 1 => f > k
         /\ k + 1 > k /\ k + 1 \in File
         /\ \A c \in Comp : c < Extra
BY WorkspaceAssumption DEF Comp, File, Extra

\* The empty manifest and the empty entry.
LEMMA ManifestTypes ==
  /\ NoManifest \in Manifest
  /\ NoEntry \in Entry
BY DEF NoManifest, Manifest, NoEntry, Entry

\* A compressed content is a stream, whatever codec the manifest names.
LEMMA CompressType ==
  ASSUME NEW text, NEW d \in Data
  PROVE  Compress(CodecFromName(text), d) \in Stream
BY ComponentAssumption DEF Compress, CodecFromName, Stream

\* save_component and save_raw record what the type of a manifest allows.
LEMMA EntryOfType ==
  ASSUME NEW c \in Comp, NEW blob \in Blob
  PROVE  /\ EntryOf(c, blob) \in Entry
         /\ Decompress(blob.stream) \in Data
         /\ blob.stream \in Stream /\ Truncated(blob.stream) \in Stream
<1>1. /\ blob.mtk \in MtkName \cup {Null}
      /\ blob.stream \in Stream
  BY DEF Blob
<1>2. /\ blob.stream \in [codec : Codec, enc : {"vendor", "abr"}, data : Data]
      /\ blob.stream.codec = "none" => blob.stream.enc = "abr"
  BY <1>1 DEF Stream
<1>3. /\ blob.stream.codec \in CodecText
      /\ blob.stream.data \in Data
  BY <1>2, ComponentAssumption
<1>4. Sha256(Decompress(blob.stream)) \in Digest
  BY <1>3 DEF Sha256, Decompress, Digest
<1>5. EntryOf(c, blob) \in Entry
  BY <1>1, <1>3, <1>4 DEF EntryOf, Entry
<1>6. Truncated(blob.stream) \in Stream
  BY <1>2 DEF Truncated, Stream, Data
<1>. QED
  BY <1>1, <1>3, <1>5, <1>6 DEF Decompress

\* What manifest x says of files, manifest m says too: the files x names in full
\* and the hashes it has are m's.
NoMoreThan(x, m) ==
  \A f \in File :
    /\ x.entry[f].file /\ ~x.entry[f].part =>
         m.entry[f].file /\ ~m.entry[f].part
    /\ x.entry[f].orig_hash # Null => m.entry[f].orig_hash # Null

\* The first lines of a manifest are one, and name nothing else.
LEMMA FirstLinesFacts ==
  ASSUME NEW m \in Manifest, NEW n
  PROVE  FirstLines(m, n) \in Manifest /\ NoMoreThan(FirstLines(m, n), m)
<1>1. /\ m.type \in BOOLEAN /\ m.dhtb \in Flags \cup {Null}
      /\ m.entry \in [File -> Entry]
  BY DEF Manifest
<1> DEFINE x == FirstLines(m, n)
<1>2. ASSUME NEW f \in File
      PROVE  /\ x.entry[f].file = (m.entry[f].file /\ n >= FileLine(f))
             /\ x.entry[f].part = (m.entry[f].part /\ n >= FileLine(f))
             /\ x.entry[f].orig_hash =
                  IF n >= 4*f + 1 THEN m.entry[f].orig_hash ELSE Null
  BY DEF FirstLines
<1>3. ASSUME NEW f \in File
      PROVE  x.entry[f] \in Entry
  <2>1. /\ m.entry[f].mtk_name \in MtkName \cup {Null}
        /\ m.entry[f].compression \in CodecText \cup {Null}
        /\ m.entry[f].orig_hash \in Digest \cup {Null}
    BY <1>1 DEF Entry
  <2>2. /\ (IF n >= 4*f - 2 THEN m.entry[f].mtk_name ELSE Null)
             \in MtkName \cup {Null}
        /\ (IF n >= 4*f THEN m.entry[f].compression ELSE Null)
             \in CodecText \cup {Null}
        /\ (IF n >= 4*f + 1 THEN m.entry[f].orig_hash ELSE Null)
             \in Digest \cup {Null}
    BY <2>1
  <2>3. /\ (m.entry[f].file /\ n >= FileLine(f)) \in BOOLEAN
        /\ (m.entry[f].part /\ n >= FileLine(f)) \in BOOLEAN
    OBVIOUS
  <2>. QED
    BY <2>2, <2>3 DEF FirstLines, Entry
<1>4. x.dhtb \in Flags \cup {Null}
  BY <1>1, <1>2 DEF FirstLines, Flags
<1>5. x.entry \in [File -> Entry] /\ x.type \in BOOLEAN
      /\ x = [type |-> x.type, entry |-> x.entry, dhtb |-> x.dhtb]
  BY <1>3 DEF FirstLines
<1>6. x \in Manifest
  BY <1>4, <1>5 DEF Manifest
<1>7. NoMoreThan(x, m)
  <2> SUFFICES ASSUME NEW f \in File
               PROVE  /\ x.entry[f].file /\ ~x.entry[f].part =>
                           m.entry[f].file /\ ~m.entry[f].part
                      /\ x.entry[f].orig_hash # Null => m.entry[f].orig_hash # Null
    BY DEF NoMoreThan
  <2>. QED
    BY <1>2
<1>. QED
  BY <1>6, <1>7

\* A manifest cut anywhere is a manifest, and names nothing the whole one does not.
LEMMA CutFacts ==
  ASSUME NEW m \in Manifest, NEW x \in CutManifests(m)
  PROVE  x \in Manifest /\ NoMoreThan(x, m)
<1>1. CASE \E n \in Lines : x = FirstLines(m, n)
  BY <1>1, FirstLinesFacts
<1>2. ASSUME NEW f \in File, m.entry[f].file,
             x = [FirstLines(m, FileLine(f)) EXCEPT !.entry[f].part = TRUE]
      PROVE  x \in Manifest /\ NoMoreThan(x, m)
  <2> DEFINE y == FirstLines(m, FileLine(f))
  <2>1. y \in Manifest /\ NoMoreThan(y, m) /\ y.entry \in [File -> Entry]
    BY FirstLinesFacts DEF Manifest
  <2>2. [y.entry[f] EXCEPT !.part = TRUE] \in Entry
    BY <2>1 DEF Entry
  <2>3. x \in Manifest
    BY <1>2, <2>1, <2>2 DEF Manifest
  <2>4. /\ x.entry[f].part /\ x.entry[f].orig_hash = y.entry[f].orig_hash
        /\ \A g \in File : g # f => x.entry[g] = y.entry[g]
    BY <1>2, <2>1 DEF Manifest, Entry
  <2>. QED
    BY <2>1, <2>3, <2>4 DEF NoMoreThan
<1>3. ASSUME NEW c \in Coded, m.entry[c].compression # Null,
             NEW text \in Beginnings[m.entry[c].compression],
             x = [FirstLines(m, 4*c) EXCEPT !.entry[c].compression = text]
      PROVE  x \in Manifest /\ NoMoreThan(x, m)
  <2> DEFINE y == FirstLines(m, 4*c)
  <2>1. y \in Manifest /\ NoMoreThan(y, m) /\ y.entry \in [File -> Entry] /\ c \in File
    BY FirstLinesFacts, IndexFacts DEF Manifest
  <2>2. m.entry[c].compression \in CodecText
    BY <1>3, <2>1 DEF Manifest, Entry
  <2>3. text \in CodecText
    BY <2>2, WorkspaceAssumption
  <2>4. [y.entry[c] EXCEPT !.compression = text] \in Entry
    BY <2>1, <2>3 DEF Entry
  <2>5. x \in Manifest
    BY <1>3, <2>1, <2>4 DEF Manifest
  <2>6. /\ x.entry[c].file = y.entry[c].file /\ x.entry[c].part = y.entry[c].part
        /\ x.entry[c].orig_hash = y.entry[c].orig_hash
        /\ \A g \in File : g # c => x.entry[g] = y.entry[g]
    BY <1>3, <2>1 DEF Manifest, Entry
  <2>. QED
    BY <2>1, <2>5, <2>6 DEF NoMoreThan
<1>. QED
  BY <1>1, <1>2, <1>3 DEF CutManifests

\* What a write of manifest m leaves, whole or cut.
LEMMA ManifestWritten ==
  ASSUME NEW m \in Manifest, NEW o, manifest' \in Written(o, {m}, CutManifests(m))
  PROVE  /\ manifest' \in Manifest /\ NoMoreThan(manifest', m)
         /\ o = "whole" => manifest' = m
<1>1. CASE o = "whole"
  BY <1>1 DEF Written, NoMoreThan
<1>2. CASE o # "whole"
  BY <1>2, CutFacts DEF Written
<1>. QED
  BY <1>1, <1>2

-----------------------------------------------------------------------------
(* Types, and what each part of a command may rely on.                     *)

\* How a write's outcome moves the process on.
LEMMA EndFacts ==
  ASSUME NEW r \in {"ok", "error", "repacked"}, End(r)
  PROVE  /\ pc' = "idle" /\ pc' \in PC /\ at' = 1 /\ at' \in 1 .. Extra
         /\ exit' = r /\ exit' \in {"none", "ok", "error", "repacked"}
         /\ mem' \in Manifest /\ built' \in Image \cup {Null}
BY ManifestTypes, IndexFacts DEF End, PC

\* After a write the command goes on, succeeds or fails: what that makes of pc,
\* at, exit and the process's memory.
LEMMA ContinueFacts ==
  ASSUME TypeOK, NEW o, NEW next \in PC, NEW k \in 1 .. Extra,
         NEW m \in Manifest, Continue(o, next, k, m)
  PROVE  /\ pc' \in {"idle", next}
         /\ pc' \in PC /\ at' \in 1 .. Extra
         /\ mem' \in Manifest /\ built' \in Image \cup {Null}
         /\ exit' \in {"none", "ok", "error", "repacked"}
         /\ pc' # "idle" => /\ at' = k /\ mem' = m /\ exit' = exit
                            /\ built' = built
         /\ pc' = "idle" => at' = 1 /\ exit' \in {"ok", "error"}
<1>1. CASE o = "abort"
  BY <1>1, EndFacts DEF Continue
<1>2. CASE o # "abort" /\ next = "idle"
  BY <1>2, EndFacts DEF Continue
<1>3. CASE o # "abort" /\ next # "idle"
  BY <1>3 DEF Continue, TypeOK
<1>. QED
  BY <1>1, <1>2, <1>3

\* TypeOK and Control hold at the start.
LEMMA TypeInit == Init => TypeOK /\ Control
<1> SUFFICES ASSUME Init PROVE TypeOK /\ Control
  OBVIOUS
<1>1. TypeOK
  BY ManifestTypes, IndexFacts DEF Init, TypeOK, PC
<1>2. Control
  BY DEF Init, Control, Unpacking, Repacked
<1>. QED
  BY <1>1, <1>2

\* What the parser let through.
LEMMA ImageFacts ==
  ASSUME NEW img \in Images
  PROVE  /\ img \in Image /\ img # Null
         /\ img.dhtb \in Dhtb \cup {Null}
         /\ \A c \in Comp : img.comp[c] \in Blob \cup {Null}
         /\ img.dhtb # Null => /\ img.dhtb.flags \in Flags
                              /\ img.dhtb.extra \in Data \cup {Null}
                              /\ img.dhtb = [flags |-> img.dhtb.flags,
                                            extra |-> img.dhtb.extra]
<1>1. img \in Image /\ img # Null
  BY WorkspaceAssumption, NullFacts DEF WellFormed
<1>2. /\ img.dhtb \in Dhtb \cup {Null}
      /\ img.comp \in [Comp -> Blob \cup {Null}]
  BY <1>1 DEF Image
<1>. QED
  BY <1>1, <1>2 DEF Dhtb

\* load_component makes a component, if the file it names is there.
LEMMA LoadedType ==
  ASSUME NEW m \in Manifest, NEW c \in Comp,
         plain \in [File -> Data \cup {Null}],
         raw \in [Coded -> Stream \cup {Null}],
         m.entry[c].file => plain[c] # Null
  PROVE  /\ LoadedBlob(m, c) \in Blob \cup {Null}
         /\ (LoadedBlob(m, c) = Null) = ~m.entry[c].file
<1>1. m.entry[c] \in Entry
  BY IndexFacts DEF Manifest
<1>2. m.entry[c].mtk_name \in MtkName \cup {Null} /\ m.entry[c].file \in BOOLEAN
  BY <1>1 DEF Entry
<1>3. CASE ~m.entry[c].file
  BY <1>3, <1>2 DEF LoadedBlob
<1>4. CASE m.entry[c].file /\ c \in Coded
  <2>1. plain[c] \in Data
    BY <1>4, IndexFacts
  <2>2. Compress(CodecFromName(m.entry[c].compression), plain[c]) \in Stream
    BY <2>1, CompressType
  <2>3. Recompressed(m, c) \in Stream
    BY <2>2, <1>4 DEF Recompressed
  <2>4. AddMtkHeader(Recompressed(m, c), m.entry[c].mtk_name) \in Blob
    BY <2>3, <1>2 DEF AddMtkHeader, Blob
  <2>. QED
    BY <1>4, <1>2, <2>4, NullFacts DEF LoadedBlob
<1>5. CASE m.entry[c].file /\ c \notin Coded
  <2>1. plain[c] \in Data
    BY <1>5, IndexFacts
  <2>2. Compress("none", plain[c]) \in Stream
    BY <2>1, ComponentAssumption DEF Compress, Stream
  <2>3. AddMtkHeader(Compress("none", plain[c]), Null) \in Blob
    BY <2>2 DEF AddMtkHeader, Blob
  <2>. QED
    BY <1>5, <1>2, <2>3, NullFacts DEF LoadedBlob
<1>. QED
  BY <1>2, <1>3, <1>4, <1>5

\* The wrapper repack reads back is one.
LEMMA LoadedWrapType ==
  ASSUME NEW m \in Manifest, plain \in [File -> Data \cup {Null}]
  PROVE  /\ LoadedWrap(m) \in Dhtb \cup {Null}
         /\ (LoadedWrap(m) = Null) = (m.dhtb = Null)
<1>1. m.dhtb \in Flags \cup {Null} /\ plain[Extra] \in Data \cup {Null}
  BY IndexFacts DEF Manifest
<1>2. CASE m.dhtb = Null
  BY <1>2 DEF LoadedWrap
<1>3. CASE m.dhtb # Null
  <2>1. [flags |-> m.dhtb,
         extra |-> IF m.entry[Extra].file THEN plain[Extra] ELSE Null] \in Dhtb
    BY <1>1, <1>3 DEF Dhtb
  <2>. QED
    BY <2>1, <1>3, NullFacts DEF LoadedWrap
<1>. QED
  BY <1>2, <1>3

\* What every act of the user has in common.
LEMMA UserFacts ==
  ASSUME TypeOK, User
  PROVE  /\ pc = "idle" /\ exit' = "none" /\ out' = Null
         /\ UNCHANGED <<pc, at, image, mem, built, whole>>
         /\ plain' \in [File -> Data \cup {Null}]
         /\ raw' \in [Coded -> Stream \cup {Null}]
         /\ manifest' \in Manifest
         /\ manifest'.type = manifest.type
<1>0. /\ plain \in [File -> Data \cup {Null}]
      /\ raw \in [Coded -> Stream \cup {Null}]
      /\ manifest \in Manifest
      /\ manifest.entry \in [File -> Entry]
      /\ \A f \in File : manifest.entry[f] \in Entry
  BY DEF TypeOK, Manifest
<1>1. ASSUME NEW f \in File, NEW p \in Content, EditContent(f, p)
      PROVE  plain' \in [File -> Data \cup {Null}] /\ UNCHANGED <<raw, manifest>>
  BY <1>0, <1>1 DEF EditContent, Data
<1>2. ASSUME NEW c \in Coded, NEW text \in CodecText, EditCompression(c, text)
      PROVE  /\ manifest' \in Manifest /\ manifest'.type = manifest.type
             /\ UNCHANGED <<plain, raw>>
  <2>1. manifest.entry[c] \in Entry
    BY <1>0, IndexFacts
  <2>2. [manifest.entry[c] EXCEPT !.compression = text] \in Entry
    BY <2>1 DEF Entry
  <2>. QED
    BY <1>0, <1>2, <2>2, IndexFacts DEF EditCompression, Manifest
<1>3. ASSUME NEW c \in Coded, NEW name \in MtkName \cup {Null}, EditMtkName(c, name)
      PROVE  /\ manifest' \in Manifest /\ manifest'.type = manifest.type
             /\ UNCHANGED <<plain, raw>>
  <2>1. manifest.entry[c] \in Entry
    BY <1>0, IndexFacts
  <2>2. [manifest.entry[c] EXCEPT !.mtk_name = name] \in Entry
    BY <2>1 DEF Entry
  <2>. QED
    BY <1>0, <1>3, <2>2, IndexFacts DEF EditMtkName, Manifest
<1>4. ASSUME NEW f \in File, DropComponent(f)
      PROVE  /\ manifest' \in Manifest /\ manifest'.type = manifest.type
             /\ UNCHANGED <<plain, raw>>
  <2>1. [manifest.entry[f] EXCEPT !.file = FALSE, !.part = FALSE] \in Entry
    BY <1>0 DEF Entry
  <2>. QED
    BY <1>0, <1>4, <2>1 DEF DropComponent, Manifest
<1>5. ASSUME NEW f \in File, DeleteFile(f)
      PROVE  plain' \in [File -> Data \cup {Null}] /\ UNCHANGED <<raw, manifest>>
  BY <1>0, <1>5 DEF DeleteFile
<1>6. ASSUME RemoveRaw
      PROVE  raw' \in [Coded -> Stream \cup {Null}] /\ UNCHANGED <<plain, manifest>>
  BY <1>6 DEF RemoveRaw
<1>7. /\ pc = "idle" /\ exit' = "none" /\ out' = Null
      /\ UNCHANGED <<pc, at, image, mem, built, whole>>
  <2>1. ASSUME NEW kind, UserAct(kind)
        PROVE  /\ pc = "idle" /\ exit' = "none" /\ out' = Null
               /\ UNCHANGED <<pc, at, image, mem, built, whole>>
    BY <2>1 DEF UserAct
  <2>2. \/ UserAct("content") \/ UserAct("compression") \/ UserAct("mtk_name")
        \/ UserAct("drop") \/ UserAct("delete") \/ UserAct("rm_raw")
    BY DEF User, EditContent, EditCompression, EditMtkName, DropComponent,
           DeleteFile, RemoveRaw
  <2>. QED
    BY <2>1, <2>2
<1>. QED
  BY <1>0, <1>1, <1>2, <1>3, <1>4, <1>5, <1>6, <1>7 DEF User

\* No step leads out of the types, or out of what the parts rely on.
LEMMA TypeStep ==
  ASSUME TypeOK, Control, [Next]_vars
  PROVE  TypeOK' /\ Control'
<1>0. /\ NoManifest \in Manifest
      /\ 1 \in 1 .. Extra
  BY ManifestTypes, IndexFacts
<1>1. ASSUME NEW img \in Images, BeginUnpack(img)
      PROVE  TypeOK' /\ Control'
  <2>1. [NoManifest EXCEPT !.type = TRUE] \in Manifest
    BY <1>0 DEF Manifest
  <2>. QED
    BY <1>1, <2>1 DEF BeginUnpack, disk, TypeOK, PC, Control, Unpacking, Repacked
<1>2. ASSUME RejectInput
      PROVE  TypeOK' /\ Control'
  BY <1>2, EndFacts DEF RejectInput, disk, TypeOK, PC, Control, Unpacking, Repacked
<1>3. ASSUME Skip
      PROVE  TypeOK' /\ Control'
  BY <1>3, IndexFacts DEF Skip, disk, TypeOK, Control, Unpacking, Repacked
<1>4. ASSUME CannotDecode
      PROVE  TypeOK' /\ Control'
  BY <1>4, EndFacts DEF CannotDecode, disk, TypeOK, PC, Control, Unpacking, Repacked
<1>5. ASSUME NEW o \in Outcome, SavePlain(o)
      PROVE  TypeOK' /\ Control'
  <2>1. /\ at \in Comp /\ at + 1 \in 1 .. Extra /\ image \in Images
        /\ image.comp[at] \in Blob
    BY <1>5, ImageFacts, IndexFacts DEF SavePlain, TypeOK, Control, Unpacking
  <2>2. /\ EntryOf(at, image.comp[at]) \in Entry
        /\ Decompress(image.comp[at].stream) \in Data
    BY <2>1, EntryOfType
  <2> DEFINE m == [mem EXCEPT !.entry[at] = EntryOf(at, image.comp[at])]
  <2>3. m \in Manifest
    BY <2>1, <2>2, IndexFacts DEF TypeOK, Manifest
  <2>4. plain' \in [File -> Data \cup {Null}]
    BY <1>5, <2>1, <2>2, IndexFacts DEF SavePlain, TypeOK, Written, Data
  <2>5. PICK next \in {"raw", "save"}, k \in 1 .. Extra :
          /\ Continue(o, next, k, m)
          /\ next = "raw" => k = at /\ at \in Coded
    BY <1>5, <2>1 DEF SavePlain, TypeOK
  <2>6. /\ pc' \in {"idle", next}
        /\ pc' \in PC /\ at' \in 1 .. Extra
        /\ mem' \in Manifest /\ built' \in Image \cup {Null}
        /\ exit' \in {"none", "ok", "error", "repacked"}
        /\ pc' # "idle" => at' = k /\ exit' = exit
        /\ pc' = "idle" => at' = 1 /\ exit' \in {"ok", "error"}
    BY <2>3, <2>5, ContinueFacts DEF PC
  <2>7. /\ pc = "save" /\ exit = "none" /\ out = Null
        /\ UNCHANGED <<image, raw, manifest, out>> /\ whole' \in BOOLEAN
    BY <1>5 DEF SavePlain, Control, TypeOK
  <2>8. TypeOK'
    BY <2>4, <2>6, <2>7 DEF TypeOK
  <2>. QED
    BY <2>1, <2>5, <2>6, <2>7, <2>8, NullFacts DEF Control, Unpacking, Repacked
<1>6. ASSUME NEW o \in Outcome, SaveRaw(o)
      PROVE  TypeOK' /\ Control'
  <2>1. /\ at \in Coded /\ at \in Comp /\ at + 1 \in 1 .. Extra
        /\ image \in Images /\ image.comp[at] \in Blob
    BY <1>6, ImageFacts, IndexFacts DEF SaveRaw, TypeOK, Control, Unpacking
  <2>2. /\ image.comp[at].stream \in Stream
        /\ Truncated(image.comp[at].stream) \in Stream
    BY <2>1, EntryOfType
  <2>3. raw' \in [Coded -> Stream \cup {Null}]
    BY <1>6, <2>1, <2>2 DEF SaveRaw, TypeOK, Written
  <2>4. Continue(o, "save", at + 1, mem) /\ mem \in Manifest
    BY <1>6 DEF SaveRaw, TypeOK
  <2>5. /\ pc' \in {"idle", "save"}
        /\ pc' \in PC /\ at' \in 1 .. Extra
        /\ mem' \in Manifest /\ built' \in Image \cup {Null}
        /\ exit' \in {"none", "ok", "error", "repacked"}
        /\ pc' # "idle" => exit' = exit
        /\ pc' = "idle" => at' = 1 /\ exit' \in {"ok", "error"}
    BY <2>1, <2>4, ContinueFacts DEF PC
  <2>6. /\ pc = "raw" /\ exit = "none" /\ out = Null
        /\ UNCHANGED <<image, plain, manifest, out>> /\ whole' \in BOOLEAN
    BY <1>6 DEF SaveRaw, Control, TypeOK
  <2>. QED
    BY <2>1, <2>3, <2>5, <2>6 DEF TypeOK, Control, Unpacking, Repacked
<1>7. ASSUME NEW o \in Outcome, SaveManifest(o)
      PROVE  TypeOK' /\ Control'
  <2>1. PICK next \in {"idle", "wrap"} :
          /\ Continue(o, next, at, mem)
          /\ next = "wrap" => image.dhtb # Null
    BY <1>7 DEF SaveManifest
  <2>2. mem \in Manifest /\ at \in 1 .. Extra
    BY DEF TypeOK
  <2>3. /\ pc' \in {"idle", next}
        /\ pc' \in PC /\ at' \in 1 .. Extra
        /\ mem' \in Manifest /\ built' \in Image \cup {Null}
        /\ exit' \in {"none", "ok", "error", "repacked"}
        /\ pc' # "idle" => exit' = exit
        /\ pc' = "idle" => at' = 1 /\ exit' \in {"ok", "error"}
    BY <2>1, <2>2, ContinueFacts DEF PC
  <2>4. /\ pc = "save" /\ exit = "none" /\ out = Null /\ manifest' \in Manifest
        /\ UNCHANGED <<image, plain, raw, out>> /\ whole' \in BOOLEAN
    BY <1>7, <2>2, ManifestWritten DEF SaveManifest, Control, TypeOK
  <2>. QED
    BY <2>1, <2>3, <2>4 DEF TypeOK, Control, Unpacking, Repacked
<1>8. ASSUME NEW o \in Outcome, SaveWrapper(o)
      PROVE  TypeOK' /\ Control'
  <2> DEFINE m == [manifest EXCEPT !.dhtb = image.dhtb.flags,
                        !.entry[Extra].file = image.dhtb.extra # Null]
  <2>1. /\ pc = "wrap" /\ image.dhtb # Null /\ image \in Images
        /\ Continue(o, "wrap_manifest", at, m)
    BY <1>8 DEF SaveWrapper, Control, Unpacking
  <2>2. /\ image.dhtb.flags \in Flags /\ image.dhtb.extra \in Data \cup {Null}
    BY <2>1, ImageFacts
  <2>3. [manifest.entry[Extra] EXCEPT !.file = image.dhtb.extra # Null] \in Entry
    <3>1. manifest.entry[Extra] \in Entry
      BY IndexFacts DEF TypeOK, Manifest
    <3>. QED
      BY <3>1 DEF Entry
  <2>4. m \in Manifest /\ at \in 1 .. Extra
    BY <2>2, <2>3, IndexFacts DEF TypeOK, Manifest
  <2>5. /\ pc' \in {"idle", "wrap_manifest"}
        /\ pc' \in PC /\ at' \in 1 .. Extra
        /\ mem' \in Manifest /\ built' \in Image \cup {Null}
        /\ exit' \in {"none", "ok", "error", "repacked"}
        /\ pc' # "idle" => exit' = exit
        /\ pc' = "idle" => at' = 1 /\ exit' \in {"ok", "error"}
    BY <2>1, <2>4, ContinueFacts DEF PC
  <2>6. plain' \in [File -> Data \cup {Null}]
    BY <1>8, <2>2 DEF SaveWrapper, TypeOK, Written, Data
  <2>7. /\ exit = "none" /\ out = Null
        /\ UNCHANGED <<image, raw, manifest, out>> /\ whole' \in BOOLEAN
    BY <1>8, <2>1 DEF SaveWrapper, Control, TypeOK
  <2>. QED
    BY <2>1, <2>5, <2>6, <2>7 DEF TypeOK, Control, Unpacking, Repacked
<1>9. ASSUME NEW o \in Outcome, ResaveManifest(o)
      PROVE  TypeOK' /\ Control'
  <2>1. /\ Continue(o, "idle", at, mem) /\ mem \in Manifest /\ at \in 1 .. Extra
    BY <1>9 DEF ResaveManifest, TypeOK
  <2>2. /\ pc' = "idle" /\ pc' \in PC /\ at' = 1 /\ at' \in 1 .. Extra
        /\ mem' \in Manifest /\ built' \in Image \cup {Null}
        /\ exit' \in {"ok", "error"}
    BY <2>1, ContinueFacts DEF PC
  <2>3. /\ pc = "wrap_manifest" /\ manifest' \in Manifest
        /\ UNCHANGED <<image, plain, raw, out>> /\ whole' \in BOOLEAN
    BY <1>9, <2>1, ManifestWritten DEF ResaveManifest, TypeOK
  <2>. QED
    BY <2>2, <2>3 DEF TypeOK, Control, Unpacking, Repacked
<1>10. ASSUME BeginRepack
       PROVE  TypeOK' /\ Control'
  <2>1. CASE manifest.type
    <3>1. [comp |-> [c \in Comp |-> Null], dhtb |-> Null] \in Image
      BY DEF Image
    <3>. QED
      BY <1>10, <2>1, <3>1, IndexFacts
         DEF BeginRepack, disk, TypeOK, PC, Control, Unpacking, Repacked
  <2>2. CASE ~manifest.type
    BY <1>10, <2>2, EndFacts
       DEF BeginRepack, disk, TypeOK, PC, Control, Unpacking, Repacked
  <2>. QED
    BY <2>1, <2>2
<1>11. ASSUME LoadComponent
       PROVE  TypeOK' /\ Control'
  <2>1. LoadedBlob(mem, at) \in Blob \cup {Null}
    BY <1>11, LoadedType DEF LoadComponent, TypeOK
  <2>2. built' \in Image
    BY <1>11, <2>1 DEF LoadComponent, Control, Image
  <2>3. at' \in 1 .. Extra
    BY <1>11, IndexFacts DEF LoadComponent
  <2>. QED
    BY <1>11, <2>2, <2>3
       DEF LoadComponent, disk, TypeOK, Control, Unpacking, Repacked
<1>12. ASSUME LoadWrapper
       PROVE  TypeOK' /\ Control'
  <2>1. LoadedWrap(mem) \in Dhtb \cup {Null}
    BY LoadedWrapType DEF TypeOK
  <2>2. built' \in Image
    BY <1>12, <2>1 DEF LoadWrapper, Control, Image
  <2>. QED
    BY <1>12, <2>2
       DEF LoadWrapper, disk, TypeOK, PC, Control, Unpacking, Repacked
<1>13. ASSUME MissingFile
       PROVE  TypeOK' /\ Control'
  BY <1>13, EndFacts DEF MissingFile, disk, TypeOK, PC, Control, Unpacking, Repacked
<1>14. ASSUME NEW o \in Outcome, WriteOut(o)
       PROVE  TypeOK' /\ Control'
  <2>1. /\ End(IF o = "abort" THEN "error" ELSE "repacked")
        /\ manifest.type /\ built \in Image
        /\ UNCHANGED <<image, plain, raw, manifest, whole>>
        /\ out' \in Image \cup {Null}
    BY <1>14 DEF WriteOut, Control, disk, Written
  <2>2. /\ pc' = "idle" /\ pc' \in PC /\ at' = 1 /\ at' \in 1 .. Extra
        /\ exit' \in {"none", "ok", "error", "repacked"}
        /\ mem' \in Manifest /\ built' \in Image \cup {Null}
    BY <2>1, EndFacts
  <2>. QED
    BY <2>1, <2>2 DEF TypeOK, Control, Unpacking, Repacked
<1>15. ASSUME Kill
       PROVE  TypeOK' /\ Control'
  BY <1>15, EndFacts DEF Kill, disk, TypeOK, PC, Control, Unpacking, Repacked
<1>16. ASSUME User
       PROVE  TypeOK' /\ Control'
  BY <1>16, UserFacts DEF TypeOK, Control, Unpacking, Repacked
<1>17. ASSUME UNCHANGED vars
       PROVE  TypeOK' /\ Control'
  BY <1>17 DEF vars, disk, TypeOK, Control, Unpacking, Repacked
<1>. QED
  BY <1>1, <1>2, <1>3, <1>4, <1>5, <1>6, <1>7, <1>8, <1>9, <1>10, <1>11, <1>12,
     <1>13, <1>14, <1>15, <1>16, <1>17 DEF Next, Unpack, Repack

-----------------------------------------------------------------------------
(* What an unpack has recorded.                                            *)

\* A write of an unpack whose whole' still holds was whole, and so the command
\* goes on where the code does.
LEMMA WholeWrite ==
  ASSUME NEW o, NEW next, NEW k, NEW m,
         Continue(o, next, k, m), o = "whole"
  PROVE  IF next = "idle" THEN End("ok")
         ELSE pc' = next /\ at' = k /\ mem' = m /\ UNCHANGED <<exit, built>>
BY DEF Continue

\* Each step of an unpack that is whole adds its component to what is recorded.
LEMMA UnpackStep ==
  ASSUME TypeOK, Control, UnpackInv, [Next]_vars
  PROVE  UnpackInv'
<1> SUFFICES ASSUME whole', Unpacking'
             PROVE  UnpackInv'
  BY DEF UnpackInv, Unpacking
<1>1. ASSUME NEW img \in Images, BeginUnpack(img)
      PROVE  UnpackInv'
  <2>1. /\ pc' = "save" /\ at = 1 /\ at' = 1
        /\ mem' = [NoManifest EXCEPT !.type = TRUE]
    BY <1>1 DEF BeginUnpack, Control
  <2>2. /\ mem'.type /\ mem'.dhtb = Null
        /\ \A f \in File : mem'.entry[f] = NoEntry
    BY <2>1 DEF NoManifest
  <2>. QED
    BY <2>1, <2>2, IndexFacts DEF UnpackInv
<1>2. ASSUME Skip
      PROVE  UnpackInv'
  <2>1. /\ pc = "save" /\ pc' = "save" /\ at \in Comp /\ at' = at + 1
        /\ image.comp[at] = Null /\ whole
        /\ UNCHANGED <<image, mem, plain, raw>>
    BY <1>2 DEF Skip, disk
  <2>2. ASSUME NEW c \in Comp, c < at'
        PROVE  Recorded(mem, c)'
    <3>1. Recorded(mem, c)
      <4>1. c < at \/ c = at
        BY <2>1, <2>2, LoopFacts
      <4>2. CASE c < at
        BY <2>1, <4>2 DEF UnpackInv
      <4>3. CASE c = at
        BY <2>1, <4>3 DEF UnpackInv, Recorded
      <4>. QED
        BY <4>1, <4>2, <4>3
    <3>. QED
      BY <2>1, <3>1 DEF Recorded
  <2>3. /\ \A f \in File : f > at' => f > at
        /\ at' > at /\ at' \in File
    BY <2>1, LoopFacts
  <2>. QED
    BY <2>1, <2>2, <2>3 DEF UnpackInv
<1>3. ASSUME NEW o \in Outcome, SavePlain(o)
      PROVE  UnpackInv'
  <2> DEFINE m == [mem EXCEPT !.entry[at] = EntryOf(at, image.comp[at])]
  <2>1. /\ pc = "save" /\ at \in Comp /\ image.comp[at] # Null
        /\ whole /\ o = "whole" /\ UNCHANGED <<image, raw>>
        /\ plain' = [plain EXCEPT ![at] = Decompress(image.comp[at].stream)]
        /\ IF at \in Coded THEN Continue(o, "raw", at, m)
                           ELSE Continue(o, "save", at + 1, m)
    BY <1>3 DEF SavePlain, Written
  <2>2. IF at \in Coded THEN pc' = "raw" /\ at' = at /\ mem' = m
                        ELSE pc' = "save" /\ at' = at + 1 /\ mem' = m
    BY <2>1, WholeWrite
  <2>3. /\ m.type /\ m.dhtb = Null
        /\ m.entry[at] = EntryOf(at, image.comp[at])
        /\ \A f \in File : f # at => m.entry[f] = mem.entry[f]
    <3>1. mem.entry \in [File -> Entry] /\ mem \in Manifest
      BY DEF TypeOK, Manifest
    <3>. QED
      BY <2>1, <3>1, IndexFacts DEF UnpackInv, Manifest
  <2>4. /\ plain'[at] = Decompress(image.comp[at].stream)
        /\ \A f \in File : f # at => plain'[f] = plain[f]
    BY <2>1, IndexFacts DEF TypeOK
  <2>5. mem' = m
    BY <2>2
  <2>6. ASSUME NEW c \in Comp, c < at
        PROVE  Recorded(mem, c)'
    <3>1. Recorded(mem, c) /\ c # at /\ c \in File
      BY <2>1, <2>6, IndexFacts DEF UnpackInv
    <3>. QED
      BY <2>1, <2>3, <2>4, <2>5, <3>1 DEF Recorded
  <2>7. \A f \in File : f > at => m.entry[f] = NoEntry
    BY <2>1, <2>3, IndexFacts DEF UnpackInv
  <2>8. CASE at \in Coded
    BY <2>1, <2>2, <2>3, <2>4, <2>6, <2>7, <2>8 DEF UnpackInv
  <2>9. CASE at \notin Coded
    <3>1. pc' = "save" /\ at' = at + 1
      BY <2>2, <2>9
    <3>2. ASSUME NEW c \in Comp, c < at'
          PROVE  Recorded(mem, c)'
      <4>1. c < at \/ c = at
        BY <3>1, <3>2, <2>1, LoopFacts
      <4>2. CASE c = at
        BY <4>2, <2>9, <2>1, <2>3, <2>4, <2>5 DEF Recorded
      <4>. QED
        BY <4>1, <4>2, <2>6
    <3>3. /\ \A f \in File : f > at' => f > at
          /\ at' > at /\ at' \in File
      BY <3>1, <2>1, LoopFacts
    <3>. QED
      BY <3>1, <3>2, <3>3, <2>5, <2>3, <2>7 DEF UnpackInv
  <2>. QED
    BY <2>8, <2>9
<1>4. ASSUME NEW o \in Outcome, SaveRaw(o)
      PROVE  UnpackInv'
  <2>1. /\ pc = "raw" /\ at \in Coded /\ image.comp[at] # Null
        /\ at \in Comp /\ whole /\ o = "whole" /\ UNCHANGED <<image, plain>>
        /\ raw' = [raw EXCEPT ![at] = image.comp[at].stream]
        /\ Continue(o, "save", at + 1, mem)
    BY <1>4, IndexFacts DEF SaveRaw, Written, Control
  <2>2. pc' = "save" /\ at' = at + 1 /\ mem' = mem
    BY <2>1, WholeWrite
  <2>3. /\ raw'[at] = image.comp[at].stream
        /\ \A c \in Coded : c # at => raw'[c] = raw[c]
    BY <2>1 DEF TypeOK
  <2>4. ASSUME NEW c \in Comp, c < at'
        PROVE  Recorded(mem, c)'
    <3>1. c < at \/ c = at
      BY <2>1, <2>2, <2>4, LoopFacts
    <3>2. CASE c < at
      <4>1. Recorded(mem, c) /\ c # at
        BY <2>1, <3>2, IndexFacts DEF UnpackInv
      <4>. QED
        BY <2>1, <2>2, <2>3, <4>1 DEF Recorded
    <3>3. CASE c = at
      BY <2>1, <2>2, <2>3, <3>3 DEF Recorded, UnpackInv
    <3>. QED
      BY <3>1, <3>2, <3>3
  <2>5. /\ \A f \in File : f > at' => f > at
        /\ at' > at /\ at' \in File
    BY <2>1, <2>2, LoopFacts
  <2>. QED
    BY <2>1, <2>2, <2>4, <2>5 DEF UnpackInv
<1>5. ASSUME NEW o \in Outcome, SaveManifest(o)
      PROVE  UnpackInv'
  <2>1. /\ pc = "save" /\ at = Extra /\ whole /\ o = "whole"
        /\ UNCHANGED <<image, plain, raw>> /\ manifest' = mem
        /\ Continue(o, IF image.dhtb = Null THEN "idle" ELSE "wrap", at, mem)
    BY <1>5 DEF SaveManifest, Written
  <2>2. pc' = "wrap"
    BY <2>1, WholeWrite DEF End, Unpacking
  <2>3. \A c \in Comp : c < Extra
    BY IndexFacts DEF Comp, Extra
  <2>4. /\ mem.type /\ mem.entry[Extra] = NoEntry
        /\ \A c \in Comp : Recorded(mem, c)
    BY <2>1, <2>3 DEF UnpackInv
  <2>. QED
    BY <2>1, <2>2, <2>4 DEF UnpackInv, Recorded
<1>6. ASSUME NEW o \in Outcome, SaveWrapper(o)
      PROVE  UnpackInv'
  <2> DEFINE m == [manifest EXCEPT !.dhtb = image.dhtb.flags,
                        !.entry[Extra].file = image.dhtb.extra # Null]
  <2>1. /\ pc = "wrap" /\ whole /\ o = "whole"
        /\ UNCHANGED <<image, raw>>
        /\ Continue(o, "wrap_manifest", at, m)
        /\ IF image.dhtb.extra = Null THEN plain' = plain
           ELSE plain' = [plain EXCEPT ![Extra] = image.dhtb.extra]
    BY <1>6 DEF SaveWrapper, Written
  <2>2. pc' = "wrap_manifest" /\ mem' = m
    BY <2>1, WholeWrite
  <2>3. /\ m.type = manifest.type /\ m.dhtb = image.dhtb.flags
        /\ m.entry[Extra].file = (image.dhtb.extra # Null)
        /\ m.entry[Extra].part = manifest.entry[Extra].part
        /\ \A c \in Comp : m.entry[c] = manifest.entry[c]
    <3>1. /\ manifest \in Manifest /\ manifest.entry \in [File -> Entry]
          /\ manifest.entry[Extra] \in Entry
      BY IndexFacts DEF TypeOK, Manifest
    <3>2. LET e == [manifest.entry[Extra] EXCEPT !.file = image.dhtb.extra # Null]
          IN  /\ e.file = (image.dhtb.extra # Null)
              /\ e.part = manifest.entry[Extra].part
      BY <3>1 DEF Entry
    <3>. QED
      BY <3>1, <3>2, IndexFacts DEF Manifest
  <2>4. /\ \A c \in Comp : plain'[c] = plain[c]
        /\ image.dhtb.extra # Null => plain'[Extra] = image.dhtb.extra
    BY <2>1, IndexFacts DEF TypeOK
  <2>5. \A c \in Comp : Recorded(manifest, c) /\ manifest.type
    BY <2>1 DEF UnpackInv
  <2>6. m.type /\ ~m.entry[Extra].part
    BY <2>1, <2>3 DEF UnpackInv, NoEntry
  <2>7. ASSUME NEW c \in Comp
        PROVE  Recorded(mem, c)'
    BY <2>1, <2>2, <2>3, <2>4, <2>5 DEF Recorded
  <2>. QED
    BY <2>1, <2>2, <2>3, <2>4, <2>6, <2>7 DEF UnpackInv
<1>7. ASSUME \/ RejectInput \/ CannotDecode \/ MissingFile \/ Kill
             \/ \E o \in Outcome : WriteOut(o)
             \/ \E o \in Outcome : ResaveManifest(o)
      PROVE  UnpackInv'
  <2>1. ASSUME NEW o, NEW m, Continue(o, "idle", at, m)
        PROVE  pc' = "idle"
    BY <2>1 DEF Continue, End
  <2>2. pc' = "idle"
    BY <1>7, <2>1 DEF RejectInput, CannotDecode, MissingFile, Kill, WriteOut,
                      ResaveManifest, End
  <2>. QED
    BY <2>2 DEF Unpacking
<1>8. ASSUME BeginRepack \/ LoadComponent \/ LoadWrapper
      PROVE  UnpackInv'
  BY <1>8 DEF BeginRepack, LoadComponent, LoadWrapper, End, Unpacking
<1>9. ASSUME User
      PROVE  UnpackInv'
  BY <1>9, UserFacts DEF Unpacking
<1>10. ASSUME UNCHANGED vars
       PROVE  UnpackInv'
  BY <1>10 DEF vars, disk, UnpackInv, Recorded
<1>. QED
  BY <1>1, <1>2, <1>3, <1>4, <1>5, <1>6, <1>7, <1>8, <1>9, <1>10
     DEF Next, Unpack, Repack

-----------------------------------------------------------------------------
(* What is left of it while the user edits and repack reads.               *)

\* What SessionInv says of component c is true of what unpack records.
LEMMA RecordedSession ==
  ASSUME NEW m, NEW c \in Comp, Recorded(m, c)
  PROVE  /\ ~m.entry[c].part
         /\ image.comp[c] = Null => ~m.entry[c].file
         /\ c \notin Coded => /\ m.entry[c].compression = Null
                              /\ image.comp[c] = Null => m.entry[c].mtk_name = Null
                              /\ image.comp[c] # Null =>
                                   m.entry[c].mtk_name = image.comp[c].mtk
         /\ image.comp[c] # Null /\ c \in Coded =>
              /\ m.entry[c].orig_hash = Sha256(Decompress(image.comp[c].stream))
              /\ raw[c] \in {Null, image.comp[c].stream}
BY DEF Recorded, EntryOf, NoEntry

\* A manifest in which an unpack has recorded every component starts a session.
LEMMA SessionStart ==
  ASSUME TypeOK, image \in Images, NEW m, \A c \in Comp : Recorded(m, c),
         ~m.entry[Extra].part, manifest' = m, UNCHANGED <<image, raw>>
  PROVE  SessionInv'
<1>1. ASSUME NEW c \in Comp, c \notin Coded, image.comp[c] # Null
      PROVE  image.comp[c].mtk = Null
  BY <1>1, WorkspaceAssumption DEF WellFormed
<1>. QED
  BY <1>1, RecordedSession, IndexFacts DEF SessionInv

\* The acts of the user touch neither the recorded hashes nor the streams.
LEMMA SessionUser ==
  ASSUME TypeOK, SessionInv, Session, User
  PROVE  SessionInv'
<1>0. /\ manifest.entry \in [File -> Entry]
      /\ \A f \in File : manifest.entry[f] \in Entry
      /\ UNCHANGED <<image, pc, whole>>
  BY UserFacts DEF TypeOK, Manifest
<1>1. ASSUME NEW f \in File, NEW p \in Content, EditContent(f, p)
      PROVE  SessionInv'
  BY <1>0, <1>1 DEF EditContent, SessionInv, Session
<1>2. ASSUME NEW c \in Coded, NEW text \in CodecText, EditCompression(c, text)
      PROVE  SessionInv'
  <2>1. /\ manifest' = [manifest EXCEPT !.entry[c].compression = text]
        /\ UNCHANGED raw
    BY <1>2 DEF EditCompression
  <2>2. manifest'.entry =
          [manifest.entry EXCEPT ![c] = [@ EXCEPT !.compression = text]]
    BY <2>1 DEF TypeOK, Manifest
  <2>3. LET e == [manifest.entry[c] EXCEPT !.compression = text]
        IN  /\ e.file = manifest.entry[c].file /\ e.part = manifest.entry[c].part
            /\ e.orig_hash = manifest.entry[c].orig_hash
            /\ e.mtk_name = manifest.entry[c].mtk_name
    BY <1>0, IndexFacts DEF Entry
  <2>4. \A d \in File :
          /\ manifest'.entry[d].file = manifest.entry[d].file
          /\ manifest'.entry[d].part = manifest.entry[d].part
          /\ manifest'.entry[d].orig_hash = manifest.entry[d].orig_hash
          /\ manifest'.entry[d].mtk_name = manifest.entry[d].mtk_name
          /\ d # c => manifest'.entry[d].compression = manifest.entry[d].compression
    BY <1>0, <2>2, <2>3
  <2>. QED
    BY <1>0, <2>1, <2>4, IndexFacts DEF SessionInv, Session
<1>3. ASSUME NEW c \in Coded, NEW name \in MtkName \cup {Null}, EditMtkName(c, name)
      PROVE  SessionInv'
  <2>1. /\ manifest' = [manifest EXCEPT !.entry[c].mtk_name = name]
        /\ UNCHANGED raw
    BY <1>3 DEF EditMtkName
  <2>2. manifest'.entry =
          [manifest.entry EXCEPT ![c] = [@ EXCEPT !.mtk_name = name]]
    BY <2>1 DEF TypeOK, Manifest
  <2>3. LET e == [manifest.entry[c] EXCEPT !.mtk_name = name]
        IN  /\ e.file = manifest.entry[c].file /\ e.part = manifest.entry[c].part
            /\ e.orig_hash = manifest.entry[c].orig_hash
            /\ e.compression = manifest.entry[c].compression
    BY <1>0, IndexFacts DEF Entry
  <2>4. \A d \in File :
          /\ manifest'.entry[d].file = manifest.entry[d].file
          /\ manifest'.entry[d].part = manifest.entry[d].part
          /\ manifest'.entry[d].orig_hash = manifest.entry[d].orig_hash
          /\ manifest'.entry[d].compression = manifest.entry[d].compression
          /\ d # c => manifest'.entry[d].mtk_name = manifest.entry[d].mtk_name
    BY <1>0, <2>2, <2>3
  <2>. QED
    BY <1>0, <2>1, <2>4, IndexFacts DEF SessionInv, Session
<1>4. ASSUME NEW f \in File, DropComponent(f)
      PROVE  SessionInv'
  <2>1. /\ manifest' = [manifest EXCEPT !.entry[f].file = FALSE,
                                        !.entry[f].part = FALSE]
        /\ UNCHANGED raw
    BY <1>4 DEF DropComponent
  <2>2. manifest'.entry =
          [manifest.entry EXCEPT ![f] = [@ EXCEPT !.file = FALSE, !.part = FALSE]]
    BY <1>0, <2>1 DEF TypeOK, Manifest
  <2>3. LET e == [manifest.entry[f] EXCEPT !.file = FALSE, !.part = FALSE]
        IN  /\ ~e.file /\ ~e.part
            /\ e.orig_hash = manifest.entry[f].orig_hash
            /\ e.mtk_name = manifest.entry[f].mtk_name
            /\ e.compression = manifest.entry[f].compression
    BY <1>0 DEF Entry
  <2>4. \A d \in File :
          /\ manifest'.entry[d].file => manifest.entry[d].file
          /\ manifest'.entry[d].part => manifest.entry[d].part
          /\ manifest'.entry[d].orig_hash = manifest.entry[d].orig_hash
          /\ manifest'.entry[d].mtk_name = manifest.entry[d].mtk_name
          /\ manifest'.entry[d].compression = manifest.entry[d].compression
    BY <1>0, <2>2, <2>3
  <2>. QED
    BY <1>0, <2>1, <2>4, IndexFacts DEF SessionInv, Session
<1>5. ASSUME NEW f \in File, DeleteFile(f)
      PROVE  SessionInv'
  BY <1>0, <1>5 DEF DeleteFile, SessionInv, Session
<1>6. ASSUME RemoveRaw
      PROVE  SessionInv'
  BY <1>0, <1>6, IndexFacts DEF RemoveRaw, SessionInv, Session
<1>. QED
  BY <1>1, <1>2, <1>3, <1>4, <1>5, <1>6 DEF User

\* A session begins when an unpack ends, and nothing but the user changes it.
LEMMA SessionStep ==
  ASSUME TypeOK, Control, UnpackInv, SessionInv, [Next]_vars
  PROVE  SessionInv'
<1> SUFFICES ASSUME whole', ~Unpacking'
             PROVE  SessionInv'
  BY DEF SessionInv, Session
<1>1. ASSUME \/ \E img \in Images : BeginUnpack(img)
             \/ Skip \/ CannotDecode
             \/ \E o \in Outcome : SavePlain(o) \/ SaveRaw(o) \/ SaveWrapper(o)
      PROVE  FALSE
  <2>1. CASE \/ \E img \in Images : BeginUnpack(img)
             \/ Skip \/ CannotDecode
    BY <2>1 DEF BeginUnpack, Skip, CannotDecode, Unpacking
  <2>2. PICK o \in Outcome : SavePlain(o) \/ SaveRaw(o) \/ SaveWrapper(o)
    BY <1>1, <2>1
  <2>3. o = "whole"
    BY <2>2 DEF SavePlain, SaveRaw, SaveWrapper
  <2>4. pc' \in {"raw", "save", "wrap_manifest"}
    BY <2>2, <2>3 DEF SavePlain, SaveRaw, SaveWrapper, Continue
  <2>. QED
    BY <2>4 DEF Unpacking
<1>2. ASSUME NEW o \in Outcome, SaveManifest(o)
      PROVE  SessionInv'
  <2>1. /\ pc = "save" /\ at = Extra /\ whole /\ manifest' = mem
        /\ UNCHANGED <<image, raw>>
    BY <1>2 DEF SaveManifest, Written
  <2>2. image \in Images
    BY <2>1 DEF Control
  <2>3. ~mem.entry[Extra].part /\ \A c \in Comp : Recorded(mem, c)
    BY <2>1, LoopFacts DEF UnpackInv, NoEntry
  <2>. QED
    BY <2>1, <2>2, <2>3, SessionStart
<1>3. ASSUME NEW o \in Outcome, ResaveManifest(o)
      PROVE  SessionInv'
  <2>1. /\ pc = "wrap_manifest" /\ whole /\ manifest' = mem
        /\ UNCHANGED <<image, raw>> /\ image \in Images
    BY <1>3 DEF ResaveManifest, Written, Control
  <2>2. ~mem.entry[Extra].part /\ \A c \in Comp : Recorded(mem, c)
    BY <2>1 DEF UnpackInv
  <2>. QED
    BY <2>1, <2>2, SessionStart
<1>4. ASSUME \/ RejectInput \/ BeginRepack \/ LoadComponent \/ LoadWrapper
             \/ MissingFile \/ (\E o \in Outcome : WriteOut(o)) \/ Kill
             \/ UNCHANGED vars
      PROVE  SessionInv'
  <2>1. UNCHANGED <<image, raw, manifest>> /\ Session
    BY <1>4 DEF RejectInput, BeginRepack, LoadComponent, LoadWrapper, MissingFile,
                WriteOut, Kill, vars, disk, Session, Unpacking
  <2>. QED
    BY <2>1 DEF SessionInv
<1>5. ASSUME User
      PROVE  SessionInv'
  <2>1. Session
    BY <1>5, UserFacts DEF Session, Unpacking
  <2>. QED
    BY <1>5, <2>1, SessionUser
<1>. QED
  BY <1>1, <1>2, <1>3, <1>4, <1>5 DEF Next, Unpack, Repack

-----------------------------------------------------------------------------
(* What repack assembles.                                                  *)

\* What an unpack does, and what the user does, leaves no repack running and no
\* output behind.
LEMMA NoOutput ==
  ASSUME TypeOK, Control, Unpack \/ User
  PROVE  pc' \notin {"load", "write"} /\ ~Repacked'
<1>1. ASSUME NEW o, NEW next \in PC \ {"load", "write"}, NEW k, NEW m,
             Continue(o, next, k, m), exit = "none"
      PROVE  pc' \notin {"load", "write"} /\ exit' # "repacked"
  BY <1>1 DEF Continue, End
<1>2. CASE \E o \in Outcome : SavePlain(o) \/ SaveRaw(o) \/ SaveWrapper(o)
  <2>1. PICK o \in Outcome : SavePlain(o) \/ SaveRaw(o) \/ SaveWrapper(o)
    BY <1>2
  <2>2. \E next \in {"save", "raw", "wrap_manifest"} : \E k, m : Continue(o, next, k, m)
    BY <2>1 DEF SavePlain, SaveRaw, SaveWrapper
  <2>3. exit = "none"
    BY <2>1 DEF SavePlain, SaveRaw, SaveWrapper, Control
  <2>. QED
    BY <1>1, <2>2, <2>3 DEF PC, Repacked
<1>3. CASE \E o \in Outcome : SaveManifest(o) \/ ResaveManifest(o)
  <2>1. PICK o \in Outcome : SaveManifest(o) \/ ResaveManifest(o)
    BY <1>3
  <2>2. \E next \in {"idle", "wrap"} : \E k, m : Continue(o, next, k, m)
    BY <2>1 DEF SaveManifest, ResaveManifest
  <2>3. exit = "none"
    BY <2>1 DEF SaveManifest, ResaveManifest, Control
  <2>. QED
    BY <1>1, <2>2, <2>3 DEF PC, Repacked
<1>4. CASE \/ \E img \in Images : BeginUnpack(img)
           \/ RejectInput \/ Skip \/ CannotDecode
  BY <1>4 DEF BeginUnpack, RejectInput, Skip, CannotDecode, End, Repacked, Control
<1>5. CASE User
  BY <1>5, UserFacts DEF Repacked
<1>. QED
  BY <1>2, <1>3, <1>4, <1>5 DEF Unpack

\* repack reads one component after the other, and nothing changes what it reads.
LEMMA RepackStep ==
  ASSUME TypeOK, Control, RepackInv, [Next]_vars
  PROVE  RepackInv'
<1>1. CASE Unpack \/ User
  BY <1>1, NoOutput DEF RepackInv
<1>2. CASE BeginRepack
  <2>1. CASE manifest.type
    <3>1. at' = 1 /\ pc' = "load" /\ exit' = "none"
      BY <1>2, <2>1 DEF BeginRepack
    <3>2. \A c \in Comp : ~(c < 1)
      BY DEF Comp
    <3>. QED
      BY <3>1, <3>2 DEF RepackInv, Repacked
  <2>2. CASE ~manifest.type
    BY <1>2, <2>2 DEF BeginRepack, End, RepackInv, Repacked
  <2>. QED
    BY <2>1, <2>2
<1>3. CASE LoadComponent
  <2>1. /\ pc = "load" /\ pc' = "load" /\ at \in Comp /\ at' = at + 1
        /\ mem = manifest /\ exit' = "none"
        /\ UNCHANGED <<plain, raw, manifest>>
        /\ manifest.entry[at].file => plain[at] # Null /\ ~manifest.entry[at].part
        /\ built' = [built EXCEPT !.comp[at] = LoadedBlob(manifest, at)]
        /\ built.comp \in [Comp -> Blob \cup {Null}] /\ built \in Image
    BY <1>3 DEF LoadComponent, disk, Control, Image
  <2>2. /\ built'.comp[at] = LoadedBlob(manifest, at)
        /\ \A c \in Comp : c # at => built'.comp[c] = built.comp[c]
    BY <2>1 DEF Image
  <2>3. ASSUME NEW c \in Comp
        PROVE  LoadedBlob(manifest, c)' = LoadedBlob(manifest, c)
    BY <2>1 DEF LoadedBlob, Recompressed
  <2>4. ASSUME NEW c \in Comp, c < at'
        PROVE  Loaded(built, c)'
    <3>1. c < at \/ c = at
      BY <2>1, <2>4, LoopFacts
    <3>2. CASE c < at
      <4>1. Loaded(built, c) /\ c # at
        BY <2>1, <3>2, IndexFacts DEF RepackInv
      <4>. QED
        BY <2>1, <2>2, <2>3, <4>1 DEF Loaded
    <3>3. CASE c = at
      BY <2>1, <2>2, <2>3, <3>3 DEF Loaded
    <3>. QED
      BY <3>1, <3>2, <3>3
  <2>. QED
    BY <2>1, <2>4 DEF RepackInv, Repacked
<1>4. CASE LoadWrapper
  <2>1. /\ pc = "load" /\ pc' = "write" /\ at = Extra
        /\ mem = manifest /\ exit' = "none"
        /\ UNCHANGED <<plain, raw, manifest>>
        /\ built' = [built EXCEPT !.dhtb = LoadedWrap(manifest)]
        /\ manifest.dhtb # Null /\ manifest.entry[Extra].file =>
             plain[Extra] # Null /\ ~manifest.entry[Extra].part
        /\ built \in Image
    BY <1>4 DEF LoadWrapper, disk, Control
  <2>2. /\ built'.comp = built.comp
        /\ built'.dhtb = LoadedWrap(manifest)
    BY <2>1 DEF Image
  <2>3. \A c \in Comp : Loaded(built, c)
    BY <2>1, LoopFacts DEF RepackInv
  <2>4. \A c \in Comp : Loaded(built, c)'
    BY <2>1, <2>2, <2>3 DEF Loaded, LoadedBlob, Recompressed
  <2>5. LoadedWrap(manifest)' = LoadedWrap(manifest)
    BY <2>1 DEF LoadedWrap
  <2>6. WrapLoaded(built)'
    BY <2>1, <2>2, <2>5 DEF WrapLoaded
  <2>. QED
    BY <2>1, <2>4, <2>6 DEF RepackInv, Repacked
<1>5. CASE MissingFile \/ Kill
  BY <1>5 DEF MissingFile, Kill, End, RepackInv, Repacked
<1>6. ASSUME NEW o \in Outcome, WriteOut(o)
      PROVE  RepackInv'
  <2>1. /\ pc = "write" /\ pc' = "idle"
        /\ UNCHANGED <<plain, raw, manifest>>
        /\ out' \in {built, Null}
    BY <1>6 DEF WriteOut, End, disk, Written
  <2>2. /\ \A c \in Comp : Loaded(built, c)
        /\ WrapLoaded(built)
    BY <2>1 DEF RepackInv
  <2>3. out' = built => WrapLoaded(out)'
    BY <2>1, <2>2 DEF WrapLoaded, LoadedWrap
  <2>4. out' = built => \A c \in Comp : Loaded(out, c)'
    BY <2>1, <2>2 DEF Loaded, LoadedBlob, Recompressed
  <2>. QED
    BY <2>1, <2>2, <2>3, <2>4 DEF RepackInv, Repacked
<1>7. CASE UNCHANGED vars
  BY <1>7 DEF vars, disk, RepackInv, Loaded, LoadedBlob, Recompressed,
              WrapLoaded, LoadedWrap, Repacked
<1>. QED
  BY <1>1, <1>2, <1>3, <1>4, <1>5, <1>6, <1>7 DEF Next, Repack

-----------------------------------------------------------------------------
(* What the manifest names.                                                *)

\* A manifest that names nothing.
LEMMA NothingNamed ==
  ASSUME NEW m, NEW but, m.entry = NoManifest.entry
  PROVE  NamesExisting(m, but) /\ NamesExisting(m, but)'
BY DEF NamesExisting, NoManifest, NoEntry

\* A file that is written, whole or cut, is there.
LEMMA FileWritten ==
  ASSUME NEW o \in Outcome, NEW f \in File, NEW to \in Data,
         TypeOK, plain' = [plain EXCEPT ![f] = Written(o, to, Cut)]
  PROVE  /\ plain'[f] # Null
         /\ \A g \in File : plain[g] # Null => plain'[g] # Null
BY NullFacts DEF TypeOK, Written, Data

\* Unpack writes a file before it names it, and the user's acts are accounted for.
LEMMA FilesStep ==
  ASSUME TypeOK, Control, FilesInv, [Next]_vars
  PROVE  FilesInv'
<1>1. ASSUME NEW img \in Images, BeginUnpack(img)
      PROVE  FilesInv'
  <2>1. /\ pc' = "save" /\ mem'.entry = NoManifest.entry
        /\ UNCHANGED <<plain, raw, manifest>>
    BY <1>1 DEF BeginUnpack, disk, NoManifest
  <2>2. NamesExisting(manifest, 0)'
    BY <2>1 DEF FilesInv, NamesExisting
  <2>3. NamesExisting(mem, 0)'
    BY <2>1, NothingNamed
  <2>. QED
    BY <2>1, <2>2, <2>3 DEF FilesInv
<1>2. ASSUME Skip
      PROVE  FilesInv'
  BY <1>2 DEF Skip, disk, FilesInv, NamesExisting
<1>3. ASSUME NEW o \in Outcome, SavePlain(o)
      PROVE  FilesInv'
  <2> DEFINE m == [mem EXCEPT !.entry[at] = EntryOf(at, image.comp[at])]
  <2>1. /\ at \in Comp /\ at \in File /\ image \in Images
        /\ image.comp[at] \in Blob /\ pc = "save"
        /\ UNCHANGED <<raw, manifest>>
        /\ plain' = [plain EXCEPT ![at] =
                       Written(o, Decompress(image.comp[at].stream), Cut)]
        /\ IF at \in Coded THEN Continue(o, "raw", at, m)
                           ELSE Continue(o, "save", at + 1, m)
    BY <1>3, ImageFacts, IndexFacts DEF SavePlain, Control, Unpacking
  <2>2. /\ plain'[at] # Null
        /\ \A g \in File : plain[g] # Null => plain'[g] # Null
    BY <2>1, EntryOfType, FileWritten
  <2>3. NamesExisting(manifest, 0)'
    BY <2>1, <2>2 DEF FilesInv, NamesExisting
  <2>4. /\ m.entry[at] = EntryOf(at, image.comp[at])
        /\ \A f \in File : f # at => m.entry[f] = mem.entry[f]
    BY <2>1 DEF TypeOK, Manifest
  <2>5. NamesExisting(mem, 0)
    BY <2>1 DEF FilesInv
  <2>6. ASSUME NEW m2, NEW k, m2 = m, k = at
        PROVE  NamesExisting(m2, k)'
    BY <2>1, <2>2, <2>4, <2>5, <2>6, IndexFacts DEF NamesExisting
  <2>7. ASSUME NEW m2, m2 = m, at \notin Coded
        PROVE  NamesExisting(m2, 0)'
    BY <2>1, <2>2, <2>4, <2>5, <2>7, IndexFacts DEF NamesExisting
  <2>8. CASE at \in Coded
    <3>1. \/ pc' = "idle"
          \/ pc' = "raw" /\ mem' = m /\ at' = at
      BY <2>1, <2>8 DEF Continue, End
    <3>2. mem' = m /\ at' = at => NamesExisting(mem, at)'
      BY <2>6 DEF NamesExisting
    <3>. QED
      BY <2>3, <3>1, <3>2 DEF FilesInv
  <2>9. CASE at \notin Coded
    <3>1. \/ pc' = "idle"
          \/ pc' = "save" /\ mem' = m
      BY <2>1, <2>9 DEF Continue, End
    <3>2. mem' = m => NamesExisting(mem, 0)'
      BY <2>7, <2>9 DEF NamesExisting
    <3>. QED
      BY <2>3, <3>1, <3>2 DEF FilesInv
  <2>. QED
    BY <2>8, <2>9
<1>4. ASSUME NEW o \in Outcome, SaveRaw(o)
      PROVE  FilesInv'
  <2>1. /\ at \in Coded /\ at \in Comp /\ image \in Images
        /\ image.comp[at] \in Blob /\ pc = "raw"
        /\ UNCHANGED <<plain, manifest>>
        /\ raw' = [raw EXCEPT ![at] = Written(o, image.comp[at].stream,
                                          Truncated(image.comp[at].stream))]
        /\ Continue(o, "save", at + 1, mem)
    BY <1>4, ImageFacts, IndexFacts DEF SaveRaw, Control, Unpacking
  <2>2. /\ raw'[at] # Null
        /\ \A c \in Coded : c # at => raw'[c] = raw[c]
    BY <2>1, EntryOfType, NullFacts DEF Written, TypeOK
  <2>3. NamesExisting(manifest, 0)'
    BY <2>1, <2>2 DEF FilesInv, NamesExisting
  <2>4. NamesExisting(mem, at)
    BY <2>1 DEF FilesInv
  <2>5. mem' = mem => NamesExisting(mem, 0)'
    BY <2>1, <2>2, <2>4 DEF NamesExisting
  <2>6. pc' = "idle" \/ (pc' = "save" /\ mem' = mem)
    BY <2>1 DEF Continue, End
  <2>. QED
    BY <2>3, <2>5, <2>6 DEF FilesInv
<1>5. ASSUME NEW o \in Outcome, NEW next \in {"idle", "wrap"},
             NamesExisting(mem, 0), UNCHANGED <<plain, raw>>,
             manifest' \in Written(o, {mem}, CutManifests(mem)),
             Continue(o, next, at, mem)
      PROVE  FilesInv'
  <2>1. pc' \in {"idle", "wrap"}
    BY <1>5 DEF Continue, End
  <2>2. mem \in Manifest
    BY DEF TypeOK
  <2>3. NamesExisting(manifest, 0)'
    <3>1. NoMoreThan(manifest', mem)
      BY <1>5, <2>2, ManifestWritten
    <3>. QED
      BY <1>5, <3>1 DEF NamesExisting, NoMoreThan
  <2>. QED
    BY <2>1, <2>3 DEF FilesInv
<1>6. ASSUME NEW o \in Outcome, SaveManifest(o) \/ ResaveManifest(o)
      PROVE  FilesInv'
  <2>1. NamesExisting(mem, 0)
    BY <1>6 DEF SaveManifest, ResaveManifest, FilesInv
  <2>2. /\ UNCHANGED <<plain, raw>>
        /\ manifest' \in Written(o, {mem}, CutManifests(mem))
        /\ Continue(o, "idle", at, mem) \/ Continue(o, "wrap", at, mem)
    BY <1>6 DEF SaveManifest, ResaveManifest
  <2>. QED
    BY <1>5, <2>1, <2>2
<1>7. ASSUME NEW o \in Outcome, SaveWrapper(o)
      PROVE  FilesInv'
  <2> DEFINE m == [manifest EXCEPT !.dhtb = image.dhtb.flags,
                        !.entry[Extra].file = image.dhtb.extra # Null]
  <2>1. /\ pc = "wrap" /\ image \in Images /\ image.dhtb # Null
        /\ image.dhtb.extra \in Data \cup {Null}
        /\ UNCHANGED <<raw, manifest>>
        /\ Continue(o, "wrap_manifest", at, m)
        /\ IF image.dhtb.extra = Null THEN plain' = plain
           ELSE plain' = [plain EXCEPT ![Extra] =
                            Written(o, image.dhtb.extra, Cut)]
    BY <1>7, ImageFacts DEF SaveWrapper, Control, Unpacking
  <2>2. /\ image.dhtb.extra # Null => plain'[Extra] # Null
        /\ \A g \in File : plain[g] # Null => plain'[g] # Null
    BY <2>1, FileWritten, IndexFacts
  <2>3. NamesExisting(manifest, 0)'
    BY <2>1, <2>2 DEF FilesInv, NamesExisting
  <2>4. /\ m.entry[Extra].file = (image.dhtb.extra # Null)
        /\ m.entry[Extra].part = manifest.entry[Extra].part
        /\ \A c \in Comp : m.entry[c] = manifest.entry[c]
    <3>1. /\ manifest \in Manifest /\ manifest.entry \in [File -> Entry]
          /\ manifest.entry[Extra] \in Entry
      BY IndexFacts DEF TypeOK, Manifest
    <3>2. LET e == [manifest.entry[Extra] EXCEPT !.file = image.dhtb.extra # Null]
          IN  /\ e.file = (image.dhtb.extra # Null)
              /\ e.part = manifest.entry[Extra].part
      BY <3>1 DEF Entry
    <3>. QED
      BY <3>1, <3>2, IndexFacts DEF Manifest
  <2>5. ASSUME NEW m2, m2 = m
        PROVE  NamesExisting(m2, 0)'
    <3>1. \A f \in File :
            /\ m2.entry[f].file /\ ~m2.entry[f].part =>
                 \/ plain'[f] # Null
                 \/ manifest.entry[f].file /\ ~manifest.entry[f].part
            /\ f \in Coded => m2.entry[f] = manifest.entry[f]
      BY <2>2, <2>4, <2>5, IndexFacts
    <3>2. NamesExisting(manifest, 0)
      BY DEF FilesInv
    <3>. QED
      BY <2>1, <2>2, <3>1, <3>2 DEF NamesExisting
  <2>6. pc' = "idle" \/ (pc' = "wrap_manifest" /\ mem' = m)
    BY <2>1 DEF Continue, End
  <2>7. mem' = m => NamesExisting(mem, 0)'
    BY <2>5 DEF NamesExisting
  <2>. QED
    BY <2>3, <2>6, <2>7 DEF FilesInv
<1>8. ASSUME \/ RejectInput \/ CannotDecode \/ BeginRepack \/ LoadComponent
             \/ LoadWrapper \/ MissingFile \/ (\E o \in Outcome : WriteOut(o))
             \/ Kill
      PROVE  FilesInv'
  <2>1. /\ UNCHANGED <<plain, raw, manifest>>
        /\ pc' \in {"idle", "load", "write"}
    BY <1>8 DEF RejectInput, CannotDecode, BeginRepack, LoadComponent, LoadWrapper,
                MissingFile, WriteOut, Kill, disk, End
  <2>. QED
    BY <2>1 DEF FilesInv, NamesExisting
<1>9. ASSUME User
      PROVE  FilesInv'
  <2>1. pc' = "idle"
    BY <1>9, UserFacts
  <2>2. NamesExisting(manifest, 0) /\ manifest.entry \in [File -> Entry]
    BY DEF FilesInv, TypeOK, Manifest
  <2>3. NamesExisting(manifest, 0)'
    <3>1. ASSUME NEW f \in File, NEW p \in Content, EditContent(f, p)
          PROVE  NamesExisting(manifest, 0)'
      <4>1. /\ UNCHANGED <<raw, manifest>>
            /\ \A g \in File : plain[g] # Null => plain'[g] # Null
        BY <3>1, NullFacts DEF EditContent, TypeOK, Data
      <4>. QED
        BY <2>2, <4>1 DEF NamesExisting
    <3>2. ASSUME UNCHANGED <<plain, raw>>,
                 \A f \in File :
                   /\ manifest'.entry[f].file /\ ~manifest'.entry[f].part =>
                        manifest.entry[f].file /\ ~manifest.entry[f].part
                   /\ manifest'.entry[f].orig_hash = manifest.entry[f].orig_hash
          PROVE  NamesExisting(manifest, 0)'
      BY <2>2, <3>2 DEF NamesExisting
    <3>3. ASSUME NEW c \in Coded, NEW text \in CodecText, EditCompression(c, text)
          PROVE  NamesExisting(manifest, 0)'
      BY <2>2, <3>2, <3>3, IndexFacts DEF EditCompression, TypeOK, Manifest, Entry
    <3>4. ASSUME NEW c \in Coded, NEW name \in MtkName \cup {Null},
                 EditMtkName(c, name)
          PROVE  NamesExisting(manifest, 0)'
      BY <2>2, <3>2, <3>4, IndexFacts DEF EditMtkName, TypeOK, Manifest, Entry
    <3>5. ASSUME NEW f \in File, DropComponent(f)
          PROVE  NamesExisting(manifest, 0)'
      BY <2>2, <3>2, <3>5, IndexFacts DEF DropComponent, TypeOK, Manifest, Entry
    <3>6. ASSUME NEW f \in File, DeleteFile(f)
          PROVE  NamesExisting(manifest, 0)'
      BY <2>2, <3>6 DEF DeleteFile, UserAct, NamesExisting
    <3>7. ASSUME RemoveRaw
          PROVE  NamesExisting(manifest, 0)'
      BY <2>2, <3>7 DEF RemoveRaw, UserAct, NamesExisting
    <3>. QED
      BY <1>9, <3>1, <3>3, <3>4, <3>5, <3>6, <3>7 DEF User
  <2>. QED
    BY <2>1, <2>3 DEF FilesInv
<1>10. ASSUME UNCHANGED vars
       PROVE  FilesInv'
  BY <1>10 DEF vars, disk, FilesInv, NamesExisting
<1>. QED
  BY <1>1, <1>2, <1>3, <1>4, <1>6, <1>7, <1>8, <1>9, <1>10
     DEF Next, Unpack, Repack

-----------------------------------------------------------------------------
(* The theorems.                                                           *)

\* The inductive invariant holds in every state of every behaviour.
THEOREM Invariance == Spec => []IInv
<1>1. Init => IInv
  <2> SUFFICES ASSUME Init PROVE IInv
    OBVIOUS
  <2>1. TypeOK /\ Control
    BY TypeInit
  <2>2. pc = "idle" /\ ~whole /\ exit = "none" /\ manifest = NoManifest
    BY DEF Init
  <2>3. NamesExisting(manifest, 0)
    BY <2>2, NothingNamed
  <2>. QED
    BY <2>1, <2>2, <2>3
       DEF IInv, UnpackInv, SessionInv, Session, RepackInv, Repacked, FilesInv
<1>2. IInv /\ [Next]_vars => IInv'
  BY TypeStep, UnpackStep, SessionStep, RepackStep, FilesStep DEF IInv
<1>. QED
  BY <1>1, <1>2, PTL DEF Spec

\* Every variable keeps its type, whatever fails or is killed.
THEOREM TypeCorrect == Spec => []TypeOK
<1>1. IInv => TypeOK
  BY DEF IInv
<1>. QED
  BY <1>1, Invariance, PTL

\* At every step of every command, finished or cut anywhere, the files that
\* manifest.txt names in full are there: unpack writes a component and its raw
\* copy before the manifest.  No name is cut after an unpack that went well.
THEOREM NoDanglingName == Spec => []ManifestNamesExistingFiles
<1>1. IInv => ManifestNamesExistingFiles
  BY IndexFacts DEF IInv, FilesInv, NamesExisting, SessionInv,
                    ManifestNamesExistingFiles
<1>. QED
  BY <1>1, Invariance, PTL

\* A component whose file, manifest lines and raw copy are still those of unpack
\* is loaded as it came: load_component replays the stream behind the same
\* MediaTek header.
LEMMA AsUnpackedLoaded ==
  ASSUME IInv, Session, NEW c \in Comp, AsUnpacked(c)
  PROVE  LoadedBlob(manifest, c) = image.comp[c]
<1>1. /\ image \in Images /\ image.comp[c] \in Blob /\ image.comp[c] # Null
  BY ImageFacts DEF IInv, Control, Session, AsUnpacked
<1>2. /\ image.comp[c] = AddMtkHeader(image.comp[c].stream, image.comp[c].mtk)
      /\ image.comp[c].stream \in Stream
  BY <1>1 DEF Blob, AddMtkHeader
<1>3. /\ manifest.entry[c].file /\ manifest.entry[c].mtk_name = image.comp[c].mtk
      /\ plain[c] = image.comp[c].stream.data
  BY DEF AsUnpacked, EntryOf, Decompress
<1>4. CASE c \in Coded
  <2>1. /\ manifest.entry[c].orig_hash = Sha256(plain[c])
        /\ raw[c] = image.comp[c].stream
    BY <1>1, <1>4 DEF IInv, SessionInv, AsUnpacked, EntryOf
  <2>2. raw[c] # Null
    BY <1>4 DEF AsUnpacked
  <2>. QED
    BY <1>2, <1>3, <1>4, <2>1, <2>2 DEF LoadedBlob, Recompressed
<1>5. CASE c \notin Coded
  <2>1. image.comp[c].mtk = Null /\ image.comp[c].stream.codec = "none"
    BY <1>1, <1>5, WorkspaceAssumption DEF WellFormed
  <2>2. image.comp[c].stream = Compress("none", plain[c])
    BY <1>2, <1>3, <2>1 DEF Stream, Compress
  <2>. QED
    BY <1>2, <1>3, <1>5, <2>1, <2>2 DEF LoadedBlob
<1>. QED
  BY <1>4, <1>5

\* An unedited component leaves repack byte for byte as it came in, whatever was
\* done to the others and whatever earlier commands left in the directory.
THEOREM Verbatim == Spec => []UntouchedVerbatim
<1>1. IInv => UntouchedVerbatim
  <2> SUFFICES ASSUME IInv, Repacked, Session, NEW c \in Comp, AsUnpacked(c)
               PROVE  out.comp[c] = image.comp[c]
    BY DEF UntouchedVerbatim
  <2>1. out.comp[c] = LoadedBlob(manifest, c)
    BY DEF IInv, RepackInv, Loaded
  <2>. QED
    BY <2>1, AsUnpackedLoaded
<1>. QED
  BY <1>1, Invariance, PTL

\* unpack followed by repack gives the image back, wrapper included.
THEOREM UnpackRepackIsIdentity == Spec => []RoundTrip
<1>1. IInv => RoundTrip
  <2> SUFFICES ASSUME IInv, Repacked, Session, WrapperAsUnpacked,
                      \A c \in Comp : image.comp[c] # Null => AsUnpacked(c)
               PROVE  out = image
    BY DEF RoundTrip
  <2>1. image \in Images /\ image \in Image /\ out \in Image
    BY ImageFacts DEF IInv, Control, Session, TypeOK, Repacked
  <2>2. /\ \A c \in Comp : out.comp[c] = LoadedBlob(manifest, c)
        /\ out.dhtb = LoadedWrap(manifest)
    BY DEF IInv, RepackInv, Loaded, WrapLoaded
  <2>3. ASSUME NEW c \in Comp
        PROVE  out.comp[c] = image.comp[c]
    <3>1. CASE image.comp[c] # Null
      BY <2>2, <3>1, AsUnpackedLoaded
    <3>2. CASE image.comp[c] = Null
      BY <2>2, <3>2 DEF IInv, SessionInv, LoadedBlob
    <3>. QED
      BY <3>1, <3>2
  <2>4. out.dhtb = image.dhtb
    <3>1. CASE image.dhtb = Null
      BY <2>2, <3>1 DEF WrapperAsUnpacked, LoadedWrap
    <3>2. CASE image.dhtb # Null
      <4>1. /\ image.dhtb.flags \in Flags
            /\ image.dhtb = [flags |-> image.dhtb.flags, extra |-> image.dhtb.extra]
        BY <2>1, <3>2, ImageFacts
      <4>2. manifest.dhtb = image.dhtb.flags /\ manifest.dhtb # Null
        BY <3>2, <4>1, NullFacts DEF WrapperAsUnpacked
      <4>3. (IF manifest.entry[Extra].file THEN plain[Extra] ELSE Null)
              = image.dhtb.extra
        BY <3>2 DEF WrapperAsUnpacked
      <4>. QED
        BY <2>2, <4>1, <4>2, <4>3 DEF LoadedWrap
    <3>. QED
      BY <3>1, <3>2
  <2>5. /\ out.comp \in [Comp -> Blob \cup {Null}]
        /\ image.comp \in [Comp -> Blob \cup {Null}]
        /\ out = [comp |-> out.comp, dhtb |-> out.dhtb]
        /\ image = [comp |-> image.comp, dhtb |-> image.dhtb]
    BY <2>1 DEF Image
  <2>6. out.comp = image.comp
    BY <2>3, <2>5
  <2>. QED
    BY <2>4, <2>5, <2>6
<1>. QED
  BY <1>1, Invariance, PTL

\* What the component files hold is what the output holds, in the codec the
\* manifest gives when the file was edited.
THEOREM EditsReach == Spec => []EditsReachOutput
<1>1. IInv => EditsReachOutput
  <2> SUFFICES ASSUME IInv, Repacked, Session,
                      NEW c \in Comp, manifest.entry[c].file
               PROVE  LET stream == out.comp[c].stream
                      IN  /\ Decompress(stream) = plain[c]
                          /\ c \in Coded /\ Sha256(plain[c]) # manifest.entry[c].orig_hash =>
                               stream = Compress(
                                 CodecFromName(manifest.entry[c].compression), plain[c])
    BY DEF EditsReachOutput
  <2>1. out.comp[c] = LoadedBlob(manifest, c)
    BY DEF IInv, RepackInv, Loaded
  <2>2. CASE c \notin Coded
    BY <2>1, <2>2 DEF LoadedBlob, AddMtkHeader, Compress, Decompress
  <2>3. CASE c \in Coded
    <3>1. out.comp[c].stream = Recompressed(manifest, c)
      BY <2>1, <2>3 DEF LoadedBlob, AddMtkHeader
    <3>2. image.comp[c] # Null
      BY DEF IInv, SessionInv
    <3>3. CASE manifest.entry[c].orig_hash = Sha256(plain[c]) /\ raw[c] # Null
      <4>1. /\ manifest.entry[c].orig_hash = Sha256(image.comp[c].stream.data)
            /\ raw[c] = image.comp[c].stream
        BY <2>3, <3>2, <3>3 DEF IInv, SessionInv, Decompress
      <4>2. plain[c] = image.comp[c].stream.data
        BY <3>3, <4>1 DEF Sha256
      <4>. QED
        BY <3>1, <3>3, <4>1, <4>2 DEF Recompressed, Decompress
    <3>4. CASE ~(manifest.entry[c].orig_hash = Sha256(plain[c]) /\ raw[c] # Null)
      BY <3>1, <3>4 DEF Recompressed, Decompress, Compress
    <3>. QED
      BY <3>3, <3>4
  <2>. QED
    BY <2>2, <2>3
<1>. QED
  BY <1>1, Invariance, PTL

\* In any directory, cut writes and all, repack emits the components, MTK names
\* and wrapper the manifest states, the wrapper with its flags and the trailing
\* bytes of the file it names.
THEOREM FollowsManifest == Spec => []OutputFollowsManifest
<1>1. IInv => OutputFollowsManifest
  <2> SUFFICES ASSUME IInv, Repacked
               PROVE  OutputFollowsManifest
    BY DEF OutputFollowsManifest
  <2>1. /\ manifest \in Manifest /\ plain \in [File -> Data \cup {Null}]
        /\ raw \in [Coded -> Stream \cup {Null}] /\ manifest.type
    BY DEF IInv, TypeOK, Control
  <2>2. ASSUME NEW c \in Comp
        PROVE  /\ (out.comp[c] # Null) = manifest.entry[c].file
               /\ c \in Coded /\ out.comp[c] # Null =>
                    out.comp[c].mtk = manifest.entry[c].mtk_name
               /\ manifest.entry[c].file => ~manifest.entry[c].part
    <3>1. /\ out.comp[c] = LoadedBlob(manifest, c)
          /\ manifest.entry[c].file => plain[c] # Null /\ ~manifest.entry[c].part
      BY DEF IInv, RepackInv, Loaded
    <3>2. (LoadedBlob(manifest, c) = Null) = ~manifest.entry[c].file
      BY <2>1, <3>1, LoadedType
    <3>3. manifest.entry[c].file \in BOOLEAN
      BY <2>1, IndexFacts DEF Manifest, Entry
    <3>. QED
      BY <3>1, <3>2, <3>3 DEF LoadedBlob, AddMtkHeader
  <2>3. /\ out.dhtb = LoadedWrap(manifest)
        /\ manifest.dhtb # Null /\ manifest.entry[Extra].file =>
             plain[Extra] # Null /\ ~manifest.entry[Extra].part
    BY DEF IInv, RepackInv, WrapLoaded
  <2>4. (out.dhtb = Null) = (manifest.dhtb = Null)
    BY <2>1, <2>3, LoadedWrapType
  <2>5. ASSUME out.dhtb # Null
        PROVE  /\ out.dhtb.flags = manifest.dhtb
               /\ IF manifest.entry[Extra].file
                    THEN /\ out.dhtb.extra = plain[Extra]
                         /\ out.dhtb.extra # Null /\ ~manifest.entry[Extra].part
                    ELSE out.dhtb.extra = Null
    BY <2>3, <2>4, <2>5 DEF LoadedWrap
  <2>. QED
    BY <2>1, <2>2, <2>4, <2>5 DEF OutputFollowsManifest
<1>. QED
  BY <1>1, Invariance, PTL

-----------------------------------------------------------------------------
(* Success                                                                  *)

\* An unpack that is running or has succeeded has made every write whole, if none
\* fails unnoticed; and if every write was whole, success means everything is there.
SuccessInv ==
  /\ "silent" \notin Faults => (Unpacking \/ exit = "ok" => whole)
  /\ whole => SuccessMeansUnpacked

\* A write of an unpack: success only comes with the last one.
LEMMA WriteSucceeds ==
  ASSUME NEW o \in Outcome, NEW next, NEW k, NEW m, Continue(o, next, k, m),
         whole' = (whole /\ o = "whole"), Unpacking, exit = "none", SuccessInv
  PROVE  /\ "silent" \notin Faults => (Unpacking' \/ exit' = "ok" => whole')
         /\ exit' = "ok" => next = "idle"
<1>1. CASE o = "abort"
  BY <1>1 DEF Continue, End, Unpacking
<1>2. CASE o # "abort"
  <2>1. "silent" \notin Faults => o = "whole"
    BY <1>2 DEF Outcome
  <2>2. "silent" \notin Faults => whole
    BY DEF SuccessInv
  <2>3. exit' = "ok" => next = "idle"
    BY <1>2 DEF Continue
  <2>. QED
    BY <2>1, <2>2, <2>3
<1>. QED
  BY <1>1, <1>2

\* What is recorded of a component is as unpack wrote it.
LEMMA RecordedUnpacked ==
  ASSUME image \in Images, NEW c \in Comp, image.comp[c] # Null, Recorded(mem, c),
         manifest' = mem, UNCHANGED <<image, plain, raw>>
  PROVE  AsUnpacked(c)'
<1>1. /\ mem.entry[c] = EntryOf(c, image.comp[c])
      /\ plain[c] = Decompress(image.comp[c].stream)
      /\ c \in Coded => raw[c] = image.comp[c].stream
  BY DEF Recorded
<1>2. image.comp[c].stream # Null
  BY ImageFacts, NullFacts DEF Blob
<1>3. EntryOf(c, image.comp[c]).file
  BY DEF EntryOf
<1>. QED
  BY <1>1, <1>2, <1>3 DEF AsUnpacked

LEMMA SuccessStep ==
  ASSUME TypeOK, Control, UnpackInv, SuccessInv, [Next]_vars
  PROVE  SuccessInv'
<1>1. ASSUME exit' # "ok", ~Unpacking'
      PROVE  SuccessInv'
  BY <1>1 DEF SuccessInv, SuccessMeansUnpacked
<1>2. ASSUME exit' # "ok", whole'
      PROVE  SuccessInv'
  BY <1>2 DEF SuccessInv, SuccessMeansUnpacked
<1>3. pc # "idle" => exit = "none"
  BY DEF Control
<1>4. CASE \E img \in Images : BeginUnpack(img)
  BY <1>2, <1>4 DEF BeginUnpack
<1>5. CASE RejectInput \/ CannotDecode \/ Kill
  BY <1>1, <1>5 DEF RejectInput, CannotDecode, Kill, End, Unpacking
<1>6. CASE Skip
  <2>1. exit' = "none" /\ whole' = whole /\ Unpacking
    BY <1>3, <1>6 DEF Skip, Unpacking
  <2>. QED
    BY <2>1 DEF SuccessInv, SuccessMeansUnpacked
<1>7. CASE \E o \in Outcome : SavePlain(o) \/ SaveRaw(o) \/ SaveWrapper(o)
  <2>1. PICK o \in Outcome : SavePlain(o) \/ SaveRaw(o) \/ SaveWrapper(o)
    BY <1>7
  <2>2. /\ whole' = (whole /\ o = "whole") /\ Unpacking /\ exit = "none"
        /\ \E next \in PC \ {"idle"} : \E k, m : Continue(o, next, k, m)
    BY <1>3, <2>1 DEF SavePlain, SaveRaw, SaveWrapper, Unpacking, PC
  <2>5. PICK next \in PC \ {"idle"} : \E k, m : Continue(o, next, k, m)
    BY <2>2
  <2>3. PICK k, m : Continue(o, next, k, m)
    BY <2>5
  <2>4. /\ "silent" \notin Faults => (Unpacking' \/ exit' = "ok" => whole')
        /\ exit' # "ok"
    BY <2>2, <2>3, WriteSucceeds
  <2>. QED
    BY <2>4 DEF SuccessInv, SuccessMeansUnpacked
<1>8. ASSUME NEW o \in Outcome, SaveManifest(o)
      PROVE  SuccessInv'
  <2>1. /\ whole' = (whole /\ o = "whole") /\ Unpacking /\ exit = "none" /\ pc = "save"
        /\ at = Extra /\ UNCHANGED <<image, plain, raw>>
    BY <1>3, <1>8 DEF SaveManifest, Unpacking
  <2>2. /\ "silent" \notin Faults => (Unpacking' \/ exit' = "ok" => whole')
        /\ exit' = "ok" => image.dhtb = Null
    <3>1. PICK next : /\ next = (IF image.dhtb = Null THEN "idle" ELSE "wrap")
                      /\ Continue(o, next, at, mem)
      BY <1>8 DEF SaveManifest
    <3>. QED
      BY <2>1, <3>1, WriteSucceeds
  <2>3. ASSUME exit' = "ok", whole'
        PROVE  /\ \A c \in Comp : image'.comp[c] # Null => AsUnpacked(c)'
               /\ WrapperAsUnpacked'
    <3>1. whole /\ o = "whole" /\ image.dhtb = Null /\ image \in Images
      BY <2>1, <2>2, <2>3 DEF Control
    <3>2. manifest' = mem
      BY <1>8, <3>1 DEF SaveManifest, Written
    <3>3. mem.dhtb = Null /\ \A c \in Comp : Recorded(mem, c)
      BY <2>1, <3>1, LoopFacts DEF UnpackInv
    <3>4. ASSUME NEW c \in Comp, image'.comp[c] # Null PROVE AsUnpacked(c)'
      BY <2>1, <3>1, <3>2, <3>3, <3>4, RecordedUnpacked
    <3>5. WrapperAsUnpacked'
      BY <2>1, <3>1, <3>2, <3>3 DEF WrapperAsUnpacked
    <3>. QED
      BY <3>4, <3>5
  <2>. QED
    BY <2>2, <2>3 DEF SuccessInv, SuccessMeansUnpacked
<1>9. ASSUME NEW o \in Outcome, ResaveManifest(o)
      PROVE  SuccessInv'
  <2>1. /\ whole' = (whole /\ o = "whole") /\ Unpacking /\ exit = "none"
        /\ pc = "wrap_manifest" /\ UNCHANGED <<image, plain, raw>>
    BY <1>3, <1>9 DEF ResaveManifest, Unpacking
  <2>2. "silent" \notin Faults => (Unpacking' \/ exit' = "ok" => whole')
    BY <1>9, <2>1, WriteSucceeds DEF ResaveManifest
  <2>3. ASSUME whole'
        PROVE  /\ \A c \in Comp : image'.comp[c] # Null => AsUnpacked(c)'
               /\ WrapperAsUnpacked'
    <3>1. whole /\ o = "whole" /\ image.dhtb # Null /\ image \in Images
      BY <2>1, <2>3 DEF Control
    <3>2. manifest' = mem
      BY <1>9, <3>1 DEF ResaveManifest, Written
    <3>3. /\ \A c \in Comp : Recorded(mem, c)
          /\ mem.dhtb = image.dhtb.flags
          /\ mem.entry[Extra].file = (image.dhtb.extra # Null)
          /\ image.dhtb.extra # Null => plain[Extra] = image.dhtb.extra
      BY <2>1, <3>1 DEF UnpackInv
    <3>4. ASSUME NEW c \in Comp, image'.comp[c] # Null PROVE AsUnpacked(c)'
      BY <2>1, <3>1, <3>2, <3>3, <3>4, RecordedUnpacked
    <3>5. WrapperAsUnpacked'
      BY <2>1, <3>1, <3>2, <3>3 DEF WrapperAsUnpacked
    <3>. QED
      BY <3>4, <3>5
  <2>. QED
    BY <2>2, <2>3 DEF SuccessInv, SuccessMeansUnpacked
<1>10. CASE Repack
  <2>1. exit' # "ok" /\ ~Unpacking'
    BY <1>3, <1>10 DEF Repack, BeginRepack, LoadComponent, LoadWrapper, MissingFile,
                      WriteOut, End, Unpacking
  <2>. QED
    BY <1>1, <2>1
<1>11. CASE User
  <2>1. exit' # "ok" /\ ~Unpacking'
    BY <1>11, UserFacts DEF Unpacking
  <2>. QED
    BY <1>1, <2>1
<1>12. CASE UNCHANGED vars
  BY <1>12 DEF vars, disk, SuccessInv, Unpacking, SuccessMeansUnpacked, AsUnpacked,
               WrapperAsUnpacked
<1>. QED
  BY <1>4, <1>5, <1>6, <1>7, <1>8, <1>9, <1>10, <1>11, <1>12 DEF Next, Unpack

LEMMA SuccessInvariance == Spec => []SuccessInv
<1>1. Init => SuccessInv
  BY DEF Init, SuccessInv, Unpacking, SuccessMeansUnpacked
<1>2. IInv /\ SuccessInv /\ [Next]_vars => SuccessInv'
  BY SuccessStep DEF IInv
<1>. QED
  BY <1>1, <1>2, Invariance, PTL DEF Spec

\* Whatever can go wrong: an unpack that reports success, and none of whose writes
\* was cut, has left the whole image in the directory.
THEOREM SuccessOfWholeUnpack == Spec => [](whole => SuccessMeansUnpacked)
<1>1. SuccessInv => (whole => SuccessMeansUnpacked)
  BY DEF SuccessInv
<1>. QED
  BY <1>1, SuccessInvariance, PTL

\* If no write fails unnoticed, an unpack that reports success has left the whole
\* image in the directory: write_file and the exceptions of do_unpack see to it.
THEOREM SuccessIsComplete == "silent" \notin Faults => (Spec => []SuccessMeansUnpacked)
<1> SUFFICES ASSUME "silent" \notin Faults
             PROVE  Spec => []SuccessMeansUnpacked
  OBVIOUS
<1>1. SuccessInv => SuccessMeansUnpacked
  BY DEF SuccessInv, SuccessMeansUnpacked
<1>. QED
  BY <1>1, SuccessInvariance, PTL
=============================================================================
