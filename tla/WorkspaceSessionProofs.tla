------------------------ MODULE WorkspaceSessionProofs ------------------------
(***************************************************************************)
(* Workspace implements EditSession: the initial states map to initial     *)
(* states, and every step of a command or of the user maps to a step of    *)
(* the session or to a stutter.                                            *)
(***************************************************************************)
EXTENDS WorkspaceProofs

\* Everything of the state that the mapped variables are read from.
read == <<image, plain, raw, manifest>>

\* What is wanted of a component is of the abstract specification's type.
LEMMA WantedType ==
  ASSUME TypeOK, NEW c \in Comp
  PROVE  /\ WantedOf(c) \in Abstract!Wanted \cup {Null}
         /\ (WantedOf(c) = Null) = ~manifest.entry[c].file
<1>1. /\ manifest.entry[c] \in Entry /\ plain[c] \in Data \cup {Null}
  BY IndexFacts DEF TypeOK, Manifest
<1>2. /\ manifest.entry[c].mtk_name \in MtkName \cup {Null}
      /\ manifest.entry[c].file \in BOOLEAN
  BY <1>1 DEF Entry
<1>3. CodecFromName(manifest.entry[c].compression) \in Codec
  BY ComponentAssumption DEF CodecFromName
<1>4. [mtk   |-> manifest.entry[c].mtk_name,
       codec |-> CodecFromName(manifest.entry[c].compression),
       data  |-> plain[c]] \in Abstract!Wanted
  BY <1>1, <1>2, <1>3 DEF Abstract!Wanted, Abstract!Data, Data
<1>. QED
  BY <1>2, <1>4, SessionAssumption DEF WantedOf

\* The same, in any state of the type.
LEMMA WantedTypes ==
  TypeOK => [c \in Comp |-> WantedOf(c)] \in [Comp -> Abstract!Wanted \cup {Null}]
BY WantedType

\* load_component makes exactly what the session assembles from the wanted.
LEMMA LoadedIsAssembled ==
  ASSUME IInv, Session, NEW c \in Comp, manifest.entry[c].file => plain[c] # Null
  PROVE  LoadedBlob(manifest, c) = Abstract!Assembled(c)
<1> DEFINE e == manifest.entry[c]
           w == [mtk |-> e.mtk_name, codec |-> CodecFromName(e.compression),
                 data |-> plain[c]]
<1>1. Abstract!Assembled(c) =
        IF WantedOf(c) = Null THEN Null
        ELSE IF c \in KeptStreams /\ WantedOf(c).data = OpenImage.comp[c].stream.data
          THEN AddMtkHeader(OpenImage.comp[c].stream, WantedOf(c).mtk)
          ELSE AddMtkHeader(Compress(WantedOf(c).codec, WantedOf(c).data),
                            WantedOf(c).mtk)
  BY DEF Abstract!Assembled, Abstract!AddMtkHeader, AddMtkHeader,
         Abstract!Compress, Compress
<1>2. OpenImage = image /\ TypeOK
  BY DEF OpenImage, IInv
<1>3. CASE ~e.file
  BY <1>1, <1>2, <1>3, WantedType DEF LoadedBlob
<1>4. CASE e.file
  <2>1. /\ WantedOf(c) # Null /\ WantedOf(c) = w
        /\ image.comp[c] # Null
    BY <1>2, <1>4, WantedType DEF WantedOf, IInv, SessionInv
  <2>2. CASE c \in Coded
    <3>1. /\ e.orig_hash = Sha256(image.comp[c].stream.data)
          /\ raw[c] \in {Null, image.comp[c].stream}
      BY <2>1, <2>2 DEF IInv, SessionInv, Decompress
    <3>2. (e.orig_hash = Sha256(plain[c])) = (plain[c] = image.comp[c].stream.data)
      BY <3>1 DEF Sha256
    <3>3. c \in KeptStreams <=> raw[c] # Null
      BY <2>1, <2>2 DEF KeptStreams
    <3>. QED
      BY <1>1, <1>2, <1>4, <2>1, <2>2, <3>1, <3>2, <3>3 DEF LoadedBlob, Recompressed
  <2>3. CASE c \notin Coded
    <3>1. e.mtk_name = Null /\ CodecFromName(e.compression) = "none"
      BY <2>3, NullFacts DEF IInv, SessionInv, CodecFromName
    <3>2. c \notin KeptStreams
      BY <2>3 DEF KeptStreams
    <3>. QED
      BY <1>1, <1>4, <2>1, <2>3, <3>1, <3>2 DEF LoadedBlob
  <2>. QED
    BY <2>2, <2>3
<1>. QED
  BY <1>3, <1>4

\* While no image is open, anything may happen.
LEMMA NothingOpen ==
  ASSUME ~Session, ~Session'
  PROVE  Abstract!Next
BY DEF OpenImage, Abstract!Next, Abstract!Unopened

\* The last write of an unpack opens the image.
LEMMA Opening ==
  ASSUME TypeOK, TypeOK', ~Session, Session', image \in Images, out' = Null,
         NEW m, \A c \in Comp : Recorded(m, c), m = manifest',
         LoadedWrap(manifest)' = image.dhtb, UNCHANGED <<image, plain, raw>>
  PROVE  Abstract!Open(image)
<1>1. OpenImage = Null /\ OpenImage' = image
  BY DEF OpenImage
<1>2. ASSUME NEW c \in Comp
      PROVE  WantedOf(c)' = IF image.comp[c] = Null THEN Null
                            ELSE Abstract!AsIs(image.comp[c])
  <2>1. CASE image.comp[c] = Null
    BY <2>1 DEF Recorded, WantedOf, NoEntry
  <2>2. CASE image.comp[c] # Null
    <3>1. /\ image.comp[c].stream \in Stream
          /\ image.comp[c].stream.codec \in Codec
          /\ c \notin Coded => image.comp[c].stream.codec = "none"
      BY <2>2, ImageFacts, WorkspaceAssumption DEF Blob, Stream, WellFormed
    <3>2. /\ manifest'.entry[c] = EntryOf(c, image.comp[c])
          /\ plain'[c] = image.comp[c].stream.data
      BY <2>2 DEF Recorded, Decompress
    <3>3. CodecFromName(manifest'.entry[c].compression) = image.comp[c].stream.codec
      BY <3>1, <3>2, NullFacts DEF EntryOf, CodecFromName
    <3>. QED
      BY <2>2, <3>2, <3>3 DEF WantedOf, Abstract!AsIs, EntryOf
  <2>. QED
    BY <2>1, <2>2
<1>3. [c \in Comp |-> WantedOf(c)]' =
        [c \in Comp |-> IF image.comp[c] = Null THEN Null
                        ELSE Abstract!AsIs(image.comp[c])]
  BY <1>2
<1>4. KeptStreams' = {c \in Coded : image.comp[c] # Null}
  <2>1. \A c \in Coded : image.comp[c] # Null => raw[c] # Null
    <3> SUFFICES ASSUME NEW c \in Coded, image.comp[c] # Null
                 PROVE  raw[c] # Null
      OBVIOUS
    <3>1. image.comp[c].stream \in Stream /\ raw[c] = image.comp[c].stream
      BY ImageFacts, IndexFacts DEF Blob, Recorded
    <3>. QED
      BY <3>1, NullFacts
  <2>. QED
    BY <2>1 DEF KeptStreams
<1>. QED
  BY <1>1, <1>3, <1>4 DEF Abstract!Open

\* The user's acts on an open image are edits of what is wanted.
LEMMA Editing ==
  ASSUME TypeOK, TypeOK', image \in Images, Session, User
  PROVE  Abstract!Edit
<1>1. /\ image' = image /\ out' = Null /\ Session'
  BY UserFacts DEF Session, Unpacking
<1>2. /\ manifest \in Manifest /\ manifest.entry \in [File -> Entry]
      /\ raw \in [Coded -> Stream \cup {Null}]
  BY DEF TypeOK, Manifest
<1>3. /\ \A c \in Comp : manifest'.entry[c].file => manifest.entry[c].file
      /\ \A c \in Coded : raw'[c] # Null => raw[c] # Null
  <2>1. ASSUME NEW f \in File, NEW p \in Content, EditContent(f, p)
        PROVE  <1>3
    BY <2>1 DEF EditContent
  <2>2. ASSUME NEW c \in Coded, NEW text \in CodecText, EditCompression(c, text)
        PROVE  <1>3
    BY <1>2, <2>2, IndexFacts DEF EditCompression, Manifest, Entry
  <2>3. ASSUME NEW c \in Coded, NEW name \in MtkName \cup {Null}, EditMtkName(c, name)
        PROVE  <1>3
    BY <1>2, <2>3, IndexFacts DEF EditMtkName, Manifest, Entry
  <2>4. ASSUME NEW f \in File, DropComponent(f)
        PROVE  <1>3
    BY <1>2, <2>4, IndexFacts DEF DropComponent, Manifest, Entry
  <2>5. ASSUME NEW f \in File, DeleteFile(f)
        PROVE  <1>3
    BY <2>5 DEF DeleteFile
  <2>6. ASSUME RemoveRaw
        PROVE  <1>3
    BY <2>6 DEF RemoveRaw
  <2>. QED
    BY <2>1, <2>2, <2>3, <2>4, <2>5, <2>6 DEF User
<1>4. \A c \in Comp : WantedOf(c) = Null => WantedOf(c)' = Null
  <2> SUFFICES ASSUME NEW c \in Comp, WantedOf(c) = Null
               PROVE  WantedOf(c)' = Null
    OBVIOUS
  <2>1. ~manifest'.entry[c].file
    BY <1>3, WantedType
  <2>. QED
    BY <2>1 DEF WantedOf
<1>5. ([c \in Comp |-> WantedOf(c)] \in [Comp -> Abstract!Wanted \cup {Null}])'
  BY TypeOK', WantedTypes, PTL
<1>6. KeptStreams' \subseteq KeptStreams
  BY <1>1, <1>3 DEF KeptStreams
<1>7. OpenImage # Null /\ OpenImage' = OpenImage
  BY <1>1, ImageFacts DEF OpenImage
<1>. QED
  BY <1>1, <1>4, <1>5, <1>6, <1>7 DEF Abstract!Edit

\* A step that leaves the directory alone is a repack of the session, or none.
LEMMA Repacking ==
  ASSUME IInv, Session, Session', UNCHANGED read,
         out' \in {Null, [comp |-> [c \in Comp |-> Abstract!Assembled(c)],
                          dhtb |-> LoadedWrap(manifest)]}
  PROVE  Abstract!Repack
<1>1. /\ UNCHANGED <<image, plain, raw, manifest>>
      /\ OpenImage = image /\ OpenImage' = image /\ image # Null
  BY ImageFacts DEF read, OpenImage, IInv, Control, Session
<1>2. \A c \in Comp : WantedOf(c)' = WantedOf(c)
  BY <1>1 DEF WantedOf
<1>3. [c \in Comp |-> WantedOf(c)]' = [c \in Comp |-> WantedOf(c)]
  BY <1>2
<1>4. LoadedWrap(manifest)' = LoadedWrap(manifest)
  BY <1>1 DEF LoadedWrap
<1>5. KeptStreams' = KeptStreams
  BY <1>1 DEF KeptStreams
<1>. QED
  BY <1>1, <1>3, <1>4, <1>5 DEF Abstract!Repack

\* Every step of Workspace is a step of EditSession, or a stutter.
LEMMA StepSimulation ==
  ASSUME IInv, IInv', [Next]_vars
  PROVE  [Abstract!Next]_Abstract!vars
<1>0. TypeOK /\ TypeOK'
  BY DEF IInv
<1>1. ASSUME NEW img \in Images, BeginUnpack(img)
      PROVE  Abstract!Next
  <2>1. ~Session' /\ out' = Null
    BY <1>1 DEF BeginUnpack, Session, Unpacking
  <2>2. CASE Session
    <3>1. OpenImage # Null /\ OpenImage' = Null
      BY <2>1, <2>2, ImageFacts DEF OpenImage, IInv, Control, Session
    <3>. QED
      BY <2>1, <3>1 DEF Abstract!Next, Abstract!Close
  <2>. QED
    BY <2>1, <2>2, NothingOpen
<1>2. ASSUME \/ Skip \/ CannotDecode
             \/ \E o \in Outcome : SavePlain(o) \/ SaveRaw(o) \/ SaveWrapper(o)
      PROVE  Abstract!Next
  <2>1. ~Session
    BY <1>2 DEF Skip, CannotDecode, SavePlain, SaveRaw, SaveWrapper, Session, Unpacking
  <2>2. ~Session'
    <3>1. CASE Skip \/ CannotDecode
      BY <3>1 DEF Skip, CannotDecode, Session, Unpacking
    <3>2. ASSUME NEW o \in Outcome, SavePlain(o) \/ SaveRaw(o) \/ SaveWrapper(o)
          PROVE  ~Session'
      <4>1. whole' => o = "whole"
        BY <3>2 DEF SavePlain, SaveRaw, SaveWrapper
      <4>2. o = "whole" => pc' \in {"raw", "save", "wrap_manifest"}
        BY <3>2 DEF SavePlain, SaveRaw, SaveWrapper, Continue
      <4>. QED
        BY <4>1, <4>2 DEF Session, Unpacking
    <3>. QED
      BY <1>2, <3>1, <3>2
  <2>. QED
    BY <2>1, <2>2, NothingOpen
<1>3. ASSUME NEW o \in Outcome, SaveManifest(o)
      PROVE  Abstract!Next
  <2>1. ~Session
    BY <1>3 DEF SaveManifest, Session, Unpacking
  <2>2. CASE Session'
    <3>1. /\ pc = "save" /\ at = Extra /\ whole /\ o = "whole" /\ manifest' = mem
          /\ image \in Images /\ UNCHANGED <<image, plain, raw>> /\ out' = Null
          /\ Continue(o, IF image.dhtb = Null THEN "idle" ELSE "wrap", at, mem)
      BY <1>3, <2>2 DEF SaveManifest, Session, Written, IInv, Control
    <3>2. image.dhtb = Null
      BY <2>2, <3>1, WholeWrite DEF Session, Unpacking
    <3>3. \A c \in Comp : Recorded(mem, c)
      BY <3>1, LoopFacts DEF IInv, UnpackInv
    <3>4. mem.dhtb = Null
      BY <3>1 DEF IInv, UnpackInv
    <3>5. LoadedWrap(manifest)' = image.dhtb
      BY <3>1, <3>2, <3>4 DEF LoadedWrap
    <3>6. Abstract!Open(image)
      <4>1. ASSUME NEW m, m = mem
            PROVE  /\ m = manifest'
                   /\ \A c \in Comp : Recorded(m, c)
        BY <4>1, <3>1, <3>3
      <4>. QED
        BY <1>0, <2>1, <2>2, <3>1, <3>5, <4>1, Opening
    <3>. QED
      BY <3>1, <3>6 DEF Abstract!Next
  <2>. QED
    BY <2>1, <2>2, NothingOpen
<1>4. ASSUME NEW o \in Outcome, ResaveManifest(o)
      PROVE  Abstract!Next
  <2>1. ~Session
    BY <1>4 DEF ResaveManifest, Session, Unpacking
  <2>2. CASE Session'
    <3>1. /\ pc = "wrap_manifest" /\ whole /\ manifest' = mem
          /\ image \in Images /\ UNCHANGED <<image, plain, raw>> /\ out' = Null
          /\ image.dhtb # Null
      BY <1>4, <2>2 DEF ResaveManifest, Session, Written, IInv, Control, Unpacking
    <3>2. /\ \A c \in Comp : Recorded(mem, c)
          /\ mem.dhtb = image.dhtb.flags
          /\ mem.entry[Extra].file = (image.dhtb.extra # Null)
          /\ image.dhtb.extra # Null => plain[Extra] = image.dhtb.extra
      BY <3>1 DEF IInv, UnpackInv
    <3>3. /\ image.dhtb.flags # Null
          /\ image.dhtb = [flags |-> image.dhtb.flags, extra |-> image.dhtb.extra]
      BY <3>1, ImageFacts, NullFacts
    <3>4. LoadedWrap(manifest)' = image.dhtb
      BY <3>1, <3>2, <3>3 DEF LoadedWrap
    <3>5. Abstract!Open(image)
      <4>1. ASSUME NEW m, m = mem
            PROVE  /\ m = manifest'
                   /\ \A c \in Comp : Recorded(m, c)
        BY <4>1, <3>1, <3>2
      <4>. QED
        BY <1>0, <2>1, <2>2, <3>1, <3>4, <4>1, Opening
    <3>. QED
      BY <3>1, <3>5 DEF Abstract!Next
  <2>. QED
    BY <2>1, <2>2, NothingOpen
<1>5. ASSUME \/ RejectInput \/ BeginRepack \/ LoadComponent \/ LoadWrapper
             \/ MissingFile \/ Kill
      PROVE  Abstract!Next
  <2>1. /\ UNCHANGED read /\ Session' = Session
        /\ out' = Null
    BY <1>5 DEF RejectInput, BeginRepack, LoadComponent, LoadWrapper, MissingFile,
                Kill, End, disk, read, Session, Unpacking, IInv, Control, TypeOK
  <2>2. CASE Session
    BY <2>1, <2>2, Repacking DEF Abstract!Next
  <2>. QED
    BY <2>1, <2>2, NothingOpen
<1>6. ASSUME NEW o \in Outcome, WriteOut(o)
      PROVE  Abstract!Next
  <2>1. /\ UNCHANGED read /\ Session' = Session
        /\ out' \in {Null, built} /\ pc = "write" /\ built \in Image
    BY <1>6 DEF WriteOut, End, Written, disk, read, Session, Unpacking, IInv, Control
  <2>2. CASE Session
    <3>1. /\ built.dhtb = LoadedWrap(manifest)
          /\ \A c \in Comp : built.comp[c] = Abstract!Assembled(c)
      BY <2>1, <2>2, LoadedIsAssembled DEF IInv, RepackInv, Loaded, WrapLoaded
    <3>2. /\ built = [comp |-> built.comp, dhtb |-> built.dhtb]
          /\ built.comp = [c \in Comp |-> built.comp[c]]
      BY <2>1 DEF Image
    <3>3. built = [comp |-> [c \in Comp |-> Abstract!Assembled(c)],
                   dhtb |-> LoadedWrap(manifest)]
      BY <3>1, <3>2
    <3>. QED
      BY <2>1, <2>2, <3>3, Repacking DEF Abstract!Next
  <2>. QED
    BY <2>1, <2>2, NothingOpen
<1>7. ASSUME User
      PROVE  Abstract!Next
  <2>1. Session' = Session
    BY <1>0, <1>7, UserFacts DEF Session, Unpacking
  <2>2. CASE Session
    BY <1>0, <1>7, <2>2, Editing DEF Abstract!Next, IInv, Control, Session
  <2>. QED
    BY <2>1, <2>2, NothingOpen
<1>8. ASSUME UNCHANGED vars
      PROVE  UNCHANGED Abstract!vars
  <2>1. UNCHANGED <<image, plain, raw, manifest, whole, pc, out>>
    BY <1>8 DEF vars, disk
  <2>2. /\ \A c \in Comp : WantedOf(c)' = WantedOf(c)
        /\ OpenImage' = OpenImage /\ KeptStreams' = KeptStreams
        /\ LoadedWrap(manifest)' = LoadedWrap(manifest)
    BY <2>1 DEF WantedOf, OpenImage, KeptStreams, LoadedWrap, Session, Unpacking
  <2>3. [c \in Comp |-> WantedOf(c)]' = [c \in Comp |-> WantedOf(c)]
    BY <2>2
  <2>. QED
    BY <2>1, <2>2, <2>3 DEF Abstract!vars
<1>. QED
  BY <1>1, <1>2, <1>3, <1>4, <1>5, <1>6, <1>7, <1>8 DEF Next, Unpack, Repack

\* unpack and repack, with all their writes, failures and kills, do nothing that
\* an editing session does not allow: Workspace implements EditSession.
THEOREM Refinement == Spec => ImplementsSession
<1>1. Init => Abstract!Init
  <2> SUFFICES ASSUME Init PROVE Abstract!Init
    OBVIOUS
  <2>1. /\ TypeOK /\ OpenImage = Null /\ KeptStreams = {} /\ out = Null
        /\ manifest.dhtb = Null
    BY TypeInit DEF Init, OpenImage, KeptStreams, Session, NoManifest
  <2>2. [c \in Comp |-> WantedOf(c)] \in [Comp -> Abstract!Wanted \cup {Null}]
    BY <2>1, WantedType
  <2>. QED
    BY <2>1, <2>2 DEF Abstract!Init, LoadedWrap
<1>2. IInv /\ IInv' /\ [Next]_vars => [Abstract!Next]_Abstract!vars
  BY StepSimulation
<1>3. Spec => []IInv
  BY Invariance
<1>. QED
  BY <1>1, <1>2, <1>3, PTL DEF Spec, ImplementsSession, Abstract!Spec
=============================================================================
