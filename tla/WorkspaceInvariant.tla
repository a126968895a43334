------------------------- MODULE WorkspaceInvariant -------------------------
(***************************************************************************)
(* The inductive invariant behind the properties of Workspace: what has    *)
(* reached the disk and the Manifest object by each step of an unpack, and *)
(* what is still true of them while the user edits and repack reads.       *)
(***************************************************************************)
EXTENDS WorkspaceSession

\* What the part a command is in says about its inputs.
Control ==
  /\ Unpacking \/ whole => image \in Images
  /\ pc = "raw" => at \in Coded /\ image.comp[at] # Null
  /\ pc \in {"wrap", "wrap_manifest"} => image.dhtb # Null
  /\ pc \in {"load", "write"} =>
       built \in Image /\ mem = manifest /\ manifest.type
  /\ pc = "idle" => at = 1
  /\ pc # "idle" => exit = "none" /\ out = Null
  /\ Repacked => manifest.type

\* Component c of the image is in manifest m, in its file and in .abr_raw.
Recorded(m, c) ==
  IF image.comp[c] = Null THEN m.entry[c] = NoEntry
  ELSE /\ m.entry[c] = EntryOf(c, image.comp[c])
       /\ plain[c] = Decompress(image.comp[c].stream)
       /\ c \in Coded => raw[c] = image.comp[c].stream

\* An unpack none of whose writes was cut has recorded the components it has
\* passed, and nothing else.
UnpackInv ==
  whole =>
    /\ pc \in {"save", "raw"} =>
         /\ mem.type /\ mem.dhtb = Null
         /\ \A c \in Comp : c < at => Recorded(mem, c)
         /\ \A f \in File : f > at => mem.entry[f] = NoEntry
    /\ pc = "save" => mem.entry[at] = NoEntry
    /\ pc = "raw" =>
         /\ mem.entry[at] = EntryOf(at, image.comp[at])
         /\ plain[at] = Decompress(image.comp[at].stream)
    /\ pc = "wrap" =>
         /\ manifest.type
         /\ \A c \in Comp : Recorded(manifest, c)
         /\ manifest.entry[Extra] = NoEntry
    /\ pc = "wrap_manifest" =>
         /\ mem.type
         /\ \A c \in Comp : Recorded(mem, c)
         /\ mem.dhtb = image.dhtb.flags
         /\ mem.entry[Extra].file = (image.dhtb.extra # Null)
         /\ ~mem.entry[Extra].part
         /\ image.dhtb.extra # Null => plain[Extra] = image.dhtb.extra

\* What the user's edits leave alone: the names of the files, the recorded
\* hashes, the original streams that are still there, and which components the
\* image had.
SessionInv ==
  Session =>
    /\ \A f \in File : ~manifest.entry[f].part
    /\ \A c \in Comp :
         /\ image.comp[c] = Null => ~manifest.entry[c].file
         /\ c \notin Coded => /\ manifest.entry[c].mtk_name = Null
                              /\ manifest.entry[c].compression = Null
         /\ image.comp[c] # Null /\ c \in Coded =>
              /\ manifest.entry[c].orig_hash =
                   Sha256(Decompress(image.comp[c].stream))
              /\ raw[c] \in {Null, image.comp[c].stream}

\* Component c of img is what load_component makes of the directory.
Loaded(img, c) ==
  /\ img.comp[c] = LoadedBlob(manifest, c)
  /\ manifest.entry[c].file => plain[c] # Null /\ ~manifest.entry[c].part

\* The wrapper of img is what do_repack makes of the directory.
WrapLoaded(img) ==
  /\ img.dhtb = LoadedWrap(manifest)
  /\ manifest.dhtb # Null /\ manifest.entry[Extra].file =>
       plain[Extra] # Null /\ ~manifest.entry[Extra].part

RepackInv ==
  /\ pc = "load" => \A c \in Comp : c < at => Loaded(built, c)
  /\ pc = "write" => /\ \A c \in Comp : Loaded(built, c)
                     /\ WrapLoaded(built)
  /\ Repacked => /\ \A c \in Comp : Loaded(out, c)
                 /\ WrapLoaded(out)

\* What manifest m names is there, the stream of component `but` aside.
NamesExisting(m, but) ==
  \A f \in File :
    /\ "delete" \notin UserActs =>
         (m.entry[f].file /\ ~m.entry[f].part => plain[f] # Null)
    /\ "rm_raw" \notin UserActs /\ f \in Coded /\ f # but =>
         (m.entry[f].orig_hash # Null => raw[f] # Null)

FilesInv ==
  /\ NamesExisting(manifest, 0)
  /\ pc \in {"save", "wrap_manifest"} => NamesExisting(mem, 0)
  /\ pc = "raw" => NamesExisting(mem, at)

\* The inductive invariant.
IInv == TypeOK /\ Control /\ UnpackInv /\ SessionInv /\ RepackInv /\ FilesInv
=============================================================================
