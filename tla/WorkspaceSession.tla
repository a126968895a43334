-------------------------- MODULE WorkspaceSession --------------------------
(***************************************************************************)
(* Workspace implements EditSession: the open image is the last unpacked   *)
(* one, once its unpack has ended; what is wanted is read off the manifest *)
(* and the component files; an original is kept while its .abr_raw file    *)
(* is there.                                                               *)
(***************************************************************************)
EXTENDS Workspace

OpenImage == IF Session THEN image ELSE Null

WantedOf(c) ==
  LET e == manifest.entry[c]
  IN  IF ~e.file THEN Null
      ELSE [mtk   |-> e.mtk_name,
            codec |-> CodecFromName(e.compression),
            data  |-> plain[c]]

KeptStreams ==
  IF Session THEN {c \in Coded : image.comp[c] # Null /\ raw[c] # Null} ELSE {}

Abstract == INSTANCE EditSession WITH
  base   <- OpenImage,
  want   <- [c \in Comp |-> WantedOf(c)],
  wrap   <- LoadedWrap(manifest),
  kept   <- KeptStreams,
  result <- out

\* Nothing wanted is told apart from anything wanted.
ASSUME SessionAssumption == Null \notin Abstract!Wanted

\* unpack and repack, with all their writes and whatever interrupts them, keep
\* the promise of EditSession for every image that was unpacked completely.
ImplementsSession == Abstract!Spec
=============================================================================
