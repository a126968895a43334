----------------------------- MODULE EditSession -----------------------------
(***************************************************************************)
(* What unpack and repack promise together, with no file and no manifest:  *)
(* an image is opened for editing, the user changes what is wanted of each *)
(* component, and an output image is assembled.  A component nobody wants  *)
(* changed is the original one, byte for byte, as long as the original is  *)
(* kept; any other is encoded anew.                                        *)
(*                                                                         *)
(* While no image is open (base = Null: nothing unpacked yet, an unpack    *)
(* still running, or one that failed) nothing is promised.                 *)
(***************************************************************************)
EXTENDS Component

CONSTANTS Comp, Coded, Images, Dhtb

VARIABLES
  base,   \* the image that is open for editing
  want,   \* per component: its content, codec and MTK name as wanted now
  wrap,   \* the DHTB wrapper as wanted now
  kept,   \* the components whose original stream is still there
  result  \* the image assembled from this, Null if there is none

vars == <<base, want, wrap, kept, result>>

Wanted == [mtk : MtkName \cup {Null}, codec : Codec, data : Data \cup {Null}]

\* What is wanted of an image nobody has edited.
AsIs(blob) ==
  [mtk |-> blob.mtk, codec |-> blob.stream.codec, data |-> blob.stream.data]

Assembled(c) ==
  IF want[c] = Null THEN Null
  ELSE IF c \in kept /\ want[c].data = base.comp[c].stream.data
    THEN AddMtkHeader(base.comp[c].stream, want[c].mtk)
    ELSE AddMtkHeader(Compress(want[c].codec, want[c].data), want[c].mtk)

Init ==
  /\ base = Null /\ result = Null
  /\ want \in [Comp -> Wanted \cup {Null}]
  /\ wrap \in Dhtb \cup {Null}
  /\ kept \subseteq Coded

Open(img) ==
  /\ base = Null
  /\ base' = img
  /\ want' = [c \in Comp |-> IF img.comp[c] = Null THEN Null
                                             ELSE AsIs(img.comp[c])]
  /\ wrap' = img.dhtb
  /\ kept' = {c \in Coded : img.comp[c] # Null}
  /\ result' = Null

\* The image is given up for another one.
Close == base # Null /\ base' = Null /\ result' = Null

\* The user changes what is wanted.  A component left out stays out, and an
\* original stream once lost is lost.
Edit ==
  /\ base # Null /\ base' = base
  /\ \A c \in Comp : want[c] = Null => want'[c] = Null
  /\ want' \in [Comp -> Wanted \cup {Null}]
  /\ kept' \subseteq kept
  /\ result' = Null

\* A complete output, or none.
Repack ==
  /\ base # Null
  /\ result' \in {Null, [comp |-> [c \in Comp |-> Assembled(c)], dhtb |-> wrap]}
  /\ UNCHANGED <<base, want, wrap, kept>>

Unopened == base = Null /\ base' = Null

Next ==
  \/ \E img \in Images : Open(img)
  \/ Close \/ Edit \/ Repack \/ Unopened

Spec == Init /\ [][Next]_vars
=============================================================================
