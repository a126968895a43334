----------------------------- MODULE VbmetaProofs -----------------------------
(***************************************************************************)
(* Proofs about Vbmeta, for any algorithms, keys, hosts and images.        *)
(***************************************************************************)
EXTENDS Vbmeta, TLAPS

\* What Null is not, and what the parser let through.
LEMMA Givens ==
  /\ Null \notin Image /\ Null \notin Hash /\ Null \notin Signature
  /\ Null \notin Signer /\ Vendor \in Signer /\ 0 \in Minor
  /\ \A img \in Images : img \in Image /\ img # Null /\ Sound(img)
<1>1. ASSUME NEW img \in Images
      PROVE  img \in Image /\ Sound(img)
  <2>1. WellFormed(img)
    BY VbmetaAssumption
  <2>2. img \in Image
    BY <2>1 DEF WellFormed
  <2>3. img.content.alg # "NONE" =>
          /\ img.hash # Null /\ img.sig # Null /\ img.sig.over = img.hash
    BY <2>1, VbmetaAssumption DEF WellFormed, Image, Signature
  <2>. QED
    BY <2>1, <2>2, <2>3 DEF WellFormed, Sound
<1>. QED
  BY <1>1, VbmetaAssumption

\* What the fields of an image are.
LEMMA ImageFields ==
  ASSUME NEW img \in Image
  PROVE  /\ img.form \in Form /\ img.host \in Host /\ img.length \in Nat
         /\ img.orig \in Nat /\ img.offset \in Nat /\ img.total \in Nat /\ img.content \in Content
         /\ img.hash \in Hash \cup {Null} /\ img.sig \in Signature \cup {Null}
         /\ BlobLen(img.content) \in {1, 2}
         /\ img = [form |-> img.form, host |-> img.host, length |-> img.length,
                   orig |-> img.orig, offset |-> img.offset, total |-> img.total,
                   content |-> img.content, hash |-> img.hash, sig |-> img.sig]
BY DEF Image, BlobLen

\* Unpack fills a directory, and one that DirectoryInv describes.
LEMMA UnpackedFacts ==
  ASSUME NEW img \in Image, Sound(img)
  PROVE  /\ Unpacked(img) \in Directory
         /\ Unpacked(img).form = img.form /\ Unpacked(img).orig = img.orig
         /\ Unpacked(img).total = img.total /\ Unpacked(img).hash = img.hash
         /\ Unpacked(img).sig = img.sig
         /\ img.form = "vbmeta" => Unpacked(img).length = 0
<1>1. [img.content EXCEPT !.minor = 0] \in Content
  BY ImageFields, Givens DEF Content
<1>. QED
  BY <1>1, ImageFields DEF Unpacked, Directory, Sound

\* Where the footer ends up, and that the blob in front of it fits.
LEMMA TotalFacts ==
  ASSUME NEW d \in Directory
  PROVE  /\ Total(d, d.length) \in Nat
         /\ BlobLen(d.content) \in {1, 2} /\ d.length \in Nat /\ d.total \in Nat
         /\ d.form # "vbmeta" =>
              /\ d.length + BlobLen(d.content) + FooterLen <= Total(d, d.length)
              /\ d.length + BlobLen(d.content) + FooterLen <= d.total =>
                   Total(d, d.length) = d.total
<1>1. BlobLen(d.content) \in {1, 2} /\ d.length \in Nat /\ d.total \in Nat
  BY DEF Directory, BlobLen
<1>2. FooterLen = 1
  BY DEF FooterLen
<1>. QED
  BY <1>1, <1>2 DEF Total

\* What repack writes is an image, and as sound as the one that was unpacked: a
\* signature that is passed on is over the hash of what is written.
LEMMA BuiltFacts ==
  ASSUME NEW d \in Directory, NEW k \in (Signer \ {Vendor}) \cup {Null},
         Signable(d, k),
         d.form = "vbmeta" => d.length = 0 /\ d.orig = 0,
         d.sig # Null => /\ d.sig.over = d.hash
                         /\ d.sig.by = Vendor => \E i \in Images : i.hash = d.hash
  PROVE  /\ Built(d, k) \in Image /\ Sound(Built(d, k))
         /\ d.content.alg # "NONE" => Genuine(Built(d, k))
<1> DEFINE b == Built(d, k)
<1>1. /\ d.form \in Form /\ d.host \in Host /\ d.orig \in Nat /\ d.length \in Nat
      /\ d.content \in Content /\ d.hash \in Hash \cup {Null}
      /\ d.sig \in Signature \cup {Null}
  BY DEF Directory
<1>2. Digest(d.content) \in Hash /\ Orig(d) \in Nat
  BY <1>1 DEF Digest, Hash, Orig
<1>3. ASSUME k # Null
      PROVE  [by |-> k, over |-> Digest(d.content)] \in Signature
  BY <1>2, <1>3 DEF Signature
<1>4. /\ b.form = d.form /\ b.orig = Orig(d) /\ b.offset = d.length
      /\ b.length = d.length
      /\ b.total = Total(d, d.length) /\ b.content = d.content
      /\ b.hash = (IF d.content.alg = "NONE" THEN Null ELSE Digest(d.content))
      /\ b.sig = (IF d.content.alg = "NONE" THEN Null
                  ELSE IF k # Null THEN [by |-> k, over |-> Digest(d.content)]
                  ELSE d.sig)
  BY DEF Built
<1>5. b \in Image
  BY <1>1, <1>2, <1>3, TotalFacts DEF Built, Image
<1>6. ASSUME d.content.alg # "NONE"
      PROVE  /\ b.hash # Null /\ b.sig # Null /\ b.sig.over = b.hash
             /\ b.sig.by = Vendor => \E i \in Images : i.hash = b.hash
  <2>1. b.hash = Digest(d.content) /\ b.hash # Null
    BY <1>2, <1>4, <1>6, Givens
  <2>2. CASE k # Null
    <3>1. b.sig = [by |-> k, over |-> Digest(d.content)] /\ k # Vendor
      BY <1>4, <1>6, <2>2
    <3>2. b.sig # Null
      BY <1>3, <2>2, <3>1, Givens
    <3>. QED
      BY <2>1, <3>1, <3>2
  <2>3. CASE k = Null
    <3>1. d.hash = Digest(d.content) /\ d.sig # Null /\ b.sig = d.sig
      BY <1>4, <1>6, <2>3 DEF Signable
    <3>. QED
      BY <2>1, <3>1
  <2>. QED
    BY <2>2, <2>3
<1>7. Sound(b)
  <2>1. b.content.alg = "NONE" => b.hash = Null /\ b.sig = Null
    BY <1>4
  <2>2. b.form = "vbmeta" => b.offset = 0 /\ b.orig = 0 /\ b.length = 0
    BY <1>4 DEF Orig
  <2>3. b.form = "footer" => b.length = b.offset
    BY <1>4
  <2>. QED
    BY <1>4, <1>6, <2>1, <2>2, <2>3 DEF Sound
<1>8. d.content.alg # "NONE" => Genuine(b)
  BY <1>4 DEF Genuine
<1>. QED
  BY <1>5, <1>7, <1>8

\* What is in the directory is what BuiltFacts asks of it.
LEMMA DirectoryFacts ==
  ASSUME IInv, dir # Null
  PROVE  /\ dir \in Directory
         /\ dir.form = "vbmeta" => dir.length = 0 /\ dir.orig = 0
         /\ dir.sig # Null => /\ dir.sig.over = dir.hash
                              /\ dir.sig.by = Vendor =>
                                   \E i \in Images : i.hash = dir.hash
<1>1. /\ dir \in Directory /\ image \in Image /\ Sound(image)
      /\ dir.form = image.form /\ dir.orig = image.orig
      /\ dir.hash = image.hash /\ dir.sig = image.sig
      /\ dir.form = "vbmeta" => dir.length = 0
  BY DEF IInv, TypeOK, DirectoryInv
<1>. QED
  BY <1>1 DEF Sound

\* The inductive invariant holds in every state of every behaviour.
THEOREM Invariance == Spec => []IInv
<1>1. Init => IInv
  BY Givens DEF Init, IInv, TypeOK, DirectoryInv, RepackInv
<1>2. ASSUME IInv, [Next]_vars
      PROVE  IInv'
  <2>1. ASSUME NEW img \in Images \cup {out}, Unpack(img)
        PROVE  IInv'
    <3>1. img \in Image /\ img # Null /\ Sound(img)
      <4>1. CASE img \in Images
        BY <4>1, Givens
      <4>2. CASE result = "image" /\ img = out
        <5>1. /\ dir # Null /\ Signable(dir, key) /\ out = Built(dir, key)
              /\ key \in (Signer \ {Vendor}) \cup {Null}
          BY <1>2, <4>2 DEF IInv, RepackInv, TypeOK
        <5>. QED
          BY <1>2, <4>2, <5>1, DirectoryFacts, BuiltFacts, Givens
      <4>. QED
        BY <2>1, <4>1, <4>2 DEF Unpack
    <3>2. /\ image' = img /\ dir' = Unpacked(img) /\ key' = Null
          /\ result' = "none" /\ out' = Null
      BY <2>1 DEF Unpack
    <3>. QED
      BY <3>1, <3>2, UnpackedFacts, Givens DEF IInv, TypeOK, DirectoryInv, RepackInv
  <2>2. ASSUME NEW content \in Content, EditContent(content)
        PROVE  IInv'
    <3>1. /\ dir # Null /\ dir \in Directory
          /\ dir' = [dir EXCEPT !.content = content]
          /\ image' = image /\ key' = Null /\ result' = "none" /\ out' = Null
      BY <1>2, <2>2 DEF EditContent, Edited, IInv, TypeOK
    <3>2. /\ dir' \in Directory
          /\ dir'.form = dir.form /\ dir'.orig = dir.orig /\ dir'.total = dir.total
          /\ dir'.hash = dir.hash /\ dir'.sig = dir.sig /\ dir'.length = dir.length
      BY <3>1 DEF Directory
    <3>. QED
      BY <1>2, <3>1, <3>2, Givens DEF IInv, TypeOK, DirectoryInv, RepackInv
  <2>3. ASSUME NEW host \in Host, NEW length \in 1 .. MaxHost, EditHost(host, length)
        PROVE  IInv'
    <3>1. /\ dir # Null /\ dir \in Directory /\ dir.form # "vbmeta"
          /\ dir' = [dir EXCEPT !.host = host, !.length = length]
          /\ image' = image /\ key' = Null /\ result' = "none" /\ out' = Null
      BY <1>2, <2>3 DEF EditHost, Edited, IInv, TypeOK
    <3>2. length \in Nat
      BY VbmetaAssumption
    <3>3. /\ dir' \in Directory
          /\ dir'.form = dir.form /\ dir'.orig = dir.orig /\ dir'.total = dir.total
          /\ dir'.hash = dir.hash /\ dir'.sig = dir.sig
      BY <3>1, <3>2 DEF Directory
    <3>. QED
      BY <1>2, <3>1, <3>3, Givens DEF IInv, TypeOK, DirectoryInv, RepackInv
  <2>4. ASSUME NEW k \in (Signer \ {Vendor}) \cup {Null}, Repack(k)
        PROVE  IInv'
    <3>1. dir # Null /\ key' = k /\ image' = image /\ dir' = dir /\ k # Vendor
      BY <2>4, Givens DEF Repack
    <3>2. CASE Signable(dir, k)
      <4>1. result' = "image" /\ out' = Built(dir, k)
        BY <2>4, <3>2 DEF Repack
      <4>2. Built(dir, k) \in Image
        BY <1>2, <3>1, <3>2, DirectoryFacts, BuiltFacts
      <4>3. out' # Null
        BY <4>1, <4>2, Givens
      <4>. QED
        BY <1>2, <3>1, <3>2, <4>1, <4>2, <4>3
           DEF IInv, TypeOK, DirectoryInv, RepackInv
    <3>3. CASE ~Signable(dir, k)
      <4>1. result' = "error" /\ out' = Null
        BY <2>4, <3>3 DEF Repack
      <4>. QED
        BY <1>2, <3>1, <3>3, <4>1 DEF IInv, TypeOK, DirectoryInv, RepackInv
    <3>. QED
      BY <3>2, <3>3
  <2>5. CASE UNCHANGED vars
    BY <1>2, <2>5 DEF vars, IInv, TypeOK, DirectoryInv, RepackInv
  <2>. QED
    BY <1>2, <2>1, <2>2, <2>3, <2>4, <2>5 DEF Next
<1>. QED
  BY <1>1, <1>2, PTL DEF Spec

\* Every variable keeps its type, and a refusal leaves no output.
THEOREM TypeCorrect == Spec => []TypeOK
<1>1. IInv => TypeOK
  BY DEF IInv
<1>. QED
  BY <1>1, Invariance, PTL

\* No output carries a signature over anything but its own content, and the
\* vendor's is only on what the vendor signed, over any number of rounds.
THEOREM NoStale == Spec => []NoStaleSignature
<1>1. IInv => NoStaleSignature
  <2> SUFFICES ASSUME IInv, result = "image", out.content.alg # "NONE"
               PROVE  /\ Genuine(out) /\ out.sig # Null /\ out.sig.over = out.hash
                      /\ out.sig.by = Vendor => \E img \in Images : img.hash = out.hash
    BY DEF NoStaleSignature
  <2>1. /\ dir # Null /\ Signable(dir, key) /\ out = Built(dir, key)
        /\ key \in (Signer \ {Vendor}) \cup {Null}
    BY DEF IInv, RepackInv, TypeOK
  <2>2. dir.content.alg # "NONE"
    BY <2>1 DEF Built
  <2>3. Sound(out) /\ Genuine(out)
    BY <2>1, <2>2, DirectoryFacts, BuiltFacts
  <2>. QED
    BY <2>3 DEF Sound
<1>. QED
  BY <1>1, Invariance, PTL

\* An unedited image of repack's own layout comes back as it was.
THEOREM Untampered == Spec => []UntouchedVerbatim
<1>1. IInv => UntouchedVerbatim
  <2> SUFFICES ASSUME IInv, result = "image", key = Null, Untouched, OwnLayout(image)
               PROVE  out = image
    BY DEF UntouchedVerbatim
  <2>1. /\ dir # Null /\ dir = Unpacked(image) /\ Signable(dir, Null)
        /\ out = Built(dir, Null) /\ image \in Image /\ Sound(image)
        /\ dir \in Directory
    BY DEF IInv, RepackInv, DirectoryInv, TypeOK, Untouched
  <2>2. /\ dir.form = image.form /\ dir.host = image.host /\ dir.orig = image.orig
        /\ dir.total = image.total /\ dir.hash = image.hash /\ dir.sig = image.sig
        /\ dir.length = image.length
    BY <2>1 DEF Unpacked
  <2>3. dir.content = image.content
    <3>1. image.content \in [minor : Minor, alg : Alg, body : Body, pubkey : Signer]
      BY <2>1, ImageFields DEF Content
    <3>. QED
      BY <2>1, <3>1 DEF Unpacked, OwnLayout
  <2>4. dir.length = image.offset /\ Orig(dir) = image.orig
    BY <2>1, <2>2, ImageFields DEF OwnLayout, Orig, Sound, Form
  <2>5. Total(dir, dir.length) = image.total
    <3>1. CASE image.form = "vbmeta"
      BY <2>1, <2>2, <2>3, <2>4, <3>1, ImageFields DEF Total, OwnLayout, Sound
    <3>2. CASE image.form # "vbmeta"
      BY <2>1, <2>2, <2>3, <2>4, <3>2, TotalFacts DEF OwnLayout
    <3>. QED
      BY <3>1, <3>2
  <2>6. /\ (IF dir.content.alg = "NONE" THEN Null ELSE Digest(dir.content)) = image.hash
        /\ (IF dir.content.alg = "NONE" THEN Null ELSE dir.sig) = image.sig
    BY <2>1, <2>2, <2>3 DEF Sound, Signable
  <2>7. Built(dir, Null) =
          [form |-> image.form, host |-> image.host, length |-> image.length,
           orig |-> image.orig, offset |-> image.offset, total |-> image.total,
           content |-> image.content, hash |-> image.hash, sig |-> image.sig]
    BY <2>2, <2>3, <2>4, <2>5, <2>6 DEF Built
  <2>. QED
    BY <2>1, <2>7, ImageFields
<1>. QED
  BY <1>1, Invariance, PTL

\* Repack refuses only what it has no signature for.
THEOREM Justified == Spec => []RefusalJustified
<1>1. IInv => RefusalJustified
  <2> SUFFICES ASSUME IInv, result = "error",
                      image.form = "tail" => image.content.minor = 0,
                      key # Null => WithOpenSSL /\ KeyLen[key] = SigLen[dir.content.alg],
                      key = Null => /\ dir.content = Unpacked(image).content
                                    /\ Genuine(image)
                                    /\ KeyLen[image.sig.by] = SigLen[image.content.alg]
               PROVE  FALSE
    BY VbmetaAssumption DEF RefusalJustified
  <2>1. /\ dir # Null /\ ~Signable(dir, key) /\ image \in Image /\ Sound(image)
        /\ dir.hash = image.hash /\ dir.sig = image.sig
    BY DEF IInv, RepackInv, DirectoryInv, TypeOK
  <2>2. key = Null
    BY <2>1 DEF Signable
  <2>3. dir.content = image.content
    <3>1. image.content \in [minor : Minor, alg : Alg, body : Body, pubkey : Signer]
      BY <2>1, ImageFields DEF Content
    <3>. QED
      BY <2>2, <3>1 DEF Unpacked
  <2>. QED
    BY <2>1, <2>2, <2>3 DEF Signable, Genuine, Sound
<1>. QED
  BY <1>1, Invariance, PTL

\* The blob and the footer lie inside the output, and the partition keeps its
\* size while they fit.
THEOREM InBounds == Spec => []FooterInBounds
<1>1. IInv => FooterInBounds
  <2> SUFFICES ASSUME IInv, result = "image", out.form # "vbmeta"
               PROVE  LET end == out.offset + BlobLen(out.content) + FooterLen
                      IN  /\ end <= out.total
                          /\ end <= image.total => out.total = image.total
                          /\ out.form = "tail" => out.orig = out.offset
    BY DEF FooterInBounds
  <2>1. /\ dir # Null /\ out = Built(dir, key) /\ dir \in Directory
        /\ dir.total = image.total
    BY DEF IInv, RepackInv, DirectoryInv, TypeOK
  <2>2. /\ out.form = dir.form /\ out.offset = dir.length /\ out.orig = Orig(dir)
        /\ out.total = Total(dir, dir.length) /\ out.content = dir.content
    BY <2>1 DEF Built
  <2>. QED
    BY <2>1, <2>2, TotalFacts DEF Orig
<1>. QED
  BY <1>1, Invariance, PTL
=============================================================================
