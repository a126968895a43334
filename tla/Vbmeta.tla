-------------------------------- MODULE Vbmeta --------------------------------
(***************************************************************************)
(* An AVB vbmeta blob through unpack, edits and repack, over any number of *)
(* rounds: an output may be unpacked again.                                *)
(*                                                                         *)
(* The blob is a vbmeta.img of its own ("vbmeta"), sits behind an opaque   *)
(* host image and is found through the footer ("footer"), or is the tail   *)
(* of a boot, vendor_boot or dtbo image ("tail", save_avb_tail), whose     *)
(* host is taken apart and built anew.                                     *)
(*                                                                         *)
(* Without a key, repack passes the original signature on when the blob's  *)
(* hash is still the recorded one, and refuses otherwise; with a key it    *)
(* signs anew.                                                             *)
(***************************************************************************)
EXTENDS Integers

CONSTANTS
  Alg,         \* the algorithm types; "NONE" is type 0
  SigLen,      \* per algorithm: the length of its signatures
  Signer,      \* the RSA keys, the device vendor's among them
  KeyLen,      \* per key: the length of the signatures it makes
  Vendor,      \* the key the images at hand were signed with
  Minor,       \* values of required_libavb_version_minor
  Body,        \* what flags, rollback index and descriptors can say
  Host,        \* what a host image can hold
  MaxHost,     \* the bound on the length of a host image
  Images,      \* the images at hand
  WithOpenSSL, \* is this build able to sign
  Null

FooterLen == 1
Form == {"vbmeta", "footer", "tail"}

\* Everything the hash of a blob covers: its header, and the block of the
\* descriptors and the public key.
Content == [minor : Minor, alg : Alg, body : Body, pubkey : Signer]

Digest(content) == [of |-> content]
Hash == [of : Content]
Signature == [by : Signer, over : Hash]

\* The header and the auxiliary block, and the authentication block if signed.
BlobLen(content) == IF content.alg = "NONE" THEN 1 ELSE 2

\* orig and offset as the footer has them, length what unpack takes for the host
\* and repack writes: everything in front of the blob, or of a tail the container
\* alone, whatever lies between it and the blob.
Image == [form : Form, host : Host, length : Nat, orig : Nat, offset : Nat,
          total : Nat, content : Content, hash : Hash \cup {Null},
          sig : Signature \cup {Null}]

\* What VbmetaImage::parse accepts: a blob and a footer inside the file, the host
\* size of the footer any number.  The signature is the vendor's, and over the
\* recorded hash, but that may no longer be the hash of the blob.
WellFormed(img) ==
  /\ img \in Image
  /\ img.content.alg = "NONE" => img.hash = Null /\ img.sig = Null
  /\ img.content.alg # "NONE" =>
       img.hash # Null /\ img.sig = [by |-> Vendor, over |-> img.hash]
  /\ IF img.form = "vbmeta"
       THEN img.offset = 0 /\ img.orig = 0 /\ img.length = 0
       ELSE /\ img.offset > 0 /\ img.length > 0 /\ img.total >= FooterLen
            /\ img.form = "footer" => img.length = img.offset
  /\ img.offset + BlobLen(img.content) <= img.total

ASSUME VbmetaAssumption ==
  /\ "NONE" \in Alg /\ Vendor \in Signer /\ WithOpenSSL \in BOOLEAN
  /\ 0 \in Minor /\ MaxHost \in Nat
  /\ \A img \in Images : WellFormed(img)
  /\ Null \notin Image \cup Hash \cup Signature \cup Signer

VARIABLES
  image,  \* the image unpacked last
  dir,    \* its fields as they stand in the directory
  key,    \* the --avb-key of the last repack
  result, \* "none", "image" or "error": how the last repack ended
  out     \* what it wrote

vars == <<image, dir, key, result, out>>

Init == image = Null /\ dir = Null /\ key = Null /\ result = "none" /\ out = Null

-----------------------------------------------------------------------------
(* abr unpack                                                              *)

\* Mutant: the version is not recorded for a vbmeta.img either.
UnpackedNoVersion(img) ==
  [form    |-> img.form,
   host    |-> img.host,
   length  |-> img.length,
   orig    |-> img.orig,
   total   |-> img.total,
   content |-> [img.content EXCEPT !.minor = 0],
   hash    |-> img.hash,
   sig     |-> img.sig]

\* What the directory holds of an image.  A tail has no line for the required
\* libavb version: repack takes 1.0.
Unpacked(img) ==
  [form    |-> img.form,
   host    |-> img.host,
   length  |-> img.length,
   orig    |-> img.orig,
   total   |-> img.total,
   content |-> IF img.form = "tail" THEN [img.content EXCEPT !.minor = 0]
                                    ELSE img.content,
   hash    |-> img.hash,
   sig     |-> img.sig]

\* Any image at hand, or the one that was just made.
Unpack(img) ==
  /\ img \in Images \/ (result = "image" /\ img = out)
  /\ image' = img
  /\ dir' = Unpacked(img)
  /\ key' = Null /\ result' = "none" /\ out' = Null

-----------------------------------------------------------------------------
(* The user's edits; the lines hash= and signature= are left alone.        *)

Edited == key' = Null /\ result' = "none" /\ out' = Null /\ UNCHANGED image

\* Any of the lines and files of the blob; the minor version only where the
\* manifest has a line for it.
EditContent(content) ==
  /\ dir # Null /\ content # dir.content
  /\ dir.form = "tail" => content.minor = dir.content.minor
  /\ dir' = [dir EXCEPT !.content = content]
  /\ Edited

\* The host: host_prefix.bin, or any component of the container.
EditHost(host, length) ==
  /\ dir # Null /\ dir.form # "vbmeta"
  /\ <<host, length>> # <<dir.host, dir.length>>
  /\ dir' = [dir EXCEPT !.host = host, !.length = length]
  /\ Edited

-----------------------------------------------------------------------------
(* abr repack                                                              *)

\* Mutant: any signature of the right length is passed on.
SignableByLength(d, k) ==
  \/ d.content.alg = "NONE"
  \/ k # Null /\ WithOpenSSL /\ KeyLen[k] = SigLen[d.content.alg]
  \/ k = Null /\ d.sig # Null /\ KeyLen[d.sig.by] = SigLen[d.content.alg]

\* build_blob has a signature for what the directory says.
Signable(d, k) ==
  \/ d.content.alg = "NONE"
  \/ k # Null /\ WithOpenSSL /\ KeyLen[k] = SigLen[d.content.alg]
  \/ /\ k = Null /\ d.hash = Digest(d.content)
     /\ d.sig # Null /\ KeyLen[d.sig.by] = SigLen[d.content.alg]

\* Mutants: the output is never longer than the partition was; the footer takes
\* the blob's offset for the size of the host.
TotalFixed(d, offset) ==
  IF d.form = "vbmeta" THEN BlobLen(d.content) ELSE d.total

OrigIsOffset(d) == d.length

\* The footer goes to the end of the partition, or further if the host has
\* outgrown it.
Total(d, offset) ==
  LET end == offset + BlobLen(d.content)
  IN  IF d.form = "vbmeta" THEN end
      ELSE (IF d.total - FooterLen < end THEN end ELSE d.total - FooterLen)
           + FooterLen

\* The host size the footer records: of a tail, the container's as built now; of
\* an opaque host, what the footer said before, unless that was 0.
Orig(d) == IF d.form = "tail" \/ d.orig = 0 THEN d.length ELSE d.orig

\* VbmetaImage::build: the host, the blob right after it, the footer.
Built(d, k) ==
  [form    |-> d.form,
   host    |-> d.host,
   length  |-> d.length,
   orig    |-> Orig(d),
   offset  |-> d.length,
   total   |-> Total(d, d.length),
   content |-> d.content,
   hash    |-> IF d.content.alg = "NONE" THEN Null ELSE Digest(d.content),
   sig     |-> IF d.content.alg = "NONE" THEN Null
               ELSE IF k # Null THEN [by |-> k, over |-> Digest(d.content)]
               ELSE d.sig]

\* Mutant: a refusal leaves the output of an earlier repack in place.
RepackLeavesOutput(k) ==
  /\ dir # Null
  /\ key' = k
  /\ IF Signable(dir, k)
       THEN result' = "image" /\ out' = Built(dir, k)
       ELSE result' = "error" /\ out' = out
  /\ UNCHANGED <<image, dir>>

\* do_repack with --avb-key k, or without a key (Null).
Repack(k) ==
  /\ dir # Null
  /\ key' = k
  /\ IF Signable(dir, k)
       THEN result' = "image" /\ out' = Built(dir, k)
       ELSE result' = "error" /\ out' = Null
  /\ UNCHANGED <<image, dir>>

-----------------------------------------------------------------------------
Next ==
  \/ \E img \in Images \cup {out} : Unpack(img)
  \/ \E content \in Content : EditContent(content)
  \/ \E host \in Host, length \in 1 .. MaxHost : EditHost(host, length)
  \/ \E k \in (Signer \ {Vendor}) \cup {Null} : Repack(k)

Spec == Init /\ [][Next]_vars
-----------------------------------------------------------------------------
(* Properties                                                              *)

Directory == [form : Form, host : Host, length : Nat, orig : Nat, total : Nat,
              content : Content, hash : Hash \cup {Null},
              sig : Signature \cup {Null}]

\* The type of every variable.
TypeOK ==
  /\ image \in Image \cup {Null} /\ out \in Image \cup {Null}
  /\ dir \in Directory \cup {Null}
  /\ key \in Signer \cup {Null}
  /\ result \in {"none", "image", "error"}
  /\ result = "image" <=> out # Null

\* The blob's hash is still that of its content.
Genuine(img) == img.hash = Digest(img.content)

\* A signed output carries the hash of its own content and a signature over that
\* hash.  The vendor's signature is only ever found on content the vendor signed,
\* however often outputs were edited, re-signed, unpacked and repacked.
NoStaleSignature ==
  result = "image" /\ out.content.alg # "NONE" =>
    /\ Genuine(out) /\ out.sig # Null /\ out.sig.over = out.hash
    /\ out.sig.by = Vendor => \E img \in Images : img.hash = out.hash

\* Images whose layout and version repack's own output would have: a vbmeta.img
\* that ends with its blob; a tail right behind its host, of libavb version 1.0;
\* a footer in its place behind the blob that states the size of the host.
OwnLayout(img) ==
  IF img.form = "vbmeta" THEN img.total = BlobLen(img.content)
  ELSE /\ img.offset + BlobLen(img.content) + FooterLen <= img.total
       /\ img.orig # 0
       /\ img.form = "tail" => /\ img.offset = img.length /\ img.orig = img.length
                              /\ img.content.minor = 0

Untouched == dir # Null /\ dir = Unpacked(image)

\* Without an edit and without a key such an image comes back as it was.
UntouchedVerbatim ==
  /\ result = "image" /\ key = Null /\ Untouched /\ OwnLayout(image)
  => out = image

\* Repack refuses only when it has to: a key that does not fit or cannot be
\* used, an edit under somebody else's signature, a blob that was wrong before.
\* The version a tail loses is PassthroughWorks' affair.
RefusalJustified ==
  result = "error" /\ (image.form = "tail" => image.content.minor = 0) =>
    \/ key # Null /\ (~WithOpenSSL \/ KeyLen[key] # SigLen[dir.content.alg])
    \/ key = Null /\ (\/ dir.content # Unpacked(image).content
                      \/ ~Genuine(image)
                      \/ KeyLen[image.sig.by] # SigLen[image.content.alg])

\* However the host was edited, the blob and the footer behind it lie inside the
\* output; the partition keeps its size as long as the content fits; and the
\* footer of a container records the size the container has now.
FooterInBounds ==
  result = "image" /\ out.form # "vbmeta" =>
    LET end == out.offset + BlobLen(out.content) + FooterLen
    IN  /\ end <= out.total
        /\ end <= image.total => out.total = image.total
        /\ out.form = "tail" => out.orig = out.offset

\* README: without --avb-key, a signed vbmeta repacks by passthrough as long as
\* nothing that affects its hash changed.
PassthroughWorks ==
  Untouched /\ Genuine(image) /\ key = Null => result # "error"
-----------------------------------------------------------------------------
(* The inductive invariant behind them.                                    *)

\* An image at hand, or one that repack has made.
Sound(img) ==
  /\ img.content.alg = "NONE" => img.hash = Null /\ img.sig = Null
  /\ img.content.alg # "NONE" =>
       /\ img.hash # Null /\ img.sig # Null /\ img.sig.over = img.hash
       /\ img.sig.by = Vendor => \E i \in Images : i.hash = img.hash
  /\ img.form = "vbmeta" => img.offset = 0 /\ img.orig = 0 /\ img.length = 0
  /\ img.form = "footer" => img.length = img.offset

\* No edit touches these.
DirectoryInv ==
  dir # Null =>
    /\ image # Null /\ Sound(image)
    /\ dir.form = image.form /\ dir.orig = image.orig /\ dir.total = image.total
    /\ dir.hash = image.hash /\ dir.sig = image.sig
    /\ dir.form = "vbmeta" => dir.length = 0

RepackInv ==
  /\ key # Vendor
  /\ result # "none" => dir # Null
  /\ result = "image" => Signable(dir, key) /\ out = Built(dir, key)
  /\ result = "error" => ~Signable(dir, key)

IInv == TypeOK /\ DirectoryInv /\ RepackInv
=============================================================================
