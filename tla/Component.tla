------------------------------ MODULE Component ------------------------------
(***************************************************************************)
(* The bytes of one component of an Android image (kernel, ramdisk, dtb,   *)
(* a vendor ramdisk fragment) as far as unpack and repack tell them apart. *)
(*                                                                         *)
(* A component in an image is a compressed stream, possibly behind a       *)
(* MediaTek header.  Two streams with the same content and codec still     *)
(* differ when different encoders made them: "vendor" stands for whoever   *)
(* built the original image, "abr" for the encoders this program links.    *)
(* That difference is what the replay of original bytes is there for.      *)
(***************************************************************************)
EXTENDS Naturals

CONSTANTS
  Content,   \* what an extracted file can hold
  Codec,     \* the codecs of compression.hpp, "none" among them
  Lenient,   \* the codecs whose decoder accepts a truncated stream
  CodecText, \* what can stand after <component>_compression= in the manifest
  MtkName,   \* the names a MediaTek header can declare
  Cut,       \* what is left of a content whose file was not written whole
  Null       \* no value: an unset manifest key, an absent file

ASSUME ComponentAssumption ==
  /\ "none" \in Codec
  /\ Codec \subseteq CodecText
  /\ Lenient \subseteq Codec \ {"none"}
  /\ Cut \notin Content
  /\ Null \notin Content \cup {Cut} \cup MtkName \cup CodecText

Data == Content \cup {Cut}

\* A stream of codec "none" is its content: no encoder, one form.
Stream == { s \in [codec : Codec, enc : {"vendor", "abr"}, data : Data] :
              s.codec = "none" => s.enc = "abr" }

Blob == [mtk : MtkName \cup {Null}, stream : Stream]

-----------------------------------------------------------------------------
\* compress(): this program's encoder, deterministic for a codec and a content.
Compress(codec, plain) == [codec |-> codec, enc |-> "abr", data |-> plain]

\* codec_from_name(...).value_or(Codec::NONE); an absent key reads as "none".
CodecFromName(text) == IF text \in Codec THEN text ELSE "none"

\* decompress() ends with a result.  A damaged stream makes the strict decoders
\* (xz, lzma, bzip2, sized zstd) throw; gzip, both lz4 forms and unsized zstd
\* return the part they could decode.
Decodes(stream) ==
  \/ stream.data # Cut
  \/ stream.codec \in Lenient \cup {"none"}

Decompress(stream) == stream.data

\* What is left of a stream when its file was not written whole.
Truncated(stream) == [stream EXCEPT !.data = Cut]

\* hash::sha256 of an extracted file: equal exactly when the contents are.
Sha256(plain) == [sha256 |-> plain]

Digest == [sha256 : Data]

\* add_mtk_header, when the manifest names one; strip_mtk_header is .stream.
AddMtkHeader(stream, name) == [mtk |-> name, stream |-> stream]
=============================================================================
