-------------------------------- MODULE Codecs --------------------------------
(***************************************************************************)
(* Streams of every codec, made by this program or by a vendor, perhaps    *)
(* cut or followed by something, and decoded.  The two framings are        *)
(* written and read block by block; the libraries decode into a buffer     *)
(* that grows, or chunk by chunk.                                          *)
(*                                                                         *)
(* A compressed block of n cells is n cells that know its data; a word is  *)
(* a cell with its number, and zeros.  A library's stream is a sequence of *)
(* pieces and an end; a piece gives its data only to who has those before  *)
(* it, and is modelled by all the data up to its end.                      *)
(***************************************************************************)
EXTENDS ByteIO

CONSTANTS
  Contents,  \* what is compressed
  WordLen,   \* the length of a word
  BlockLen,  \* kLz4LegacyBlockSize, kLzoBlockSize
  PieceLen,  \* how much data a piece of a library's stream stands for
  ChunkLen,  \* the chunk of the lz4 and zstd decoders
  FirstLen,  \* the least first length of a growing buffer
  Factor,    \* and how many times the stream it is at least
  Width,     \* 2^32: where an unsigned int wraps
  Wild       \* what a word reads where there is none: past any length

\* What a stream is made of besides bytes.
Coded ==
  [fmt : {"lzop"}, extra : Nat] \cup [fmt : {"lz4", "end"}]
    \cup [fmt : {"word"}, n : Nat] \cup [fmt : {"coded", "piece"}, data : Seq(Byte)]

Framed  == {"lz4_legacy", "lzo"}
Growing == {"gzip", "lzma"}
Retried == {"xz", "bzip2"}
Chunked == {"lz4", "zstd"}
Codec   == Framed \cup Growing \cup Retried \cup Chunked \cup {"zstd_sized"}

\* The decoders that return a part where others throw.
Lenient == {"gzip", "lz4", "lz4_legacy", "zstd"}

ASSUME CodecsAssumption ==
  /\ Contents \subseteq Seq(Byte)
  /\ {WordLen, BlockLen, PieceLen, ChunkLen, FirstLen, Factor, Width, Wild}
       \subseteq Nat \ {0}
  /\ BlockLen < Wild /\ FirstLen < Width
  /\ Byte \cap Coded = {}

VARIABLES
  stage,   \* "idle", "encode", "stream", "decode", "done"
  codec,
  maker,   \* "abr" or "vendor"
  content, \* what is compressed
  fault,   \* "none"; "cut": the stream was cut; "tail": something follows it
  stream,
  pos,     \* how far content is encoded, the framing read, or the data given
  cap,     \* the length of the growing buffer
  out,     \* what the decoder has produced
  result   \* "none", "done" or "error"

vars == <<stage, codec, maker, content, fault, stream, pos, cap, out, result>>

-----------------------------------------------------------------------------
Least(m, n) == IF m < n THEN m ELSE n

Word(n)        == <<[fmt |-> "word", n |-> n]>> \o Zeros(WordLen - 1)
Block(data, n) == [i \in 1 .. n |-> [fmt |-> "coded", data |-> data]]

\* A word at a position: padding reads as 0.
WordAt(p) ==
  LET c == stream[p + 1]
  IN  IF c \in Byte THEN IF c = Zero THEN 0 ELSE Wild
      ELSE IF c.fmt = "word" THEN c.n ELSE Wild

Remaining == Len(stream) - pos

\* What a library gets out of its stream, and whether it sees the end.
Pieces ==
  LET other == {i \in DOMAIN stream : stream[i] \in Byte \/ stream[i].fmt # "piece"}
  IN  IF other = {} THEN Len(stream)
      ELSE (CHOOSE i \in other : \A j \in other : i <= j) - 1
Have     == IF Pieces = 0 THEN <<>> ELSE stream[Pieces].data
Complete == Pieces < Len(stream)

Stop(how) == stage' = "done" /\ result' = how

-----------------------------------------------------------------------------
Init ==
  /\ stage = "idle" /\ codec = "gzip" /\ maker = "abr" /\ content = <<>>
  /\ fault = "none" /\ stream = <<>> /\ pos = 0 /\ cap = 0 /\ out = <<>>
  /\ result = "none"

\* A stream is begun: lzo_compress and lz4_legacy_compress with their headers;
\* a vendor's lzop header may have optional fields.
Begin ==
  /\ stage \in {"idle", "done"} /\ stage' = "encode"
  /\ codec' \in Codec /\ maker' \in {"abr", "vendor"} /\ content' \in Contents
  /\ \E extra \in {0, 1} :
       /\ extra = 1 => codec' = "lzo" /\ maker' = "vendor"
       /\ stream' = IF codec' = "lzo"
                      THEN <<[fmt |-> "lzop", extra |-> extra]>> \o Zeros(extra)
                    ELSE IF codec' = "lz4_legacy" THEN <<[fmt |-> "lz4"]>> ELSE <<>>
  /\ fault' = "none" /\ pos' = 0 /\ cap' = 0 /\ out' = <<>> /\ result' = "none"

\* A block as it is stored: lzop stores what does not shrink; lzo_compress and
\* the lz4 framing never do.
StoredByVendor(data, n) == codec = "lzo" /\ maker = "vendor" /\ n >= Len(data)

EncodeBlock ==
  /\ stage = "encode" /\ codec \in Framed /\ pos < Len(content)
  /\ LET data == Cells(content, pos, Least(BlockLen, Len(content) - pos))
     IN  /\ \E n \in 1 .. Len(data) + 1 :
              LET block == IF StoredByVendor(data, n) THEN data ELSE Block(data, n)
              IN  stream' = stream
                    \o (IF codec = "lzo" THEN Word(Len(data)) ELSE <<>>)
                    \o Word(Len(block))
                    \o (IF codec = "lzo" THEN Word(0) ELSE <<>>) \* the checksum
                    \o block
         /\ pos' = pos + Len(data)
  /\ UNCHANGED <<stage, codec, maker, content, fault, cap, out, result>>

\* The end of a framing; or compress() of a library.
EndEncode ==
  /\ stage = "encode" /\ stage' = "stream"
  /\ codec \in Framed => pos = Len(content)
  /\ stream' = CASE codec = "lzo" -> stream \o Word(0)
                 [] codec = "lz4_legacy" -> stream
                 [] OTHER ->
                      [i \in 1 .. (Len(content) + PieceLen - 1) \div PieceLen |->
                        [fmt |-> "piece",
                         data |-> Cells(content, 0, Least(i * PieceLen, Len(content)))]]
                      \o <<[fmt |-> "end"]>>
  /\ UNCHANGED <<codec, maker, content, fault, pos, cap, out, result>>

\* The stream is cut behind its magic, or something is put behind it: zeros, or
\* a second stream, shorter than what its magic reads as (389 MB for lz4).
CutStream ==
  /\ stage = "stream" /\ fault = "none" /\ fault' = "cut"
  /\ \E n \in 1 .. Len(stream) - 1 : stream' = SubSeq(stream, 1, n)
  /\ UNCHANGED <<stage, codec, maker, content, pos, cap, out, result>>

AppendTail ==
  /\ stage = "stream" /\ fault = "none" /\ fault' = "tail"
  /\ \/ \E n \in 1 .. WordLen : stream' = stream \o Zeros(n)
     \/ Len(stream) < Wild /\ stream' = stream \o stream
  /\ UNCHANGED <<stage, codec, maker, content, pos, cap, out, result>>

-----------------------------------------------------------------------------
(* decompress()                                                             *)

\* Up to the first read of data.
BeginDecode ==
  /\ stage = "stream"
  /\ pos' = CASE codec = "lzo" -> 1 + stream[1].extra
              [] codec = "lz4_legacy" -> 1
              [] OTHER -> 0
  /\ cap' = LET n == Factor * Len(stream)
                first == IF n < FirstLen THEN FirstLen ELSE n
            IN  IF codec = "bzip2" THEN first % Width ELSE first
  /\ IF codec \in Framed /\ pos' > Len(stream) THEN Stop("error")
     ELSE stage' = "decode" /\ UNCHANGED result
  /\ UNCHANGED <<codec, maker, content, fault, stream, out>>

Decoding(codecs) ==
  /\ stage = "decode" /\ codec \in codecs
  /\ UNCHANGED <<codec, maker, content, fault, stream>>

\* lz4_legacy_decompress: the end, or what is no block, ends the stream.
DecodeLz4Legacy ==
  /\ Decoding({"lz4_legacy"}) /\ UNCHANGED cap
  /\ IF Remaining < WordLen THEN Stop("done") /\ UNCHANGED <<pos, out>>
     ELSE LET n == WordAt(pos)
          IN  IF n = 0 \/ n > Remaining - WordLen
                THEN Stop("done") /\ UNCHANGED <<pos, out>>
              ELSE /\ out' = out \o stream[pos + WordLen + 1].data
                   /\ pos' = pos + WordLen + n
                   /\ UNCHANGED <<stage, result>>

\* Mutant: the end of the stream is taken for an end.
LzoEndsAt(p) == Remaining < WordLen \/ WordAt(p) = 0

\* Mutants: a block is not passed; the checksum is skipped twice.
NextStill(p, n) == p
NextTwice(p, n) == p + 4 * WordLen + n

\* Behind a block.
NextBlock(p, n) == p + 3 * WordLen + n

\* The end-of-stream marker.
LzoEnds(p) == Remaining >= WordLen /\ WordAt(p) = 0

\* The cells of a block as the loop of lzo_decompress adds them to the output:
\* one as long as its data is taken for stored.
LzoData(p) ==
  LET block == Cells(stream, p + 3 * WordLen, WordAt(p + WordLen))
  IN  IF WordAt(p) = WordAt(p + WordLen) THEN block ELSE block[1].data

\* lzo_decompress.
DecodeLzo ==
  /\ Decoding({"lzo"}) /\ UNCHANGED cap
  /\ IF LzoEnds(pos) THEN Stop("done") /\ UNCHANGED <<pos, out>>
     ELSE IF \/ Remaining < 3 * WordLen \/ WordAt(pos) > BlockLen
             \/ WordAt(pos + WordLen) > Remaining - 3 * WordLen
       THEN Stop("error") /\ UNCHANGED <<pos, out>>
     ELSE /\ out' = out \o LzoData(pos)
          /\ pos' = NextBlock(pos, WordAt(pos + WordLen))
          /\ UNCHANGED <<stage, result>>

\* A stream without an end is a part for zlib_run and an error for
\* lzma_stream_run.
WithoutEnd == IF codec = "gzip" THEN "done" ELSE "error"

\* How much of the n bytes left in the buffer a call is told of: zlib's avail_out
\* is an unsigned int.
Room(n) == IF codec = "gzip" THEN n % Width ELSE n

\* zlib_run and lzma_stream_run: a call fills the room or comes to an end. What
\* the buffer has beyond the room is taken for produced; and once there is no
\* room, none comes of doubling: the buffer grows until it cannot be had.
DecodeGrowing ==
  /\ Decoding(Growing)
  /\ LET room  == Room(cap - Len(out))
         given == Cells(Have, pos, Least(room, Len(Have) - pos))
     IN  /\ out' = out \o given \o Zeros(cap - Len(out) - room)
         /\ pos' = pos + Len(given)
         /\ IF Complete /\ pos' = Len(Have) THEN Stop("done") /\ UNCHANGED cap
            ELSE IF Len(given) < room THEN Stop(WithoutEnd) /\ UNCHANGED cap
            ELSE IF room = 0 THEN Stop("error") /\ UNCHANGED cap
            ELSE cap' = 2 * cap /\ UNCHANGED <<stage, result>>

\* Mutants: retried with the buffer as it is; an unsigned int for xz, too.
GrownNot(n) == n
GrownInt(n) == (2 * n) % Width

\* out_len *= 2, of an unsigned int for bzip2.
Grown(n) == IF codec = "bzip2" THEN (2 * n) % Width ELSE 2 * n

\* xz_decompress and bzip2_decompress: from the start, with twice the buffer. No
\* buffer at all is an error of its own.
DecodeRetried ==
  /\ Decoding(Retried) /\ UNCHANGED pos
  /\ IF cap = 0 \/ (~Complete /\ Len(Have) <= cap)
       THEN Stop("error") /\ UNCHANGED <<cap, out>>
     ELSE IF Len(Have) <= cap THEN out' = Have /\ Stop("done") /\ UNCHANGED cap
     ELSE cap' = Grown(cap) /\ UNCHANGED <<stage, out, result>>

\* lz4_frame_decompress and the streaming loop of zstd_decompress: the library
\* keeps the last of its input until all of the output is out.
DecodeChunked ==
  /\ Decoding(Chunked) /\ UNCHANGED <<pos, cap>>
  /\ out' = SubSeq(Have, 1, Least(Len(out) + ChunkLen, Len(Have)))
  /\ IF out' = Have THEN Stop("done") ELSE UNCHANGED <<stage, result>>

\* zstd_decompress with the content's size: all of the stream is frames, and
\* there is room for the data of the first one only.
DecodeSized ==
  LET behind == SubSeq(stream, Pieces + 1, Len(stream))
  IN  /\ Decoding({"zstd_sized"}) /\ UNCHANGED <<pos, cap>>
      /\ IF Complete /\ \A i \in DOMAIN behind : behind[i] = [fmt |-> "end"]
           THEN out' = Have /\ Stop("done")
         ELSE Stop("error") /\ UNCHANGED out

Decode ==
  \/ DecodeLz4Legacy \/ DecodeLzo \/ DecodeGrowing \/ DecodeRetried
  \/ DecodeChunked \/ DecodeSized

Next ==
  \/ Begin \/ EncodeBlock \/ EndEncode \/ CutStream \/ AppendTail \/ BeginDecode
  \/ Decode

\* decompress() runs to its end.
Spec == Init /\ [][Next]_vars /\ WF_vars(Decode)

-----------------------------------------------------------------------------
(* Properties                                                               *)

\* What a decoder has produced never exceeds its buffer, and its place never
\* passes the end of the stream.
TypeOK ==
  /\ stage \in {"idle", "encode", "stream", "decode", "done"}
  /\ codec \in Codec /\ maker \in {"abr", "vendor"} /\ content \in Seq(Byte)
  /\ fault \in {"none", "cut", "tail"} /\ result \in {"none", "done", "error"}
  /\ cap \in Nat /\ (codec \in Growing \cup Retried => Len(out) <= cap)
  /\ stage = "encode" => pos <= Len(content)
  /\ stage = "decode" /\ codec \in Framed => pos <= Len(stream)

\* The program's own LZO encoder made a block exactly as long as its data, which
\* its decoder (and the kernel's) takes for stored: a coded block behind two
\* equal lengths.
Coincidence ==
  /\ codec = "lzo"
  /\ \E p \in 0 .. Len(stream) - 3 * WordLen - 1 :
       LET dst == stream[p + 1]
           src == stream[p + WordLen + 1]
           one == stream[p + 3 * WordLen + 1]
       IN  /\ {dst, src, one} \cap Byte = {}
           /\ dst.fmt = "word" /\ src = dst /\ one.fmt = "coded"

\* Where an unsigned int wraps: 4 GiB of content from a gzip stream, or a first
\* buffer of that length; half of it for bzip2, whose buffer must pass its content.
GzipWraps ==
  codec = "gzip" /\ (Len(content) >= Width \/ Factor * Len(stream) >= Width)

Bzip2Wraps ==
  codec = "bzip2" /\ (2 * Len(content) > Width \/ Factor * Len(stream) >= Width)

\* Whatever became of the stream, a decoder's output is a beginning of what was
\* compressed: no block twice, out of place, or of something else. Two cases are
\* known to break it: a Coincidence, and lengths that wrap for gzip.
NothingForeign ==
  ~Coincidence /\ ~GzipWraps =>
    Len(out) <= Len(content) /\ out = Cells(content, 0, Len(out))

\* A decoder that returns has returned everything its (first) stream was made of,
\* unless the stream was cut and the decoder is one of those that return a part;
\* the same two cases excepted.
PartOnlyIfLenient ==
  result = "done" /\ ~Coincidence /\ ~GzipWraps /\ out # content =>
    fault = "cut" /\ codec \in Lenient

\* A decoder refuses a stream only if it was cut, or for what follows a zstd
\* frame of known size, or where an unsigned int of gzip's or bzip2's buffer
\* wraps: for a content, or a first length of the buffer, out of its range.
RefusedForCause ==
  result = "error" =>
    \/ fault = "cut"
    \/ fault = "tail" /\ codec = "zstd_sized"
    \/ GzipWraps \/ Bzip2Wraps

\* Every decoder comes to an end, also with a buffer length that wraps.
DecodeEnds == stage = "decode" ~> stage = "done"
=============================================================================
