------------------------------ MODULE MCVbmeta ------------------------------
(* Vbmeta with three keys, an unsigned and two signed algorithms.          *)
EXTENDS Vbmeta

MCAlg == {"NONE", "SHA256_RSA2048", "SHA256_RSA4096"}
MCSigLen == [alg \in MCAlg |-> IF alg = "NONE" THEN 0
                               ELSE IF alg = "SHA256_RSA2048" THEN 256 ELSE 512]
MCSigner == {"vendor", "own", "long"}
MCKeyLen == [k \in MCSigner |-> IF k = "long" THEN 512 ELSE 256]
MCMinor == {0, 1}
MCHost == {"h1", "h2"}

Signed(minor) == [minor |-> minor, alg |-> "SHA256_RSA2048", body |-> "b1",
                  pubkey |-> "vendor"]
Img(form, length, orig, offset, total, content, hashed) ==
  [form |-> form, host |-> "h1", length |-> length, orig |-> orig,
   offset |-> offset, total |-> total, content |-> content,
   hash |-> IF content.alg = "NONE" THEN Null ELSE Digest(hashed),
   sig |-> IF content.alg = "NONE" THEN Null
           ELSE [by |-> "vendor", over |-> Digest(hashed)]]
Vouched(form, length, orig, offset, total, content) ==
  Img(form, length, orig, offset, total, content, content)

\* A signed vbmeta.img, exact and padded; one changed after it was signed; an
\* unsigned blob behind an opaque host; one behind a footer that states no host
\* size, and lies over the end of the blob; signed tails, right behind the
\* container, after a gap, and of libavb version 1.1.
Unsigned == [Signed(0) EXCEPT !.alg = "NONE"]
Exact    == Vouched("vbmeta", 0, 0, 0, 2, Signed(1))
Padded   == Vouched("vbmeta", 0, 0, 0, 4, Signed(1))
Altered  == Img("vbmeta", 0, 0, 0, 2, [Signed(0) EXCEPT !.body = "b2"], Signed(0))
Opaque   == Vouched("footer", 3, 2, 3, 6, Unsigned)
Sizeless == Vouched("footer", 2, 0, 2, 4, Signed(0))
Tail     == Vouched("tail", 1, 1, 1, 5, Signed(0))
Behind   == Vouched("tail", 1, 1, 2, 5, Signed(0))
TailV11  == Vouched("tail", 1, 1, 1, 5, Signed(1))

AllImages == {Exact, Padded, Altered, Opaque, Sizeless, Tail, Behind}
TailImage == {TailV11}
=============================================================================
