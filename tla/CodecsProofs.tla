----------------------------- MODULE CodecsProofs -----------------------------
(***************************************************************************)
(* What decoders make of streams, for contents, blocks and buffers of any  *)
(* length.  A framing is described by where each of its blocks begins (at) *)
(* and how much of the content lies before it (from); of a stream that was *)
(* cut it says what is seen of it, so that one description serves for the  *)
(* encoder, the damage and the decoder.                                    *)
(***************************************************************************)
EXTENDS Codecs, ByteIOProofs

Cell == Byte \cup Coded

W(n)        == [fmt |-> "word", n |-> n]
CodedAs(d)  == [fmt |-> "coded", data |-> d]
PieceOf(d)  == [fmt |-> "piece", data |-> d]
EndCell     == [fmt |-> "end"]

\* The two cases in which something else may come out.
Broken == Coincidence \/ GzipWraps

\* If s goes that far, c is at p.
Seen(s, p, c) == p <= Len(s) => s[p] = c

\* The words in front of a block, and the length of the magic or header.
Lead(c)    == IF c = "lzo" THEN 3 * WordLen ELSE WordLen
Front(c, s) == IF c = "lzo" THEN 1 + s[1].extra ELSE 1

\* The cell a framing begins with.
Magic(c, m) ==
  IF c = "lzo" THEN m \in [fmt : {"lzop"}, extra : Nat] ELSE m = [fmt |-> "lz4"]

\* A block of n cells behind its words.
BlockIs(c, s, p, d, n) ==
  IF c = "lzo"
    THEN /\ Seen(s, p + 1, W(Len(d))) /\ Seen(s, p + WordLen + 1, W(n))
         /\ \/ n = Len(d) /\ \A i \in 1 .. n : Seen(s, p + 3 * WordLen + i, d[i])
            \/ Seen(s, p + 3 * WordLen + 1, CodedAs(d))
    ELSE Seen(s, p + 1, W(n)) /\ Seen(s, p + WordLen + 1, CodedAs(d))

Framing(c, x, s, k, at, from) ==
  /\ s \in Seq(Cell) /\ Len(s) > 0 /\ Magic(c, s[1])
  /\ at[1] = Front(c, s) /\ from[1] = 0
  /\ \A i \in 1 .. k + 1 : at[i] <= at[k + 1]
  /\ \A i \in 1 .. k :
       /\ from[i] < from[i + 1] /\ from[i + 1] <= from[i] + BlockLen
       /\ at[i] + Lead(c) < at[i + 1]
       /\ BlockIs(c, s, at[i], Cells(x, from[i], from[i + 1] - from[i]),
                  at[i + 1] - at[i] - Lead(c))

\* The end of a framing, at e: what is seen of it, and what may follow.
EndIs(c, s, e, how) ==
  IF c = "lzo"
    THEN /\ Seen(s, e + 1, W(0))
         /\ how = "cut" <=> Len(s) < e + WordLen
         /\ how = "none" => Len(s) = e + WordLen
    ELSE /\ how = "cut" <=> Len(s) < e
         /\ how = "none" => Len(s) = e
         /\ how = "tail" =>
              /\ Len(s) > e
              /\ \/ s[e + 1] = Zero
                 \/ s[e + 1] = [fmt |-> "lz4"] /\ Len(s) - e < Wild

\* A library's stream of n pieces, the last of which completes the data.
Packed(x, s, n, size, how) ==
  /\ s \in Seq(Cell) /\ Len(s) > 0
  /\ IF n = 0 THEN x = <<>> ELSE size[n] = Len(x)
  /\ \A i \in 1 .. n : Seen(s, i, PieceOf(Cells(x, 0, size[i])))
  /\ Seen(s, n + 1, EndCell)
  /\ how = "cut" <=> Len(s) < n + 1
  /\ how = "none" => Len(s) = n + 1

EncodeInv(k, at, from) ==
  /\ Framing(codec, content, stream, k, at, from)
  /\ at[k + 1] = Len(stream) /\ from[k + 1] = pos

FramedInv(k, at, from) ==
  /\ Framing(codec, content, stream, k, at, from)
  /\ EndIs(codec, stream, at[k + 1], fault) /\ from[k + 1] = Len(content)
  /\ stage = "decode" =>
       \E j \in 1 .. k + 1 :
         pos = at[j] /\ (~Broken => out = Cells(content, 0, from[j]))

Places(k)    == [1 .. k + 1 -> Nat]
Shares(x, k) == [1 .. k + 1 -> 0 .. Len(x)]

StreamInv ==
  /\ stage = "encode" /\ codec \in Framed =>
       \E k \in Nat : \E at \in Places(k), from \in Shares(content, k) : EncodeInv(k, at, from)
  /\ stage \in {"stream", "decode"} /\ codec \in Framed =>
       \E k \in Nat : \E at \in Places(k), from \in Shares(content, k) : FramedInv(k, at, from)
  /\ stage \in {"stream", "decode"} /\ codec \notin Framed =>
       \E n \in Nat : \E size \in [1 .. n -> 0 .. Len(content)] :
         Packed(content, stream, n, size, fault)

\* Lengths at which an unsigned int wraps: only then has bzip2 no buffer at all.
Wraps == GzipWraps \/ Bzip2Wraps

CapInv == stage = "decode" /\ codec \in Retried => cap > 0 \/ Wraps

\* Between two calls a growing buffer has room, and holds what was given; all of
\* the room there is can be told unless lengths wrap.
GrowInv ==
  stage = "decode" /\ codec \in Growing =>
    /\ out \in Seq(Byte) /\ Len(out) < cap /\ pos \in 0 .. Len(Have)
    /\ ~GzipWraps =>
         out = Cells(content, 0, pos) /\ (codec = "gzip" => cap - Len(out) < Width)

EarlyInv ==
  /\ stage \in {"idle", "encode", "stream"} => out = <<>>
  /\ stage = "decode" /\ codec \in Retried \cup {"zstd_sized"} => out = <<>>
  /\ stage = "decode" /\ codec \in Chunked => Len(out) \in Nat
  /\ stage # "done" => result = "none"
  /\ stage = "encode" => fault = "none"
  /\ stream \in Seq(Cell) /\ pos \in Nat

IInv ==
  TypeOK /\ EarlyInv /\ StreamInv /\ CapInv /\ GrowInv /\ NothingForeign
    /\ PartOnlyIfLenient /\ RefusedForCause

\* A decoder refuses a stream for a cause.
Cause == fault = "cut" \/ (fault = "tail" /\ codec = "zstd_sized") \/ Wraps

\* What a step of a decoder must do besides keeping its place in a framing.
Decodes ==
  /\ stage = "decode" /\ UNCHANGED <<codec, maker, content, fault, stream>>
  /\ pos' \in Nat /\ cap' \in Nat
  /\ \/ stage' = "decode" /\ result' = "none"
     \/ /\ stage' = "done" /\ result' = "done"
        /\ ~Broken => out' = content \/ (fault = "cut" /\ codec \in Lenient)
     \/ stage' = "done" /\ result' = "error" /\ Cause
  /\ ~Broken => \E m \in 0 .. Len(content) : out' = Cells(content, 0, m)
  /\ codec \in Growing \cup Retried => Len(out') <= cap'
  /\ codec \in Framed /\ stage' = "decode" => pos' <= Len(stream)
  /\ codec \in Retried /\ stage' = "decode" =>
       out' = <<>> /\ (cap' > 0 \/ Wraps)
  /\ codec \in Chunked /\ stage' = "decode" => Len(out') \in Nat
  /\ codec = "zstd_sized" => stage' = "done"

\* Where a reader of a framing is: at its end, or before a block of n cells, the
\* data from a to b.
AtEnd == EndIs(codec, stream, pos, fault) /\ (~Broken => out = content)

BeforeBlock(n, d, a, b) ==
  /\ a <= b /\ d = Cells(content, a, b - a) /\ Len(d) \in 1 .. BlockLen
  /\ BlockIs(codec, stream, pos, d, n)
  /\ ~Broken => out = Cells(content, 0, a)
  /\ Len(stream) < pos + Lead(codec) + n => fault = "cut"
  /\ /\ UNCHANGED <<stage, codec, content, fault, stream>>
     /\ pos' = pos + Lead(codec) + n /\ (~Broken => out' = Cells(content, 0, b))
     => StreamInv'

\* Block j of a framing of k blocks; what o is and becomes with the data d.
NotLast(c, x, s, k, at, from, j) ==
  /\ c \in Framed /\ x \in Seq(Byte) /\ k \in Nat
  /\ at \in Places(k) /\ from \in Shares(x, k) /\ Framing(c, x, s, k, at, from)
  /\ j \in 1 .. k + 1 /\ j # k + 1

Adds(x, a, b, d, o) ==
  /\ x \in Seq(Byte) /\ a \in 0 .. Len(x) /\ b \in 0 .. Len(x) /\ a <= b
  /\ d = Cells(x, a, b - a) /\ o = Cells(x, 0, a)

BlockThere(c, x, s, k, at, from, j) ==
  /\ j + 1 \in 1 .. k + 1 /\ at[j] \in Nat /\ at[j + 1] \in Nat /\ at[k + 1] \in Nat
  /\ from[j] \in Nat /\ from[j + 1] \in Nat
  /\ from[j] < from[j + 1] /\ from[j + 1] <= Len(x) /\ at[j + 1] <= at[k + 1]
  /\ \E n \in Nat \ {0}, d \in Seq(Byte) :
       /\ d = Cells(x, from[j], from[j + 1] - from[j])
       /\ Len(d) = from[j + 1] - from[j] /\ Len(d) \in 1 .. BlockLen
       /\ at[j + 1] = at[j] + Lead(c) + n
       /\ BlockIs(c, s, at[j], d, n)

-----------------------------------------------------------------------------
(* What a stream is made of                                                 *)

LEMMA CellFacts ==
  /\ Byte \subseteq Cell /\ Zero \in Byte /\ Zero \in Cell
  /\ WordLen \in Nat \ {0} /\ BlockLen \in Nat \ {0} /\ Wild \in Nat \ {0}
  /\ BlockLen < Wild
  /\ \A n \in Nat : W(n) \in Cell /\ W(n) \notin Byte
  /\ \A d \in Seq(Byte) : CodedAs(d) \in Cell /\ CodedAs(d) \notin Byte
  /\ \A d \in Seq(Byte) : PieceOf(d) \in Cell /\ PieceOf(d) \notin Byte
  /\ EndCell \in Cell /\ EndCell \notin Byte
<1>1. /\ \A n \in Nat : W(n) \in Coded
      /\ \A d \in Seq(Byte) : CodedAs(d) \in Coded /\ PieceOf(d) \in Coded
      /\ EndCell \in Coded
  BY DEF W, CodedAs, PieceOf, EndCell, Coded
<1>2. Byte \cap Coded = {}
  BY CodecsAssumption
<1>3. /\ WordLen \in Nat \ {0} /\ BlockLen \in Nat \ {0} /\ Wild \in Nat \ {0}
      /\ BlockLen < Wild
  BY CodecsAssumption
<1> HIDE DEF W, CodedAs, PieceOf, EndCell
<1> QED
  BY <1>1, <1>2, <1>3, ByteAssumption DEF Cell

LEMMA MagicFacts ==
  ASSUME NEW c \in Framed, NEW m, Magic(c, m)
  PROVE  /\ m \in Cell /\ m \notin Byte /\ m.fmt \in {"lzop", "lz4"}
         /\ c = "lzo" => m.extra \in Nat
         /\ c # "lzo" => m = [fmt |-> "lz4"]
<1>1. m \in Coded /\ m.fmt \in {"lzop", "lz4"}
  BY DEF Magic, Coded
<1>2. c = "lzo" => m.extra \in Nat
  BY DEF Magic
<1>3. c # "lzo" => m = [fmt |-> "lz4"]
  BY DEF Magic
<1> QED
  BY <1>1, <1>2, <1>3, CodecsAssumption DEF Cell

\* A sequence put behind another one.
LEMMA Joined ==
  ASSUME NEW S, NEW w \in Seq(S), NEW t \in Seq(S)
  PROVE  /\ w \o t \in Seq(S) /\ Len(w \o t) = Len(w) + Len(t)
         /\ Kept(w \o t, 0, w) /\ Kept(w \o t, Len(w), t)
         /\ Len(w) \in Nat /\ Len(t) \in Nat /\ Len(w \o t) \in Nat
<1>1. /\ w \o t \in Seq(S) /\ Len(w \o t) = Len(w) + Len(t)
      /\ \A i \in 1 .. Len(w) + Len(t) :
           (w \o t)[i] = IF i <= Len(w) THEN w[i] ELSE t[i - Len(w)]
  BY ConcatProperties
<1>2. Len(w) \in Nat /\ Len(t) \in Nat
  BY LenProperties
<1> DEFINE f == w \o t
           n == Len(w)
           m == Len(t)
<1>3. \A i \in 1 .. n + m : f[i] = IF i <= n THEN w[i] ELSE t[i - n]
  BY <1>1
<1>4. n \in Nat /\ m \in Nat
  BY <1>2
<1> HIDE DEF f, n, m
<1>5. \A i \in 1 .. n : f[0 + i] = w[i]
  BY <1>3, <1>4
<1>6. \A i \in 1 .. m : f[n + i] = t[i]
  <2> TAKE i \in 1 .. m
  <2>1. n + i \in 1 .. n + m /\ ~(n + i <= n) /\ (n + i) - n = i
    BY <1>4
  <2> QED
    BY <1>3, <2>1
<1>7. Kept(w \o t, 0, w)
  BY <1>1, <1>2, <1>5 DEF Kept, Holds, f, n
<1>8. Kept(w \o t, Len(w), t)
  BY <1>1, <1>2, <1>6 DEF Kept, Holds, f, n, m
<1> QED
  BY <1>1, <1>2, <1>7, <1>8

LEMMA WordFacts ==
  ASSUME NEW n \in Nat
  PROVE  Word(n) \in Seq(Cell) /\ Len(Word(n)) = WordLen /\ Word(n)[1] = W(n)
<1> DEFINE a == <<W(n)>>
           z == Zeros(WordLen - 1)
<1>1. WordLen - 1 \in Nat /\ WordLen \in Nat \ {0}
  BY CellFacts
<1>2. z \in Seq(Cell) /\ Len(z) = WordLen - 1
  BY <1>1, ZerosFacts, CellFacts
<1>3. a \in Seq(Cell) /\ Len(a) = 1 /\ a[1] = W(n)
  <2>1. W(n) \in Cell
    BY CellFacts
  <2> HIDE DEF W
  <2> QED
    BY <2>1
<1>4. Word(n) = a \o z
  BY DEF Word, W
<1> HIDE DEF a, z
<1>5. /\ a \o z \in Seq(Cell) /\ Len(a \o z) = Len(a) + Len(z) /\ Kept(a \o z, 0, a)
  BY <1>2, <1>3, Joined
<1>6. (a \o z)[0 + 1] = a[1]
  BY <1>3, <1>5 DEF Kept, Holds
<1> QED
  BY <1>1, <1>2, <1>3, <1>4, <1>5, <1>6

LEMMA BlockFacts ==
  ASSUME NEW d \in Seq(Byte), NEW n \in Nat \ {0}
  PROVE  Block(d, n) \in Seq(Cell) /\ Len(Block(d, n)) = n /\ Block(d, n)[1] = CodedAs(d)
<1> DEFINE c == CodedAs(d)
<1>1. c \in Cell
  BY CellFacts
<1>2. Block(d, n) = [i \in 1 .. n |-> c]
  BY DEF Block, CodedAs
<1> HIDE DEF c
<1> QED
  BY <1>1, <1>2 DEF c

\* A word is read as its number.
LEMMA WordRead ==
  ASSUME NEW p \in Nat, NEW n \in Nat, stream[p + 1] = W(n)
  PROVE  WordAt(p) = n
<1>1. W(n) \notin Byte /\ W(n).fmt = "word" /\ W(n).n = n
  <2>1. W(n) \notin Byte
    BY CellFacts
  <2> QED
    BY <2>1 DEF W
<1> HIDE DEF W
<1> QED
  BY <1>1 DEF WordAt

\* What a framing says of a stream holds of every other one that agrees with it
\* as far as the framing goes.
LEMMA FramingMoves ==
  ASSUME NEW c \in Framed, NEW x \in Seq(Byte), NEW s, NEW f \in Seq(Cell),
         NEW k \in Nat, NEW at \in Places(k), NEW from \in [1 .. k + 1 -> 0 .. Len(x)],
         Framing(c, x, s, k, at, from), Len(f) > 0, f[1] = s[1],
         \A p \in Nat \ {0} :
           p <= at[k + 1] /\ p <= Len(f) => p <= Len(s) /\ f[p] = s[p]
  PROVE  Framing(c, x, f, k, at, from)
<1>1. ASSUME NEW p \in Nat \ {0}, NEW e, p <= at[k + 1], Seen(s, p, e)
      PROVE  Seen(f, p, e)
  BY <1>1 DEF Seen
<1>2. Front(c, f) = Front(c, s)
  BY DEF Front
<1>3. ASSUME NEW i \in 1 .. k
      PROVE  BlockIs(c, f, at[i], Cells(x, from[i], from[i + 1] - from[i]),
                     at[i + 1] - at[i] - Lead(c))
  <2>1. PICK d : d = Cells(x, from[i], from[i + 1] - from[i])
    OBVIOUS
  <2>2. PICK p : p = at[i]
    OBVIOUS
  <2>3. PICK n : n = at[i + 1] - at[i] - Lead(c)
    OBVIOUS
  <2>9. PICK q, e, l : q = at[i + 1] /\ e = at[k + 1] /\ l = Lead(c)
    OBVIOUS
  <2>4. BlockIs(c, s, p, d, n) /\ p + Lead(c) < at[i + 1] /\ at[i + 1] <= at[k + 1]
    <3>1. i + 1 \in 1 .. k + 1
      OBVIOUS
    <3> QED
      BY <2>1, <2>2, <2>3, <3>1 DEF Framing
  <2>5. /\ p \in Nat /\ WordLen \in Nat \ {0} /\ Lead(c) \in Nat /\ at[i + 1] \in Nat
        /\ at[k + 1] \in Nat
    <3>1. i \in 1 .. k + 1 /\ i + 1 \in 1 .. k + 1 /\ k + 1 \in 1 .. k + 1
      OBVIOUS
    <3> QED
      BY <2>2, <3>1, CellFacts DEF Places, Lead
  <2>10. p \in Nat /\ l \in Nat /\ q \in Nat /\ e \in Nat /\ p + l < q /\ q <= e
    BY <2>4, <2>5, <2>9
  <2>11. n = q - p - l
    BY <2>2, <2>3, <2>9
  <2>6. n \in Nat \ {0} /\ p + l + n = q /\ p + l + n <= e
    BY ONLY <2>10, <2>11
  <2>12. \A r \in Nat \ {0} : r <= e => r <= at[k + 1]
    BY <2>9
  <2> HIDE DEF Seen
  <2>7. CASE c = "lzo"
    <3>1. l = 3 * WordLen /\ WordLen \in Nat \ {0}
      BY <2>7, <2>9, CellFacts DEF Lead
    <3>2. /\ p + 1 \in Nat \ {0} /\ p + 1 <= e
          /\ p + WordLen + 1 \in Nat \ {0} /\ p + WordLen + 1 <= e
          /\ p + 3 * WordLen + 1 \in Nat \ {0} /\ p + 3 * WordLen + 1 <= e
          /\ \A m \in 1 .. n :
               p + 3 * WordLen + m \in Nat \ {0} /\ p + 3 * WordLen + m <= e
      BY ONLY <2>6, <2>10, <3>1
    <3>3. Seen(f, p + 1, W(Len(d))) /\ Seen(f, p + WordLen + 1, W(n))
      BY <1>1, <2>4, <2>7, <2>12, <3>2 DEF BlockIs
    <3>4. CASE n = Len(d) /\ \A m \in 1 .. n : Seen(s, p + 3 * WordLen + m, d[m])
      <4>1. \A m \in 1 .. n : Seen(f, p + 3 * WordLen + m, d[m])
        BY <1>1, <2>12, <3>2, <3>4
      <4> QED
        BY <2>1, <2>2, <2>3, <2>7, <3>3, <3>4, <4>1 DEF BlockIs
    <3>5. CASE Seen(s, p + 3 * WordLen + 1, CodedAs(d))
      <4>1. Seen(f, p + 3 * WordLen + 1, CodedAs(d))
        BY <1>1, <2>12, <3>2, <3>5
      <4> QED
        BY <2>1, <2>2, <2>3, <2>7, <3>3, <4>1 DEF BlockIs
    <3> QED
      BY <2>4, <2>7, <3>4, <3>5 DEF BlockIs
  <2>8. CASE c # "lzo"
    <3>1. l = WordLen /\ WordLen \in Nat \ {0}
      BY <2>8, <2>9, CellFacts DEF Lead
    <3>2. /\ p + 1 \in Nat \ {0} /\ p + 1 <= e
          /\ p + WordLen + 1 \in Nat \ {0} /\ p + WordLen + 1 <= e
      BY ONLY <2>6, <2>10, <3>1
    <3>3. Seen(f, p + 1, W(n)) /\ Seen(f, p + WordLen + 1, CodedAs(d))
      BY <1>1, <2>4, <2>8, <2>12, <3>2 DEF BlockIs
    <3> QED
      BY <2>1, <2>2, <2>3, <2>8, <3>3 DEF BlockIs
  <2> QED
    BY <2>7, <2>8
<1> QED
  BY <1>2, <1>3 DEF Framing

\* Behind a framing there is one more block, up to q and to.
OneMore(c, x, f, k, at, from, q, to) ==
  /\ c \in Framed /\ x \in Seq(Byte) /\ k \in Nat /\ at \in Places(k)
  /\ from \in Shares(x, k) /\ Framing(c, x, f, k, at, from)
  /\ q \in Nat /\ to \in 0 .. Len(x)
  /\ from[k + 1] < to /\ to <= from[k + 1] + BlockLen /\ at[k + 1] + Lead(c) < q
  /\ BlockIs(c, f, at[k + 1], Cells(x, from[k + 1], to - from[k + 1]),
             q - at[k + 1] - Lead(c))

LEMMA FramingGrows ==
  ASSUME NEW c, NEW x, NEW f, NEW k, NEW at, NEW from, NEW q, NEW to,
         OneMore(c, x, f, k, at, from, q, to)
  PROVE  \E at2 \in Places(k + 1), from2 \in Shares(x, k + 1) :
           /\ Framing(c, x, f, k + 1, at2, from2)
           /\ at2[(k + 1) + 1] = q /\ from2[(k + 1) + 1] = to
<1>0. /\ c \in Framed /\ x \in Seq(Byte) /\ k \in Nat /\ at \in Places(k)
      /\ from \in [1 .. k + 1 -> 0 .. Len(x)] /\ Framing(c, x, f, k, at, from)
      /\ q \in Nat /\ to \in 0 .. Len(x)
      /\ from[k + 1] < to /\ to <= from[k + 1] + BlockLen /\ at[k + 1] + Lead(c) < q
      /\ BlockIs(c, f, at[k + 1], Cells(x, from[k + 1], to - from[k + 1]),
                 q - at[k + 1] - Lead(c))
  BY DEF OneMore, Shares
<1> USE <1>0
<1>1. PICK at2 : at2 = [i \in 1 .. (k + 1) + 1 |-> IF i <= k + 1 THEN at[i] ELSE q]
  OBVIOUS
<1>2. PICK from2 : from2 = [i \in 1 .. (k + 1) + 1 |-> IF i <= k + 1 THEN from[i] ELSE to]
  OBVIOUS
<1>3. at2 \in Places(k + 1) /\ at2[(k + 1) + 1] = q /\ \A i \in 1 .. k + 1 : at2[i] = at[i]
  BY <1>1 DEF Places
<1>4. /\ from2 \in [1 .. (k + 1) + 1 -> 0 .. Len(x)] /\ from2[(k + 1) + 1] = to
      /\ \A i \in 1 .. k + 1 : from2[i] = from[i]
  BY <1>2
<1>5. /\ 1 \in 1 .. k + 1 /\ k + 1 \in 1 .. k + 1 /\ (k + 1) + 1 \notin 1 .. k + 1
      /\ \A i \in 1 .. k : i \in 1 .. k + 1 /\ i + 1 \in 1 .. k + 1
      /\ \A i \in 1 .. k + 1 : i \in 1 .. k \/ i = k + 1
      /\ \A i \in 1 .. (k + 1) + 1 : i \in 1 .. k + 1 \/ i = (k + 1) + 1
  OBVIOUS
<1>6. at2[1] = Front(c, f) /\ from2[1] = 0
  BY <1>3, <1>4, <1>5 DEF Framing
<1>7. ASSUME NEW i \in 1 .. (k + 1) + 1 PROVE at2[i] <= at2[(k + 1) + 1]
  <2>1. at[k + 1] \in Nat /\ at[k + 1] < q
    <3>1. PICK e, l : e = at[k + 1] /\ l = Lead(c)
      OBVIOUS
    <3>2. e \in Nat /\ l \in Nat
      BY <1>5, <3>1, CellFacts DEF Places, Lead
    <3>3. e + l < q /\ q \in Nat
      BY ONLY <1>0, <3>1
    <3> QED
      BY ONLY <3>1, <3>2, <3>3
  <2>2. CASE i \in 1 .. k + 1
    <3>1. at2[i] = at[i] /\ at[i] <= at[k + 1] /\ at[i] \in Nat
      BY <1>3, <2>2 DEF Framing, Places
    <3> QED
      BY <1>3, <2>1, <3>1
  <2>3. CASE i = (k + 1) + 1
    BY <1>3, <2>3
  <2> QED
    BY <1>5, <2>2, <2>3
<1>8. ASSUME NEW i \in 1 .. k + 1
      PROVE  /\ from2[i] < from2[i + 1] /\ from2[i + 1] <= from2[i] + BlockLen
             /\ at2[i] + Lead(c) < at2[i + 1]
             /\ BlockIs(c, f, at2[i], Cells(x, from2[i], from2[i + 1] - from2[i]),
                        at2[i + 1] - at2[i] - Lead(c))
  <2>1. CASE i \in 1 .. k
    <3>1. /\ at2[i] = at[i] /\ at2[i + 1] = at[i + 1]
          /\ from2[i] = from[i] /\ from2[i + 1] = from[i + 1]
      BY <1>3, <1>4, <1>5, <2>1
    <3> QED
      BY <2>1, <3>1 DEF Framing
  <2>2. CASE i = k + 1
    <3>1. at2[i] = at[k + 1] /\ at2[i + 1] = q /\ from2[i] = from[k + 1] /\ from2[i + 1] = to
      BY <1>3, <1>4, <1>5, <2>2
    <3> QED
      BY <3>1
  <2> QED
    BY <1>5, <2>1, <2>2
<1>9. Framing(c, x, f, k + 1, at2, from2)
  <2>1. f \in Seq(Cell) /\ Len(f) > 0 /\ Magic(c, f[1])
    BY DEF Framing
  <2> HIDE DEF Front, Magic, Lead, BlockIs
  <2> QED
    BY <1>6, <1>7, <1>8, <2>1 DEF Framing
<1> QED
  BY <1>3, <1>4, <1>9 DEF Shares

\* A block as the encoders write it is one as BlockIs describes it.
BlockPut(c, s, f, d, b) ==
  /\ c \in Framed /\ s \in Seq(Cell) /\ d \in Seq(Byte) /\ b \in Seq(Cell)
  /\ Len(d) > 0 /\ Len(b) > 0
  /\ (c = "lzo" /\ b = d) \/ b[1] = CodedAs(d)
  /\ f = s \o (IF c = "lzo" THEN Word(Len(d)) ELSE <<>>) \o Word(Len(b))
           \o (IF c = "lzo" THEN Word(0) ELSE <<>>) \o b

LEMMA BlockWritten ==
  ASSUME NEW c, NEW s, NEW f, NEW d, NEW b, BlockPut(c, s, f, d, b)
  PROVE  /\ f \in Seq(Cell) /\ Kept(f, 0, s) /\ Len(s) \in Nat /\ Len(b) \in Nat
         /\ Len(f) = Len(s) + Lead(c) + Len(b)
         /\ BlockIs(c, f, Len(s), d, Len(b))
<1>0. /\ c \in Framed /\ s \in Seq(Cell) /\ d \in Seq(Byte) /\ b \in Seq(Cell)
      /\ Len(d) > 0 /\ Len(b) > 0 /\ ((c = "lzo" /\ b = d) \/ b[1] = CodedAs(d))
  BY DEF BlockPut
<1>15. f = s \o (IF c = "lzo" THEN Word(Len(d)) ELSE <<>>) \o Word(Len(b))
             \o (IF c = "lzo" THEN Word(0) ELSE <<>>) \o b
  BY DEF BlockPut
<1> USE <1>0
<1>1. PICK u, v, w : /\ u = (IF c = "lzo" THEN Word(Len(d)) ELSE <<>>) /\ v = Word(Len(b))
                     /\ w = (IF c = "lzo" THEN Word(0) ELSE <<>>)
  OBVIOUS
<1>2. Len(d) \in Nat /\ Len(b) \in Nat /\ Len(s) \in Nat
  BY LenProperties
<1>3. /\ Word(Len(d)) \in Seq(Cell) /\ Len(Word(Len(d))) = WordLen
      /\ Word(Len(d))[1] = W(Len(d))
  BY <1>2, WordFacts
<1>4. v \in Seq(Cell) /\ Len(v) = WordLen /\ v[1] = W(Len(b))
  BY <1>1, <1>2, WordFacts
<1>5. Word(0) \in Seq(Cell) /\ Len(Word(0)) = WordLen
  BY WordFacts
<1>6. <<>> \in Seq(Cell) /\ Len(<<>>) = 0
  OBVIOUS
<1>7. /\ u \in Seq(Cell) /\ w \in Seq(Cell)
      /\ Len(u) = (IF c = "lzo" THEN WordLen ELSE 0)
      /\ Len(w) = (IF c = "lzo" THEN WordLen ELSE 0)
  BY <1>1, <1>3, <1>5, <1>6
<1>8. f = s \o u \o v \o w \o b
  BY <1>1, <1>15
<1>9. /\ f \in Seq(Cell) /\ Len(f) = Len(s) + Len(u) + Len(v) + Len(w) + Len(b)
      /\ Kept(f, 0, s) /\ Kept(f, Len(s), u) /\ Kept(f, Len(s) + Len(u), v)
      /\ Kept(f, Len(s) + Len(u) + Len(v) + Len(w), b)
  <2>1. PICK f1 : f1 = s \o u
    OBVIOUS
  <2>2. PICK f2 : f2 = f1 \o v
    OBVIOUS
  <2>3. PICK f3 : f3 = f2 \o w
    OBVIOUS
  <2>4. f = f3 \o b
    BY <1>8, <2>1, <2>2, <2>3
  <2>5. /\ f1 \in Seq(Cell) /\ Len(f1) = Len(s) + Len(u) /\ Kept(f1, 0, s)
        /\ Kept(f1, Len(s), u) /\ Len(s) \in Nat /\ Len(u) \in Nat /\ Len(f1) \in Nat
    BY <1>7, <2>1, Joined
  <2>6. /\ f2 \in Seq(Cell) /\ Len(f2) = Len(f1) + Len(v) /\ Kept(f2, 0, f1)
        /\ Kept(f2, Len(f1), v) /\ Len(v) \in Nat /\ Len(f2) \in Nat
    BY <1>4, <2>2, <2>5, Joined
  <2>7. /\ f3 \in Seq(Cell) /\ Len(f3) = Len(f2) + Len(w) /\ Kept(f3, 0, f2)
        /\ Len(w) \in Nat /\ Len(f3) \in Nat
    BY <1>7, <2>3, <2>6, Joined
  <2>8. /\ f \in Seq(Cell) /\ Len(f) = Len(f3) + Len(b) /\ Kept(f, 0, f3)
        /\ Kept(f, Len(f3), b) /\ Len(b) \in Nat /\ Len(f) \in Nat
    <3>1. b \in Seq(Cell)
      OBVIOUS
    <3> QED
      BY ONLY <2>4, <2>7, <3>1, Joined
  <2>9. 0 \in Nat
    OBVIOUS
  <2>10. Kept(f, 0, f2)
    BY ONLY <2>6, <2>7, <2>8, <2>9, KeptOn
  <2>11. Kept(f, Len(f1), v)
    BY ONLY <2>5, <2>6, <2>8, <2>10, KeptOn
  <2>12. Kept(f, 0, f1)
    BY ONLY <2>5, <2>6, <2>8, <2>9, <2>10, KeptOn
  <2>13. Kept(f, Len(s), u) /\ Kept(f, 0, s)
    BY ONLY <2>5, <2>8, <2>9, <2>12, KeptOn
  <2>14. Len(f3) = Len(s) + Len(u) + Len(v) + Len(w)
    BY <2>5, <2>6, <2>7
  <2>15. Len(f) = Len(s) + Len(u) + Len(v) + Len(w) + Len(b)
    BY <2>8, <2>14
  <2> HIDE DEF Kept
  <2> QED
    BY <2>5, <2>8, <2>11, <2>13, <2>14, <2>15
<1>10. WordLen \in Nat \ {0}
  BY CellFacts
<1>11. Len(s) + Len(u) + Len(v) + Len(w) = Len(s) + Lead(c)
  BY <1>2, <1>4, <1>7, <1>10 DEF Lead
<1>12. Len(f) = Len(s) + Lead(c) + Len(b)
  BY <1>9, <1>11
<1>13. Kept(f, Len(s) + Lead(c), b)
  <2>1. PICK p : p = Len(s) + Len(u) + Len(v) + Len(w)
    OBVIOUS
  <2>2. Kept(f, p, b) /\ p = Len(s) + Lead(c)
    BY <1>9, <1>11, <2>1
  <2> HIDE DEF Lead
  <2> QED
    BY <2>2
<1>14. BlockIs(c, f, Len(s), d, Len(b))
  <2> HIDE DEF W, CodedAs
  <2>1. CASE c = "lzo"
    <3>1. f[Len(s) + 1] = W(Len(d))
      <4>1. u = Word(Len(d)) /\ 1 \in 1 .. Len(u)
        BY <1>1, <1>7, <1>10, <2>1
      <4> QED
        BY <1>3, <1>9, <4>1 DEF Kept, Holds
    <3>2. f[Len(s) + WordLen + 1] = W(Len(b))
      <4>1. 1 \in 1 .. Len(v) /\ Len(s) + Len(u) = Len(s) + WordLen
        BY <1>4, <1>7, <1>10, <2>1
      <4>2. f[Len(s) + Len(u) + 1] = v[1]
        BY <1>9, <4>1 DEF Kept, Holds
      <4> QED
        BY <1>4, <4>1, <4>2
    <3>3. Lead(c) = 3 * WordLen
      BY <2>1 DEF Lead
    <3>4. \A i \in 1 .. Len(b) : f[Len(s) + 3 * WordLen + i] = b[i]
      BY <1>13, <3>3 DEF Kept, Holds
    <3>5. CASE b = d
      BY <2>1, <3>1, <3>2, <3>4, <3>5 DEF BlockIs, Seen
    <3>6. CASE b[1] = CodedAs(d)
      <4>1. f[Len(s) + 3 * WordLen + 1] = CodedAs(d)
        <5>1. 1 \in 1 .. Len(b)
          BY <1>2
        <5>2. f[Len(s) + 3 * WordLen + 1] = b[1]
          BY <3>4, <5>1
        <5> QED
          BY <3>6, <5>2
      <4> QED
        BY <2>1, <3>1, <3>2, <4>1 DEF BlockIs, Seen
    <3> QED
      BY <3>5, <3>6
  <2>2. CASE c # "lzo"
    <3>1. f[Len(s) + 1] = W(Len(b))
      <4>1. 1 \in 1 .. Len(v) /\ Len(s) + Len(u) = Len(s)
        BY <1>2, <1>4, <1>7, <1>10, <2>2
      <4> QED
        BY <1>4, <1>9, <4>1 DEF Kept, Holds
    <3>2. f[Len(s) + WordLen + 1] = CodedAs(d)
      <4>1. Lead(c) = WordLen /\ 1 \in 1 .. Len(b) /\ b[1] = CodedAs(d)
        BY <1>2, <2>2 DEF Lead
      <4> QED
        BY <1>13, <4>1 DEF Kept, Holds
    <3> QED
      BY <2>2, <3>1, <3>2 DEF BlockIs, Seen
  <2> QED
    BY <2>1, <2>2
<1> QED
  BY <1>2, <1>9, <1>12, <1>14

-----------------------------------------------------------------------------
(* Beginnings of what was compressed                                        *)

LEMMA CellsOf ==
  ASSUME NEW x \in Seq(Byte), NEW a \in Nat, NEW n \in Nat, a + n <= Len(x)
  PROVE  /\ Cells(x, a, n) \in Seq(Byte) /\ Len(Cells(x, a, n)) = n
         /\ \A i \in 1 .. n : Cells(x, a, n)[i] = x[a + i]
<1>1. Len(Cells(x, a, n)) = n /\ \A i \in 1 .. n : Cells(x, a, n)[i] = x[a + i]
  BY CellsAt
<1>2. IsSeq(Cells(x, a, n))
  BY CellsAreSeq
<1>3. \A i \in 1 .. Len(x) : x[i] \in Byte
  BY ElementOfSeq
<1>4. Len(x) \in Nat
  BY LenProperties
<1>5. \A i \in 1 .. n : a + i \in 1 .. Len(x)
  BY <1>4
<1> DEFINE d == Cells(x, a, n)
<1>6. \A i \in 1 .. n : d[i] = x[a + i]
  BY <1>1
<1>7. IsSeq(d) /\ Len(d) = n
  BY <1>1, <1>2
<1> HIDE DEF d
<1>8. \A i \in 1 .. Len(d) : d[i] \in Byte
  BY <1>3, <1>5, <1>6, <1>7
<1>9. d \in Seq(Byte)
  <2> DEFINE S == {d[i] : i \in 1 .. Len(d)}
  <2>1. d \in Seq(S)
    BY <1>7 DEF IsSeq
  <2> HIDE DEF S
  <2> QED
    BY <1>8, <2>1, InSeq
<1> QED
  BY <1>1, <1>9 DEF d

LEMMA CellsWhole ==
  ASSUME NEW x \in Seq(Byte)
  PROVE  /\ Cells(x, 0, Len(x)) = x /\ Cells(x, 0, 0) = <<>> /\ Len(<<>>) = 0
         /\ Len(x) \in Nat /\ 0 \in 0 .. Len(x) /\ <<>> \in Seq(Byte)
<1>1. Len(x) \in Nat /\ 0 \in Nat /\ 0 <= Len(x) /\ 0 + 0 <= Len(x)
  BY LenProperties
<1>2. \A i \in 1 .. Len(x) : x[0 + i] = x[i]
  BY <1>1
<1>3. Cells(x, 0, Len(x)) = x
  BY <1>1, <1>2, CellsFound
<1>4. <<>> \in Seq(Byte) /\ Len(<<>>) = 0
  OBVIOUS
<1> DEFINE e == Cells(x, 0, 0)
<1>5. e \in Seq(Byte) /\ Len(e) = 0
  BY <1>1, CellsOf
<1> HIDE DEF e
<1>6. e = <<>>
  BY <1>5, EmptySeq
<1> QED
  BY <1>1, <1>3, <1>4, <1>6 DEF e

LEMMA CellsJoined ==
  ASSUME NEW x \in Seq(Byte), NEW a \in Nat, NEW b \in Nat, a <= b, b <= Len(x)
  PROVE  Cells(x, 0, a) \o Cells(x, a, b - a) = Cells(x, 0, b)
<1> DEFINE u == Cells(x, 0, a)
           v == Cells(x, a, b - a)
           w == Cells(x, 0, b)
<1>1. b - a \in Nat /\ a + (b - a) <= Len(x) /\ 0 + a <= Len(x) /\ 0 + b <= Len(x) /\ 0 \in Nat
  BY LenProperties
<1>2. u \in Seq(Byte) /\ Len(u) = a /\ \A i \in 1 .. a : u[i] = x[0 + i]
  BY <1>1, CellsOf
<1>3. v \in Seq(Byte) /\ Len(v) = b - a /\ \A i \in 1 .. b - a : v[i] = x[a + i]
  <2>1. a \in Nat /\ b - a \in Nat /\ a + (b - a) <= Len(x)
    BY <1>1
  <2> QED
    BY <2>1, CellsOf
<1>4. w \in Seq(Byte) /\ Len(w) = b /\ \A i \in 1 .. b : w[i] = x[0 + i]
  <2>1. 0 \in Nat /\ b \in Nat /\ 0 + b <= Len(x)
    BY <1>1
  <2> QED
    BY <2>1, CellsOf
<1> HIDE DEF u, v, w
<1>5. /\ u \o v \in Seq(Byte) /\ Len(u \o v) = Len(u) + Len(v)
      /\ \A i \in 1 .. Len(u) + Len(v) :
           (u \o v)[i] = IF i <= Len(u) THEN u[i] ELSE v[i - Len(u)]
  <2>1. u \in Seq(Byte) /\ v \in Seq(Byte)
    BY <1>2, <1>3
  <2> QED
    BY ONLY <2>1, ConcatProperties
<1>6. PICK c : c = u \o v
  OBVIOUS
<1>7. c \in Seq(Byte) /\ Len(c) = b
  BY <1>2, <1>3, <1>5, <1>6
<1>8. \A i \in 1 .. b : c[i] = w[i]
  <2> TAKE i \in 1 .. b
  <2>1. c[i] = IF i <= a THEN u[i] ELSE v[i - a]
    BY <1>2, <1>3, <1>5, <1>6
  <2>2. CASE i <= a
    BY <1>2, <1>4, <2>1, <2>2
  <2>3. CASE ~(i <= a)
    <3>1. i - a \in 1 .. b - a /\ a + (i - a) = i /\ 0 + i = i
      BY <2>3
    <3>2. v[i - a] = x[a + (i - a)]
      BY <1>3, <3>1
    <3> QED
      BY <1>4, <2>1, <2>3, <3>1, <3>2
  <2> QED
    BY <2>2, <2>3
<1>9. c = w
  BY <1>4, <1>7, <1>8, SeqEqual
<1> QED
  BY <1>6, <1>9 DEF u, v, w

\* What holds of a beginning.
LEMMA Beginning ==
  ASSUME NEW x \in Seq(Byte), NEW m \in 0 .. Len(x), NEW o, o = Cells(x, 0, m)
  PROVE  Len(o) = m /\ Len(o) <= Len(x) /\ o = Cells(x, 0, Len(o)) /\ o \in Seq(Byte)
<1>1. m \in Nat /\ 0 + m <= Len(x) /\ 0 \in Nat
  BY CellsWhole
<1> QED
  BY <1>1, CellsOf

\* A beginning of a beginning.
LEMMA BeginningOf ==
  ASSUME NEW x \in Seq(Byte), NEW m \in 0 .. Len(x), NEW n \in 0 .. m
  PROVE  SubSeq(Cells(x, 0, m), 1, n) = Cells(x, 0, n)
<1> DEFINE c == Cells(x, 0, m)
           d == Cells(x, 0, n)
           e == Cells(c, 0, n)
<1>1. /\ m \in Nat /\ n \in Nat /\ 0 + m <= Len(x) /\ 0 + n <= Len(x) /\ 0 \in Nat /\ n <= m
      /\ \A i \in 1 .. n : 0 + i = i /\ i \in 1 .. m
  BY CellsWhole
<1>2. c \in Seq(Byte) /\ Len(c) = m /\ \A i \in 1 .. m : c[i] = x[0 + i]
  BY <1>1, CellsOf
<1>3. d \in Seq(Byte) /\ Len(d) = n /\ \A i \in 1 .. n : d[i] = x[0 + i]
  BY <1>1, CellsOf
<1>4. SubSeq(c, 1, n) = e
  BY <1>1 DEF Cells
<1> HIDE DEF c, d
<1>5. 0 + n <= Len(c)
  BY <1>1, <1>2
<1>6. e \in Seq(Byte) /\ Len(e) = n /\ \A i \in 1 .. n : e[i] = c[0 + i]
  BY <1>1, <1>2, <1>5, CellsOf
<1> HIDE DEF e
<1>7. \A i \in 1 .. n : e[i] = d[i]
  BY <1>1, <1>2, <1>3, <1>6
<1>8. e = d
  BY <1>3, <1>6, <1>7, SeqEqual
<1> QED
  BY <1>4, <1>8 DEF c, d

-----------------------------------------------------------------------------
(* What a library makes of its stream                                       *)

\* The pieces that are there, and their data.
LEMMA LibraryReads ==
  ASSUME NEW x \in Seq(Byte), NEW n \in Nat, NEW size \in [1 .. n -> 0 .. Len(x)],
         NEW how, Packed(x, stream, n, size, how)
  PROVE  /\ Complete <=> how # "cut"
         /\ \E m \in 0 .. Len(x) : Have = Cells(x, 0, m) /\ (Complete => m = Len(x))
         /\ Pieces \in Nat /\ (Complete => Pieces = n)
<1> DEFINE other == {i \in DOMAIN stream : stream[i] \in Byte \/ stream[i].fmt # "piece"}
<1>1. /\ Len(stream) \in Nat \ {0} /\ DOMAIN stream = 1 .. Len(stream)
  BY LenProperties DEF Packed
<1>0. how = "cut" <=> Len(stream) < n + 1
  BY DEF Packed
<1>2. ASSUME NEW i \in 1 .. n, i <= Len(stream)
      PROVE  /\ i \notin other /\ stream[i].data = Cells(x, 0, size[i])
             /\ size[i] \in 0 .. Len(x)
  <2> DEFINE d == Cells(x, 0, size[i])
  <2>1. size[i] \in 0 .. Len(x)
    OBVIOUS
  <2>2. size[i] \in Nat /\ 0 + size[i] <= Len(x) /\ 0 \in Nat
    BY <2>1, CellsWhole
  <2>3. d \in Seq(Byte)
    BY <2>2, CellsOf
  <2>4. stream[i] = PieceOf(d)
    BY <1>2 DEF Packed, Seen
  <2> HIDE DEF d
  <2>5. PieceOf(d) \notin Byte
    BY <2>3, CellFacts
  <2>6. PieceOf(d).fmt = "piece" /\ PieceOf(d).data = d
    BY DEF PieceOf
  <2> QED
    BY <2>1, <2>4, <2>5, <2>6 DEF d
<1>3. CASE n + 1 <= Len(stream)
  <2>1. n + 1 \in other
    <3>1. stream[n + 1] = EndCell
      BY <1>3 DEF Packed, Seen
    <3>2. EndCell.fmt = "end"
      BY DEF EndCell
    <3>3. n + 1 \in DOMAIN stream
      BY <1>1, <1>3
    <3> QED
      BY <3>1, <3>2, <3>3
  <2>2. \A i \in other : n + 1 <= i
    <3> TAKE i \in other
    <3>1. i \in 1 .. Len(stream)
      BY <1>1
    <3>2. i \notin 1 .. n
      BY <1>2, <3>1
    <3> QED
      BY <3>1, <3>2
  <2>3. \A i \in other : i \in Int
    BY <1>1
  <2> HIDE DEF other
  <2>4. (CHOOSE i \in other : \A j \in other : i <= j) = n + 1
    <3> DEFINE P(i) == i \in other /\ \A j \in other : i <= j
    <3>1. P(n + 1)
      BY <2>1, <2>2
    <3>2. \A i : P(i) => i = n + 1
      BY <2>1, <2>2, <2>3
    <3>3. (CHOOSE i : P(i)) = n + 1
      <4> HIDE DEF P
      <4> QED
        BY <3>1, <3>2
    <3> QED
      BY <3>3
  <2>5. Pieces = n
    <3>1. Pieces = IF other = {} THEN Len(stream)
                   ELSE (CHOOSE i \in other : \A j \in other : i <= j) - 1
      BY DEF Pieces, other
    <3>2. Pieces = (n + 1) - 1
      BY <2>1, <2>4, <3>1, Zenon
    <3> QED
      BY <3>2
  <2>6. Complete /\ how # "cut"
    <3>1. n < Len(stream)
      BY <1>1, <1>3
    <3>2. how # "cut"
      BY <1>0, <1>1, <1>3
    <3> QED
      BY <2>5, <3>1, <3>2 DEF Complete
  <2>7. Have = Cells(x, 0, Len(x))
    <3>1. CASE n = 0
      BY <2>5, <3>1, CellsWhole DEF Have, Packed
    <3>2. CASE n # 0
      <4>1. n \in 1 .. n /\ n <= Len(stream)
        BY <1>1, <1>3, <3>2
      <4>2. stream[n].data = Cells(x, 0, size[n]) /\ size[n] = Len(x)
        BY <1>2, <3>2, <4>1 DEF Packed
      <4> QED
        BY <2>5, <3>2, <4>2 DEF Have
    <3> QED
      BY <3>1, <3>2
  <2>8. Len(x) \in 0 .. Len(x)
    BY CellsWhole
  <2> QED
    BY <2>5, <2>6, <2>7, <2>8
<1>4. CASE ~(n + 1 <= Len(stream))
  <2>1. Len(stream) \in 1 .. n
    BY <1>1, <1>4
  <2>2. other = {}
    <3>1. \A i \in DOMAIN stream : i \in 1 .. n /\ i <= Len(stream)
      BY <1>1, <2>1
    <3> QED
      BY <1>2, <3>1
  <2>3. Pieces = Len(stream)
    BY <2>2 DEF Pieces
  <2>4. ~Complete /\ how = "cut"
    <3>1. ~(Len(stream) < Len(stream))
      BY <1>1
    <3>2. how = "cut"
      BY <1>0, <1>1, <1>4
    <3> QED
      BY <2>3, <3>1, <3>2 DEF Complete
  <2>5. Have = stream[Len(stream)].data
    BY <1>1, <2>3 DEF Have
  <2>6. /\ stream[Len(stream)].data = Cells(x, 0, size[Len(stream)])
        /\ size[Len(stream)] \in 0 .. Len(x)
    BY <1>1, <1>2, <2>1
  <2> QED
    BY <1>1, <2>3, <2>4, <2>5, <2>6
<1> QED
  BY <1>3, <1>4

-----------------------------------------------------------------------------
(* What the decoder finds                                                   *)

\* The block at the decoder's position.
LEMMA AtBlock ==
  ASSUME NEW c, NEW x, NEW s, NEW k, NEW at, NEW from, NEW j,
         NotLast(c, x, s, k, at, from, j)
  PROVE  BlockThere(c, x, s, k, at, from, j)
<1>0. /\ c \in Framed /\ x \in Seq(Byte) /\ k \in Nat /\ at \in Places(k)
      /\ from \in [1 .. k + 1 -> 0 .. Len(x)] /\ Framing(c, x, s, k, at, from)
      /\ j \in 1 .. k + 1 /\ j # k + 1
  BY DEF NotLast, Shares
<1>1. j \in 1 .. k /\ j + 1 \in 1 .. k + 1 /\ k + 1 \in 1 .. k + 1
  BY <1>0
<1>2. PICK p, q, e, a, b : /\ p = at[j] /\ q = at[j + 1] /\ e = at[k + 1]
                           /\ a = from[j] /\ b = from[j + 1]
  OBVIOUS
<1>3. p \in Nat /\ q \in Nat /\ e \in Nat /\ a \in 0 .. Len(x) /\ b \in 0 .. Len(x)
  BY <1>0, <1>1, <1>2 DEF Places
<1>4. q <= e /\ a < b /\ b <= a + BlockLen /\ p + Lead(c) < q
  BY <1>0, <1>1, <1>2 DEF Framing
<1>5. BlockIs(c, s, p, Cells(x, a, b - a), q - p - Lead(c))
  <2> HIDE DEF BlockIs, Lead
  <2> QED
    BY <1>0, <1>1, <1>2 DEF Framing
<1>6. Len(x) \in Nat /\ WordLen \in Nat /\ Lead(c) \in Nat /\ BlockLen \in Nat
  BY <1>0, CellsWhole, CellFacts DEF Lead
<1>7. /\ a \in Nat /\ b \in Nat /\ b - a \in 1 .. BlockLen /\ a + (b - a) <= Len(x) /\ b <= Len(x)
      /\ b - a \in Nat
  BY <1>3, <1>4, <1>6
<1>8. PICK d : d = Cells(x, a, b - a)
  OBVIOUS
<1>9. d \in Seq(Byte) /\ Len(d) = b - a
  BY <1>0, <1>7, <1>8, CellsOf
<1>10. PICK n : n = q - p - Lead(c)
  OBVIOUS
<1>11. n \in Nat \ {0} /\ q = p + Lead(c) + n
  BY <1>3, <1>4, <1>6, <1>10
<1>12. BlockIs(c, s, p, d, n)
  <2> HIDE DEF BlockIs, Lead
  <2> QED
    BY <1>5, <1>8, <1>10
<1> HIDE DEF BlockIs, Lead
<1>13. \E n1 \in Nat \ {0}, d1 \in Seq(Byte) :
         /\ d1 = Cells(x, a, b - a) /\ Len(d1) = b - a /\ Len(d1) \in 1 .. BlockLen
         /\ q = p + Lead(c) + n1 /\ BlockIs(c, s, p, d1, n1)
  <2>1. Len(d) \in 1 .. BlockLen
    BY <1>7, <1>9
  <2> QED
    BY <1>8, <1>9, <1>11, <1>12, <2>1
<1>14. /\ at[j] \in Nat /\ at[j + 1] \in Nat /\ at[k + 1] \in Nat
       /\ from[j] \in Nat /\ from[j + 1] \in Nat
       /\ from[j] < from[j + 1] /\ from[j + 1] <= Len(x) /\ at[j + 1] <= at[k + 1]
  BY <1>2, <1>3, <1>4, <1>7
<1> QED
  BY <1>1, <1>2, <1>13, <1>14 DEF BlockThere

-----------------------------------------------------------------------------
(* Encoding                                                                 *)

\* Until something is decoded there is no output to speak of.
LEMMA NothingYet ==
  ASSUME TypeOK', stage' \notin {"decode", "done"}, out' = <<>>, result' = "none"
  PROVE  (CapInv /\ GrowInv /\ NothingForeign /\ PartOnlyIfLenient /\ RefusedForCause)'
<1>1. PICK x : x = content'
  OBVIOUS
<1>2. x \in Seq(Byte)
  BY <1>1 DEF TypeOK
<1>3. Len(<<>>) = 0 /\ Cells(x, 0, 0) = <<>> /\ Len(x) \in Nat
  BY <1>2, CellsWhole
<1>4. Len(out') <= Len(content') /\ out' = Cells(content', 0, Len(out'))
  BY <1>1, <1>3
<1> QED
  BY <1>4 DEF CapInv, GrowInv, NothingForeign, PartOnlyIfLenient, RefusedForCause

LEMMA InitOK ==
  ASSUME Init
  PROVE  IInv
<1>1. <<>> \in Seq(Byte) /\ <<>> \in Seq(Cell) /\ Len(<<>>) = 0 /\ Cells(<<>>, 0, 0) = <<>>
  <2>1. PICK e : e = <<>>
    OBVIOUS
  <2>2. e \in Seq(Byte) /\ e \in Seq(Cell) /\ Len(e) = 0
    BY ONLY <2>1
  <2>3. Cells(e, 0, 0) = <<>>
    BY <2>2, CellsWhole
  <2> QED
    BY <2>1, <2>2, <2>3
<1>2. TypeOK
  BY <1>1 DEF Init, TypeOK, Codec, Growing, Framed
<1>3. EarlyInv /\ StreamInv /\ CapInv /\ GrowInv
  BY <1>1 DEF Init, EarlyInv, StreamInv, CapInv, GrowInv
<1>4. NothingForeign /\ PartOnlyIfLenient /\ RefusedForCause
  BY <1>1 DEF Init, NothingForeign, PartOnlyIfLenient, RefusedForCause
<1> QED
  BY <1>2, <1>3, <1>4 DEF IInv

\* The header.
LEMMA HeaderFacts ==
  ASSUME NEW c \in Framed, NEW extra \in {0, 1}, NEW f,
         f = IF c = "lzo" THEN <<[fmt |-> "lzop", extra |-> extra]>> \o Zeros(extra)
             ELSE <<[fmt |-> "lz4"]>>
  PROVE  f \in Seq(Cell) /\ Len(f) \in Nat \ {0} /\ Magic(c, f[1]) /\ Front(c, f) = Len(f)
<1>1. CASE c = "lzo"
  <2>1. PICK m : m = [fmt |-> "lzop", extra |-> extra]
    OBVIOUS
  <2>2. Magic(c, m) /\ m.extra = extra /\ extra \in Nat
    BY <1>1, <2>1 DEF Magic
  <2>3. m \in Cell
    BY <2>2, MagicFacts
  <2>4. PICK a, z : a = <<m>> /\ z = Zeros(extra)
    OBVIOUS
  <2>5. a \in Seq(Cell) /\ Len(a) = 1 /\ a[1] = m
    BY <2>3, <2>4
  <2>6. z \in Seq(Cell) /\ Len(z) = extra
    BY <2>2, <2>4, ZerosFacts, CellFacts
  <2>7. f = a \o z
    BY <1>1, <2>1, <2>4
  <2>8. f \in Seq(Cell) /\ Len(f) = Len(a) + Len(z) /\ Kept(f, 0, a)
    BY <2>5, <2>6, <2>7, Joined
  <2>9. f[1] = m
    <3>1. f[0 + 1] = a[1]
      BY <2>5, <2>8 DEF Kept, Holds
    <3> QED
      BY <2>5, <3>1
  <2>10. Len(f) = 1 + extra
    BY <2>5, <2>6, <2>8
  <2>11. Front(c, f) = 1 + extra
    BY <1>1, <2>2, <2>9 DEF Front
  <2> QED
    BY <2>2, <2>8, <2>9, <2>10, <2>11
<1>2. CASE c # "lzo"
  <2>1. PICK m : m = [fmt |-> "lz4"]
    OBVIOUS
  <2>2. Magic(c, m)
    BY <1>2, <2>1 DEF Magic
  <2>3. m \in Cell
    BY <2>2, MagicFacts
  <2>4. f = <<m>>
    BY <1>2, <2>1
  <2>5. f \in Seq(Cell) /\ Len(f) = 1 /\ f[1] = m
    BY ONLY <2>3, <2>4
  <2> QED
    BY <1>2, <2>2, <2>5 DEF Front
<1> QED
  BY <1>1, <1>2

LEMMA BeginOK ==
  ASSUME IInv, Begin
  PROVE  IInv'
<1>1. PICK extra \in {0, 1} :
        /\ extra = 1 => codec' = "lzo" /\ maker' = "vendor"
        /\ stream' = IF codec' = "lzo"
                       THEN <<[fmt |-> "lzop", extra |-> extra]>> \o Zeros(extra)
                     ELSE IF codec' = "lz4_legacy" THEN <<[fmt |-> "lz4"]>> ELSE <<>>
  BY DEF Begin
<1>2. /\ stage' = "encode" /\ codec' \in Codec /\ maker' \in {"abr", "vendor"}
      /\ content' \in Seq(Byte) /\ fault' = "none" /\ pos' = 0 /\ cap' = 0
      /\ out' = <<>> /\ result' = "none"
  BY CodecsAssumption DEF Begin
<1>3. PICK x, c, f : x = content' /\ c = codec' /\ f = stream'
  OBVIOUS
<1>4. Len(x) \in Nat /\ Len(<<>>) = 0 /\ 0 \in 0 .. Len(x)
  BY <1>2, <1>3, CellsWhole
<1>5. TypeOK'
  BY <1>2, <1>3, <1>4 DEF TypeOK
<1>6. f \in Seq(Cell)
      /\ (c \in Framed => Len(f) \in Nat \ {0} /\ Magic(c, f[1]) /\ Front(c, f) = Len(f))
  <2>1. CASE c \in Framed
    <3>1. f = IF c = "lzo" THEN <<[fmt |-> "lzop", extra |-> extra]>> \o Zeros(extra)
              ELSE <<[fmt |-> "lz4"]>>
      BY <1>1, <1>3, <2>1 DEF Framed
    <3> QED
      BY <2>1, <3>1, HeaderFacts
  <2>2. CASE c \notin Framed
    BY <1>1, <1>3, <2>2 DEF Framed
  <2> QED
    BY <2>1, <2>2
<1>7. StreamInv'
  <2>1. ASSUME c \in Framed
        PROVE  \E k \in Nat : \E at \in Places(k), from \in [1 .. k + 1 -> 0 .. Len(x)] :
                 Framing(c, x, f, k, at, from) /\ at[k + 1] = Len(f) /\ from[k + 1] = 0
    <3>1. PICK at : at = [i \in 1 .. 0 + 1 |-> Len(f)]
      OBVIOUS
    <3>2. PICK from : from = [i \in 1 .. 0 + 1 |-> 0]
      OBVIOUS
    <3>3. at \in Places(0) /\ at[1] = Len(f) /\ at[0 + 1] = Len(f) /\ Len(f) \in Nat
      BY <1>6, <2>1, <3>1 DEF Places
    <3>4. from \in [1 .. 0 + 1 -> 0 .. Len(x)] /\ from[1] = 0 /\ from[0 + 1] = 0
      BY <1>4, <3>2
    <3>5. (\A i \in 1 .. 0 + 1 : i = 1) /\ \A i \in 1 .. 0 : FALSE
      OBVIOUS
    <3>6. \A i \in 1 .. 0 + 1 : at[i] <= at[0 + 1]
      BY <3>3, <3>5
    <3>7. Framing(c, x, f, 0, at, from)
      <4> HIDE DEF Front, Magic, Lead, BlockIs
      <4> QED
        BY <1>6, <2>1, <3>3, <3>4, <3>5, <3>6 DEF Framing
    <3> QED
      BY <3>3, <3>4, <3>7
  <2> QED
    BY <1>2, <1>3, <2>1 DEF StreamInv, EncodeInv, Shares
<1>8. EarlyInv'
  BY <1>2, <1>3, <1>6 DEF EarlyInv
<1> QED
  BY <1>2, <1>5, <1>7, <1>8, NothingYet DEF IInv

LEMMA EncodeBlockOK ==
  ASSUME IInv, EncodeBlock
  PROVE  IInv'
<1>1. /\ stage = "encode" /\ codec \in Framed /\ pos < Len(content) /\ stage' = stage
      /\ codec' = codec /\ maker' = maker /\ content' = content /\ fault' = fault
      /\ cap' = cap /\ out' = out /\ result' = result
  BY DEF EncodeBlock
<1>2. /\ TypeOK /\ EarlyInv /\ StreamInv
  BY DEF IInv
<1>3. /\ content \in Seq(Byte) /\ Len(content) \in Nat /\ pos \in Nat /\ stream \in Seq(Cell)
      /\ BlockLen \in Nat \ {0}
  BY <1>2, CellsWhole, CellFacts DEF TypeOK, EarlyInv
<1>4. PICK len : len = Least(BlockLen, Len(content) - pos)
  OBVIOUS
<1>5. len \in Nat \ {0} /\ len <= BlockLen /\ pos + len <= Len(content)
  BY <1>1, <1>3, <1>4 DEF Least
<1>6. PICK data : data = Cells(content, pos, len)
  OBVIOUS
<1>7. data \in Seq(Byte) /\ Len(data) = len
  BY <1>3, <1>5, <1>6, CellsOf
<1>23. PICK n \in 1 .. len + 1 : \E b :
         /\ b = (IF StoredByVendor(data, n) THEN data ELSE Block(data, n))
         /\ stream' = stream
              \o (IF codec = "lzo" THEN Word(Len(data)) ELSE <<>>) \o Word(Len(b))
              \o (IF codec = "lzo" THEN Word(0) ELSE <<>>) \o b
         /\ pos' = pos + len
  <2> HIDE DEF Word, Block, StoredByVendor
  <2> QED
    BY <1>4, <1>6, <1>7 DEF EncodeBlock
<1>8. PICK b :
        /\ b = (IF StoredByVendor(data, n) THEN data ELSE Block(data, n))
        /\ stream' = stream
             \o (IF codec = "lzo" THEN Word(Len(data)) ELSE <<>>) \o Word(Len(b))
             \o (IF codec = "lzo" THEN Word(0) ELSE <<>>) \o b
        /\ pos' = pos + len
  BY <1>23
<1>9. b \in Seq(Cell) /\ Len(b) > 0 /\ ((codec = "lzo" /\ b = data) \/ b[1] = CodedAs(data))
  <2>1. CASE StoredByVendor(data, n)
    <3>1. b = data /\ codec = "lzo"
      BY <1>8, <2>1 DEF StoredByVendor
    <3>2. \A i \in 1 .. Len(data) : data[i] \in Cell
      BY <1>7, ElementOfSeq, CellFacts
    <3>3. data \in Seq(Cell)
      BY <1>7, <3>2, InSeq
    <3> QED
      BY <1>5, <1>7, <3>1, <3>3
  <2>2. CASE ~StoredByVendor(data, n)
    <3>1. b = Block(data, n) /\ n \in Nat \ {0}
      BY <1>8, <2>2
    <3> QED
      BY <1>7, <3>1, BlockFacts
  <2> QED
    BY <2>1, <2>2
<1>10. PICK f : f = stream'
  OBVIOUS
<1>11. /\ f \in Seq(Cell) /\ Kept(f, 0, stream) /\ Len(stream) \in Nat /\ Len(b) \in Nat
       /\ Len(f) = Len(stream) + Lead(codec) + Len(b)
       /\ BlockIs(codec, f, Len(stream), data, Len(b))
  <2> HIDE DEF Lead, BlockIs, Word, CodedAs
  <2>1. PICK c, s : c = codec /\ s = stream
    OBVIOUS
  <2>2. /\ c \in Framed /\ s \in Seq(Cell) /\ data \in Seq(Byte) /\ b \in Seq(Cell)
        /\ Len(data) > 0 /\ Len(b) > 0
    BY <1>1, <1>3, <1>5, <1>7, <1>9, <2>1
  <2>3. (c = "lzo" /\ b = data) \/ b[1] = CodedAs(data)
    BY <1>9, <2>1
  <2>4. f = s \o (IF c = "lzo" THEN Word(Len(data)) ELSE <<>>) \o Word(Len(b))
            \o (IF c = "lzo" THEN Word(0) ELSE <<>>) \o b
    BY <1>8, <1>10, <2>1
  <2>6. BlockPut(c, s, f, data, b)
    BY <2>2, <2>3, <2>4 DEF BlockPut
  <2>5. /\ f \in Seq(Cell) /\ Kept(f, 0, s) /\ Len(s) \in Nat /\ Len(b) \in Nat
        /\ Len(f) = Len(s) + Lead(c) + Len(b)
        /\ BlockIs(c, f, Len(s), data, Len(b))
    BY <2>6, BlockWritten
  <2> QED
    BY <2>1, <2>5
<1>22. PICK k \in Nat :
         \E at \in Places(k), from \in Shares(content, k) : EncodeInv(k, at, from)
  BY <1>1, <1>2 DEF StreamInv
<1>12. PICK at \in Places(k), from \in Shares(content, k) : EncodeInv(k, at, from)
  BY <1>22
<1>13. /\ Framing(codec, content, stream, k, at, from) /\ at[k + 1] = Len(stream)
       /\ from[k + 1] = pos /\ from \in [1 .. k + 1 -> 0 .. Len(content)]
  BY <1>12 DEF EncodeInv, Shares
<1>14. Framing(codec, content, f, k, at, from)
  <2>1. Len(stream) > 0
    BY <1>13 DEF Framing
  <2>2. Len(stream) <= Len(f) /\ \A i \in 1 .. Len(stream) : f[i] = stream[i]
    BY <1>11 DEF Kept, Holds
  <2>3. Len(f) \in Nat /\ Len(f) > 0 /\ f[1] = stream[1]
    BY <1>11, <2>1, <2>2
  <2>4. \A p \in Nat \ {0} :
          p <= at[k + 1] /\ p <= Len(f) => p <= Len(stream) /\ f[p] = stream[p]
    BY <1>11, <1>13, <2>2
  <2> QED
    BY <1>1, <1>3, <1>11, <1>13, <2>3, <2>4, FramingMoves
<1>15. PICK q, to : q = Len(f) /\ to = pos + len
  OBVIOUS
<1>16. /\ q \in Nat /\ to \in 0 .. Len(content) /\ from[k + 1] < to
       /\ to <= from[k + 1] + BlockLen /\ at[k + 1] + Lead(codec) < q
       /\ to - from[k + 1] = len /\ q - at[k + 1] - Lead(codec) = Len(b)
  <2>1. Lead(codec) \in Nat
    BY CellFacts DEF Lead
  <2>2. Len(b) \in Nat /\ Len(b) > 0 /\ Len(stream) \in Nat
    BY <1>9, <1>11
  <2> HIDE DEF Lead
  <2>5. PICK l, e, m : l = Lead(codec) /\ e = at[k + 1] /\ m = Len(b)
    OBVIOUS
  <2>6. l \in Nat /\ e \in Nat /\ m \in Nat /\ m > 0 /\ q = e + l + m
    BY <1>11, <1>13, <1>15, <2>1, <2>2, <2>5
  <2>7. q \in Nat /\ e + l < q /\ q - e - l = m
    BY ONLY <2>6
  <2>3. /\ q \in Nat /\ at[k + 1] + Lead(codec) < q
        /\ q - at[k + 1] - Lead(codec) = Len(b)
    BY <2>5, <2>7
  <2>4. /\ to \in 0 .. Len(content) /\ from[k + 1] < to
        /\ to <= from[k + 1] + BlockLen /\ to - from[k + 1] = len
    BY <1>3, <1>5, <1>13, <1>15
  <2> QED
    BY <2>3, <2>4
<1>17. BlockIs(codec, f, at[k + 1], Cells(content, from[k + 1], to - from[k + 1]),
               q - at[k + 1] - Lead(codec))
  <2> HIDE DEF BlockIs, Lead
  <2> QED
    BY <1>6, <1>11, <1>13, <1>16
<1>18. \E at2 \in Places(k + 1), from2 \in Shares(content, k + 1) :
         /\ Framing(codec, content, f, k + 1, at2, from2)
         /\ at2[(k + 1) + 1] = q /\ from2[(k + 1) + 1] = to
  <2> HIDE DEF BlockIs, Lead, Framing
  <2>1. /\ codec \in Framed /\ content \in Seq(Byte) /\ k \in Nat /\ at \in Places(k)
        /\ from \in Shares(content, k) /\ Framing(codec, content, f, k, at, from)
        /\ q \in Nat /\ to \in 0 .. Len(content)
        /\ from[k + 1] < to /\ to <= from[k + 1] + BlockLen /\ at[k + 1] + Lead(codec) < q
    BY <1>1, <1>3, <1>13, <1>14, <1>16
  <2>2. OneMore(codec, content, f, k, at, from, q, to)
    BY <1>17, <2>1 DEF OneMore
  <2> QED
    BY <2>2, FramingGrows
<1>19. StreamInv'
  <2>1. PICK at2 \in Places(k + 1), from2 \in Shares(content, k + 1) :
         /\ Framing(codec, content, f, k + 1, at2, from2)
         /\ at2[(k + 1) + 1] = q /\ from2[(k + 1) + 1] = to
    BY <1>18
  <2>2. EncodeInv(k + 1, at2, from2)' /\ from2 \in Shares(content', k + 1) /\ k + 1 \in Nat
    BY <1>1, <1>8, <1>10, <1>15, <2>1 DEF EncodeInv, Shares
  <2> QED
    BY <1>1, <2>2 DEF StreamInv
<1>20. TypeOK' /\ EarlyInv'
  <2>1. pos' \in Nat /\ pos' <= Len(content)
    BY <1>3, <1>5, <1>8
  <2>2. TypeOK'
    BY <1>1, <1>2, <2>1 DEF TypeOK
  <2>3. EarlyInv'
    BY <1>1, <1>2, <1>10, <1>11, <2>1 DEF EarlyInv
  <2> QED
    BY <2>2, <2>3
<1>21. out' = <<>> /\ result' = "none" /\ stage' \notin {"decode", "done"}
  BY <1>1, <1>2 DEF EarlyInv
<1> QED
  BY <1>19, <1>20, <1>21, NothingYet DEF IInv

\* The pieces of a library's stream, and its end.
LEMMA LibraryWrites ==
  ASSUME NEW x \in Seq(Byte), NEW f,
         f = [i \in 1 .. (Len(x) + PieceLen - 1) \div PieceLen |->
               [fmt |-> "piece", data |-> Cells(x, 0, Least(i * PieceLen, Len(x)))]]
             \o <<[fmt |-> "end"]>>
  PROVE  /\ f \in Seq(Cell)
         /\ \E n \in Nat : \E size \in [1 .. n -> 0 .. Len(x)] : Packed(x, f, n, size, "none")
<1>1. PICK n : n = (Len(x) + PieceLen - 1) \div PieceLen
  OBVIOUS
<1>2. Len(x) \in Nat /\ PieceLen \in Nat \ {0}
  BY CellsWhole, CodecsAssumption
<1>3. n \in Nat /\ Len(x) <= n * PieceLen
  <2>1. AlignUp(Len(x), PieceLen) = n * PieceLen
    BY <1>1, <1>2 DEF AlignUp
  <2>2. Len(x) <= AlignUp(Len(x), PieceLen)
    BY <1>2, AlignUpFacts
  <2>3. Len(x) + PieceLen - 1 \in Nat
    BY <1>2
  <2>4. n \in Nat
    BY <1>1, <1>2, <2>3, Division
  <2> QED
    BY <2>1, <2>2, <2>4
<1>4. PICK size : size = [i \in 1 .. n |-> Least(i * PieceLen, Len(x))]
  OBVIOUS
<1>5. size \in [1 .. n -> 0 .. Len(x)] /\ \A i \in 1 .. n : size[i] = Least(i * PieceLen, Len(x))
  <2>1. ASSUME NEW i \in 1 .. n PROVE Least(i * PieceLen, Len(x)) \in 0 .. Len(x)
    <3>1. i * PieceLen \in Nat
      BY <1>2, <1>3
    <3> QED
      BY <1>2, <3>1 DEF Least
  <2> QED
    BY <1>4, <2>1
<1>6. IF n = 0 THEN x = <<>> ELSE size[n] = Len(x)
  <2>1. CASE n = 0
    <3>1. Len(x) = 0
      BY <1>2, <1>3, <2>1
    <3> QED
      BY <2>1, <3>1, EmptySeq
  <2>2. CASE n # 0
    <3>1. n \in 1 .. n
      BY <1>3, <2>2
    <3>2. n * PieceLen \in Nat
      BY <1>2, <1>3
    <3>4. size[n] = Least(n * PieceLen, Len(x))
      BY <1>5, <3>1
    <3>3. Least(n * PieceLen, Len(x)) = Len(x)
      BY <1>2, <1>3, <3>2 DEF Least
    <3> QED
      BY <2>2, <3>3, <3>4
  <2> QED
    BY <2>1, <2>2
<1>7. PICK p, e : p = [i \in 1 .. n |-> PieceOf(Cells(x, 0, size[i]))] /\ e = <<EndCell>>
  OBVIOUS
<1>8. p \in Seq(Cell) /\ Len(p) = n /\ \A i \in 1 .. n : p[i] = PieceOf(Cells(x, 0, size[i]))
  <2>1. ASSUME NEW i \in 1 .. n PROVE PieceOf(Cells(x, 0, size[i])) \in Cell
    <3>1. size[i] \in Nat /\ 0 + size[i] <= Len(x) /\ 0 \in Nat
      <4>1. size[i] \in 0 .. Len(x)
        BY <1>5
      <4>2. Len(x) \in Nat
        BY <1>2
      <4> QED
        BY ONLY <4>1, <4>2
    <3>2. Cells(x, 0, size[i]) \in Seq(Byte)
      BY <3>1, CellsOf
    <3> QED
      BY <3>2, CellFacts
  <2> HIDE DEF PieceOf
  <2> QED
    BY <1>3, <1>7, <2>1
<1>9. e \in Seq(Cell) /\ Len(e) = 1 /\ e[1] = EndCell
  <2>1. EndCell \in Cell
    BY CellFacts
  <2> HIDE DEF EndCell
  <2> QED
    BY ONLY <1>7, <2>1
<1>10. f = p \o e
  <2>1. p = [i \in 1 .. n |->
              [fmt |-> "piece", data |-> Cells(x, 0, Least(i * PieceLen, Len(x)))]]
    BY <1>5, <1>7 DEF PieceOf
  <2> QED
    BY <1>1, <1>7, <2>1 DEF EndCell
<1>11. /\ f \in Seq(Cell) /\ Len(f) = n + 1 /\ Kept(f, 0, p) /\ Kept(f, n, e)
  BY <1>8, <1>9, <1>10, Joined
<1>12. (\A i \in 1 .. n : f[i] = PieceOf(Cells(x, 0, size[i]))) /\ f[n + 1] = EndCell
  <2>1. /\ \A i \in 1 .. Len(p) : f[0 + i] = p[i]
        /\ \A i \in 1 .. Len(e) : f[n + i] = e[i]
    BY ONLY <1>11 DEF Kept, Holds
  <2>2. Len(p) = n /\ Len(e) = 1 /\ e[1] = EndCell /\ n \in Nat
    BY <1>3, <1>8, <1>9
  <2> HIDE DEF EndCell
  <2>3. f[n + 1] = EndCell
    BY ONLY <2>1, <2>2
  <2>4. \A i \in 1 .. n : f[i] = p[i]
    BY ONLY <2>1, <2>2
  <2> QED
    BY <1>8, <2>3, <2>4
<1>13. Len(f) > 0 /\ ~(Len(f) < n + 1)
  <2>1. Len(f) = n + 1 /\ n \in Nat
    BY <1>3, <1>11
  <2> QED
    BY ONLY <2>1
<1>14. Packed(x, f, n, size, "none")
  <2> HIDE DEF PieceOf, EndCell
  <2> QED
    BY <1>6, <1>11, <1>12, <1>13 DEF Packed, Seen
<1> QED
  BY <1>3, <1>5, <1>11, <1>14

LEMMA EndEncodeOK ==
  ASSUME IInv, EndEncode
  PROVE  IInv'
<1>1. /\ stage = "encode" /\ stage' = "stream" /\ codec' = codec /\ maker' = maker
      /\ content' = content /\ fault' = fault /\ pos' = pos /\ cap' = cap /\ out' = out
      /\ result' = result
      /\ codec \in Framed => pos = Len(content)
  BY DEF EndEncode
<1>2. TypeOK /\ EarlyInv /\ StreamInv
  BY DEF IInv
<1>3. /\ content \in Seq(Byte) /\ stream \in Seq(Cell) /\ fault = "none"
      /\ out = <<>> /\ result = "none" /\ pos \in Nat
  BY <1>1, <1>2 DEF TypeOK, EarlyInv
<1>4. TypeOK'
  BY <1>1, <1>2 DEF TypeOK
<1>5. PICK f : f = stream'
  OBVIOUS
<1>6. ASSUME codec \in Framed PROVE StreamInv' /\ stream' \in Seq(Cell)
  <2>1. PICK k \in Nat :
          \E at \in Places(k), from \in Shares(content, k) : EncodeInv(k, at, from)
    BY <1>1, <1>2, <1>6 DEF StreamInv
  <2>2. PICK at \in Places(k), from \in Shares(content, k) : EncodeInv(k, at, from)
    BY <2>1
  <2>3. /\ Framing(codec, content, stream, k, at, from) /\ at[k + 1] = Len(stream)
        /\ from[k + 1] = Len(content) /\ from \in [1 .. k + 1 -> 0 .. Len(content)]
    BY <1>1, <1>6, <2>2 DEF EncodeInv, Shares
  <2>4. Len(stream) \in Nat /\ Len(stream) > 0 /\ WordLen \in Nat \ {0}
    <3>1. Len(stream) > 0
      BY <2>3 DEF Framing
    <3> QED
      BY <1>3, <3>1, CellFacts
  <2>5. /\ f \in Seq(Cell) /\ Len(f) \in Nat /\ Len(stream) <= Len(f)
        /\ \A i \in 1 .. Len(stream) : f[i] = stream[i]
        /\ EndIs(codec, f, at[k + 1], "none")
    <3>1. CASE codec = "lzo"
      <4>1. f = stream \o Word(0)
        BY <1>5, <3>1 DEF EndEncode
      <4>2. Word(0) \in Seq(Cell) /\ Len(Word(0)) = WordLen /\ Word(0)[1] = W(0)
        BY WordFacts
      <4>3. /\ f \in Seq(Cell) /\ Len(f) = Len(stream) + WordLen
            /\ Kept(f, 0, stream) /\ Kept(f, Len(stream), Word(0))
        <5>1. PICK s, w : s = stream /\ w = Word(0)
          OBVIOUS
        <5>2. s \in Seq(Cell) /\ w \in Seq(Cell)
          BY <1>3, <4>2, <5>1
        <5>3. /\ s \o w \in Seq(Cell) /\ Len(s \o w) = Len(s) + Len(w)
              /\ Kept(s \o w, 0, s) /\ Kept(s \o w, Len(s), w)
          BY ONLY <5>2, Joined
        <5> QED
          BY ONLY <4>1, <4>2, <5>1, <5>3
      <4>4. f[Len(stream) + 1] = W(0)
        BY <2>4, <4>2, <4>3 DEF Kept, Holds
      <4>5. \A i \in 1 .. Len(stream) : f[i] = stream[i]
        BY <2>4, <4>3 DEF Kept, Holds
      <4>6. EndIs(codec, f, at[k + 1], "none")
        <5> HIDE DEF W
        <5> QED
          BY <2>3, <2>4, <3>1, <4>3, <4>4 DEF EndIs, Seen
      <4> QED
        BY <2>4, <4>3, <4>5, <4>6
    <3>2. CASE codec # "lzo"
      <4>1. f = stream
        BY <1>5, <1>6, <3>2 DEF EndEncode, Framed
      <4>2. EndIs(codec, f, at[k + 1], "none")
        BY <2>3, <2>4, <3>2, <4>1 DEF EndIs
      <4> QED
        BY <1>3, <2>4, <4>1, <4>2
    <3> QED
      BY <3>1, <3>2
  <2>6. Framing(codec, content, f, k, at, from)
    <3>1. f[1] = stream[1] /\ Len(f) > 0
      BY <2>4, <2>5
    <3>2. \A p \in Nat \ {0} :
            p <= at[k + 1] /\ p <= Len(f) => p <= Len(stream) /\ f[p] = stream[p]
      BY <2>3, <2>4, <2>5
    <3> QED
      BY <1>3, <1>6, <2>3, <2>5, <3>1, <3>2, FramingMoves
  <2>7. FramedInv(k, at, from)' /\ from \in Shares(content', k)
    BY <1>1, <1>3, <1>5, <2>2, <2>3, <2>5, <2>6 DEF FramedInv
  <2>8. StreamInv'
    BY <1>1, <1>6, <2>7 DEF StreamInv
  <2>9. stream' \in Seq(Cell)
    BY <1>5, <2>5
  <2> QED
    BY <2>8, <2>9
<1>7. ASSUME codec \notin Framed PROVE StreamInv' /\ stream' \in Seq(Cell)
  <2>1. f = [i \in 1 .. (Len(content) + PieceLen - 1) \div PieceLen |->
              [fmt |-> "piece", data |-> Cells(content, 0, Least(i * PieceLen, Len(content)))]]
            \o <<[fmt |-> "end"]>>
    BY <1>5, <1>7 DEF EndEncode, Framed
  <2>2. /\ f \in Seq(Cell)
        /\ \E n \in Nat : \E size \in [1 .. n -> 0 .. Len(content)] :
             Packed(content, f, n, size, "none")
    BY <1>3, <2>1, LibraryWrites
  <2>3. StreamInv'
    BY <1>1, <1>3, <1>5, <1>7, <2>2 DEF StreamInv
  <2> QED
    BY <1>5, <2>2, <2>3
<1>8. StreamInv' /\ stream' \in Seq(Cell)
  BY <1>6, <1>7
<1>9. EarlyInv'
  BY <1>1, <1>3, <1>8 DEF EarlyInv
<1> QED
  BY <1>1, <1>3, <1>4, <1>8, <1>9, NothingYet DEF IInv

-----------------------------------------------------------------------------
(* Damage                                                                   *)

\* A whole stream, damaged: it is enough to see that what is left of it agrees
\* with what it was.
LEMMA DamageOK ==
  ASSUME IInv, stage = "stream", fault = "none", fault' \in {"cut", "tail"},
         UNCHANGED <<stage, codec, maker, content, pos, cap, out, result>>,
         stream' \in Seq(Cell), Len(stream') > 0, stream'[1] = stream[1],
         \A i \in Nat \ {0} :
           i <= Len(stream) /\ i <= Len(stream') => stream'[i] = stream[i],
         fault' = "cut" => Len(stream') < Len(stream),
         fault' = "tail" =>
           /\ Len(stream') > Len(stream)
           /\ \/ stream'[Len(stream) + 1] = Zero
              \/ /\ stream'[Len(stream) + 1] = stream[1]
                 /\ Len(stream') - Len(stream) < Wild
  PROVE  IInv'
<1>1. TypeOK /\ EarlyInv /\ StreamInv
  BY DEF IInv
<1>2. /\ content \in Seq(Byte) /\ stream \in Seq(Cell) /\ out = <<>> /\ result = "none"
      /\ pos \in Nat
  BY <1>1 DEF TypeOK, EarlyInv
<1>3. PICK f, s, how : f = stream' /\ s = stream /\ how = fault'
  OBVIOUS
<1>4. Len(s) \in Nat /\ Len(f) \in Nat /\ WordLen \in Nat \ {0} /\ how \in {"cut", "tail"}
  BY <1>2, <1>3, LenProperties, CellFacts
<1>5. /\ how = "cut" => Len(f) < Len(s)
      /\ how = "tail" => Len(f) > Len(s)
      /\ \A i \in Nat \ {0} : i <= Len(s) /\ i <= Len(f) => f[i] = s[i]
  BY <1>3
<1>6. ASSUME codec \in Framed PROVE StreamInv'
  <2>1. PICK k \in Nat :
          \E at \in Places(k), from \in Shares(content, k) : FramedInv(k, at, from)
    BY <1>1, <1>6 DEF StreamInv
  <2>2. PICK at \in Places(k), from \in Shares(content, k) : FramedInv(k, at, from)
    BY <2>1
  <2>3. PICK e : e = at[k + 1]
    OBVIOUS
  <2>4. /\ Framing(codec, content, s, k, at, from) /\ EndIs(codec, s, e, "none")
        /\ from[k + 1] = Len(content) /\ from \in [1 .. k + 1 -> 0 .. Len(content)]
        /\ e \in Nat
    BY <1>3, <2>2, <2>3 DEF FramedInv, Shares, Places
  <2>5. IF codec = "lzo" THEN Len(s) = e + WordLen ELSE Len(s) = e
    BY <2>4 DEF EndIs
  <2>6. e <= Len(s)
    BY <1>4, <2>4, <2>5
  <2>7. Framing(codec, content, f, k, at, from)
    <3>1. \A p \in Nat \ {0} :
            p <= at[k + 1] /\ p <= Len(f) => p <= Len(s) /\ f[p] = s[p]
      BY <1>4, <1>5, <2>3, <2>4, <2>6
    <3> QED
      BY <1>2, <1>3, <1>6, <2>4, <3>1, FramingMoves
  <2>8. EndIs(codec, f, e, how)
    <3>1. CASE codec = "lzo"
      <4>1. Seen(s, e + 1, W(0)) /\ Len(s) = e + WordLen
        BY <2>4, <2>5, <3>1 DEF EndIs
      <4>2. s[e + 1] = W(0) /\ e + 1 <= Len(s) /\ e + 1 \in Nat \ {0}
        BY <1>4, <2>4, <4>1 DEF Seen
      <4>3. Seen(f, e + 1, W(0))
        BY <1>5, <4>2 DEF Seen
      <4>4. /\ how = "cut" <=> Len(f) < e + WordLen
            /\ how # "none"
        BY <1>4, <1>5, <2>4, <4>1
      <4> QED
        BY <3>1, <4>3, <4>4 DEF EndIs
    <3>2. CASE codec # "lzo"
      <4>1. Len(s) = e
        BY <2>5, <3>2
      <4>2. Magic(codec, s[1])
        BY <2>4 DEF Framing
      <4>3. s[1] = [fmt |-> "lz4"]
        BY <3>2, <4>2 DEF Magic
      <4>4. how = "tail" =>
              \/ f[e + 1] = Zero
              \/ f[e + 1] = [fmt |-> "lz4"] /\ Len(f) - e < Wild
        BY <1>3, <4>1, <4>3
      <4>5. /\ how = "cut" <=> Len(f) < e
            /\ how # "none" /\ (how = "tail" => Len(f) > e)
        BY <1>4, <1>5, <4>1
      <4> QED
        BY <3>2, <4>4, <4>5 DEF EndIs
    <3> QED
      BY <3>1, <3>2
  <2>9. FramedInv(k, at, from)' /\ from \in Shares(content', k)
    BY <1>3, <2>2, <2>3, <2>4, <2>7, <2>8 DEF FramedInv
  <2> QED
    BY <1>6, <2>9 DEF StreamInv
<1>7. ASSUME codec \notin Framed PROVE StreamInv'
  <2>1. PICK n \in Nat : \E size \in [1 .. n -> 0 .. Len(content)] :
          Packed(content, s, n, size, "none")
    BY <1>1, <1>3, <1>7 DEF StreamInv
  <2>2. PICK size \in [1 .. n -> 0 .. Len(content)] : Packed(content, s, n, size, "none")
    BY <2>1
  <2>3. /\ IF n = 0 THEN content = <<>> ELSE size[n] = Len(content)
        /\ \A i \in 1 .. n : Seen(s, i, PieceOf(Cells(content, 0, size[i])))
        /\ Seen(s, n + 1, EndCell) /\ Len(s) = n + 1
    BY <2>2 DEF Packed
  <2>4. ASSUME NEW i \in 1 .. n + 1, NEW c, Seen(s, i, c) PROVE Seen(f, i, c)
    BY <1>4, <1>5, <2>3, <2>4 DEF Seen
  <2> HIDE DEF Seen, PieceOf, EndCell
  <2>5. /\ \A i \in 1 .. n : Seen(f, i, PieceOf(Cells(content, 0, size[i])))
        /\ Seen(f, n + 1, EndCell)
    BY <2>3, <2>4
  <2>6. how = "cut" <=> Len(f) < n + 1
    BY <1>4, <1>5, <2>3
  <2>7. f \in Seq(Cell) /\ Len(f) > 0 /\ how # "none"
    BY <1>3
  <2>8. Packed(content, f, n, size, how)
    BY <2>3, <2>5, <2>6, <2>7 DEF Packed
  <2> QED
    BY <1>3, <1>7, <2>8 DEF StreamInv
<1>8. TypeOK'
  BY <1>1 DEF TypeOK
<1>9. EarlyInv'
  BY <1>2 DEF EarlyInv
<1> QED
  BY <1>2, <1>6, <1>7, <1>8, <1>9, NothingYet DEF IInv

LEMMA CutStreamOK ==
  ASSUME IInv, CutStream
  PROVE  IInv'
<1>1. PICK n \in 1 .. Len(stream) - 1 : stream' = SubSeq(stream, 1, n)
  BY DEF CutStream
<1>2. /\ stage = "stream" /\ fault = "none" /\ fault' = "cut"
      /\ UNCHANGED <<stage, codec, maker, content, pos, cap, out, result>>
  BY DEF CutStream
<1>3. stream \in Seq(Cell) /\ Len(stream) \in Nat
  BY LenProperties DEF IInv, EarlyInv
<1>4. \A i \in 1 .. n : stream[i] \in Cell
  BY <1>3, ElementOfSeq
<1>5. PICK f : f = stream'
  OBVIOUS
<1>6. n \in Nat \ {0} /\ n < Len(stream)
  BY <1>3
<1>7. f \in Seq(Cell) /\ Len(f) = n /\ \A i \in 1 .. n : f[i] = stream[i]
  <2>1. /\ f \in Seq(Cell) /\ Len(f) = (IF 1 <= n THEN n - 1 + 1 ELSE 0)
        /\ \A i \in 1 .. n - 1 + 1 : f[i] = stream[1 + i - 1]
    BY <1>1, <1>4, <1>5, <1>6, SubSeqProperties
  <2> QED
    BY <1>6, <2>1
<1>8. /\ \A i \in Nat \ {0} : i <= Len(stream) /\ i <= Len(f) => f[i] = stream[i]
      /\ Len(f) > 0 /\ f[1] = stream[1] /\ Len(f) < Len(stream)
  BY <1>3, <1>6, <1>7
<1> QED
  BY <1>2, <1>5, <1>7, <1>8, DamageOK

LEMMA AppendTailOK ==
  ASSUME IInv, AppendTail
  PROVE  IInv'
<1>1. PICK t : /\ stream' = stream \o t
               /\ \/ \E n \in 1 .. WordLen : t = Zeros(n)
                  \/ t = stream /\ Len(stream) < Wild
  BY DEF AppendTail
<1>2. /\ stage = "stream" /\ fault = "none" /\ fault' = "tail"
      /\ UNCHANGED <<stage, codec, maker, content, pos, cap, out, result>>
  BY DEF AppendTail
<1>3. stream \in Seq(Cell) /\ Len(stream) \in Nat /\ Len(stream) > 0
  <2>1. stream \in Seq(Cell) /\ StreamInv
    BY DEF IInv, EarlyInv
  <2>2. CASE codec \in Framed
    BY <1>2, <2>1, <2>2, LenProperties DEF StreamInv, FramedInv, Framing
  <2>3. CASE codec \notin Framed
    BY <1>2, <2>1, <2>3, LenProperties DEF StreamInv, Packed
  <2> QED
    BY <2>2, <2>3
<1>4. /\ t \in Seq(Cell) /\ Len(t) \in Nat /\ Len(t) > 0
      /\ (t[1] = Zero \/ (t[1] = stream[1] /\ Len(t) < Wild))
  <2>1. ASSUME NEW n \in 1 .. WordLen, t = Zeros(n)
        PROVE  t \in Seq(Cell) /\ Len(t) \in Nat /\ Len(t) > 0 /\ t[1] = Zero
    <3>1. n \in Nat \ {0}
      BY CellFacts
    <3>2. t \in Seq(Cell) /\ Len(t) = n
      BY <2>1, <3>1, ZerosFacts, CellFacts
    <3>3. t[1] = Zero
      BY <2>1, <3>1 DEF Zeros
    <3> QED
      BY <3>1, <3>2, <3>3
  <2>2. CASE t = stream /\ Len(stream) < Wild
    BY <1>3, <2>2
  <2> QED
    BY <1>1, <2>1, <2>2
<1>5. PICK f : f = stream'
  OBVIOUS
<1>6. /\ f \in Seq(Cell) /\ Len(f) = Len(stream) + Len(t)
      /\ Kept(f, 0, stream) /\ Kept(f, Len(stream), t)
  BY <1>1, <1>3, <1>4, <1>5, Joined
<1>7. /\ \A i \in 1 .. Len(stream) : f[0 + i] = stream[i]
      /\ \A i \in 1 .. Len(t) : f[Len(stream) + i] = t[i]
  BY <1>6 DEF Kept, Holds
<1>8. \A i \in Nat \ {0} : i <= Len(stream) => f[i] = stream[i]
  BY <1>3, <1>7
<1>9. f[Len(stream) + 1] = t[1] /\ f[1] = stream[1]
  BY <1>3, <1>4, <1>7, <1>8
<1>10. Len(f) > 0 /\ Len(f) > Len(stream) /\ Len(f) - Len(stream) = Len(t)
  BY <1>3, <1>4, <1>6
<1> QED
  BY <1>2, <1>4, <1>5, <1>6, <1>8, <1>9, <1>10, DamageOK

\* What a library has to give.
LEMMA HaveFacts ==
  ASSUME IInv, stage \in {"stream", "decode"}, codec \in Codec \ Framed
  PROVE  Len(Have) \in Nat
<1>1. content \in Seq(Byte)
  BY DEF IInv, TypeOK
<1>2. PICK n \in Nat : \E size \in [1 .. n -> 0 .. Len(content)] :
        Packed(content, stream, n, size, fault)
  <2> HIDE DEF Packed
  <2> QED
    BY DEF IInv, StreamInv
<1>3. PICK size \in [1 .. n -> 0 .. Len(content)] : Packed(content, stream, n, size, fault)
  BY <1>2
<1>4. PICK m \in 0 .. Len(content) : Have = Cells(content, 0, m)
  BY <1>1, <1>3, LibraryReads
<1>5. Len(Have) = m
  <2> HIDE DEF Have, Cells
  <2> QED
    BY <1>1, <1>4, Beginning
<1> QED
  BY <1>1, <1>5, CellsWhole

\* The first length of a buffer: none only where an unsigned int wraps.
LEMMA FirstCap ==
  ASSUME NEW n \in Nat, NEW first, NEW c,
         first = (IF n < FirstLen THEN FirstLen ELSE n),
         c = (IF codec = "bzip2" THEN first % Width ELSE first)
  PROVE  /\ c \in Nat /\ (c > 0 \/ (codec = "bzip2" /\ n >= Width))
         /\ n < Width => c < Width
<1>1. /\ FirstLen \in Nat \ {0} /\ Width \in Nat \ {0} /\ FirstLen < Width
  BY CodecsAssumption
<1>2. first \in Nat \ {0} /\ (first >= Width => n >= Width)
  BY <1>1
<1>3. first % Width \in Nat /\ (first < Width => first % Width = first)
  BY <1>1, <1>2
<1>4. CASE first < Width
  <2>1. first % Width = first
    BY <1>3, <1>4
  <2>2. c = first
    BY <2>1
  <2> QED
    BY <1>1, <1>2, <1>4, <2>2
<1>5. CASE ~(first < Width)
  <2>1. Width \in Nat /\ first \in Nat
    BY <1>1, <1>2
  <2>2. n >= Width
    BY <1>2, <1>5, <2>1
  <2>3. c = first \/ (c = first % Width /\ codec = "bzip2")
    OBVIOUS
  <2>4. CASE c = first
    BY ONLY <1>1, <1>2, <2>1, <2>2, <2>4
  <2>5. CASE c = first % Width /\ codec = "bzip2"
    BY ONLY <1>1, <1>3, <2>1, <2>2, <2>5
  <2> QED
    BY ONLY <2>3, <2>4, <2>5
<1> QED
  BY <1>4, <1>5

LEMMA BeginDecodeOK ==
  ASSUME IInv, BeginDecode
  PROVE  IInv'
<1>1. /\ stage = "stream" /\ codec' = codec /\ maker' = maker /\ content' = content
      /\ fault' = fault /\ stream' = stream /\ out' = out
  BY DEF BeginDecode
<1>2. TypeOK /\ EarlyInv /\ StreamInv
  BY DEF IInv
<1>3. /\ content \in Seq(Byte) /\ stream \in Seq(Cell) /\ Len(stream) \in Nat
      /\ out = <<>> /\ Len(out) = 0 /\ result = "none" /\ codec \in Codec
  BY <1>1, <1>2 DEF TypeOK, EarlyInv
<1>4. /\ codec \in Framed => pos' = Front(codec, stream)
      /\ codec \notin Framed => pos' = 0
      /\ stage' \in {"done", "decode"}
      /\ stage' = "decode" =>
           result' = "none" /\ ~(codec \in Framed /\ pos' > Len(stream))
      /\ stage' = "done" =>
           result' = "error" /\ codec \in Framed /\ pos' > Len(stream)
  BY <1>3 DEF BeginDecode, Stop, Front, Framed
<1>5. /\ cap' \in Nat /\ (cap' > 0 \/ (codec = "bzip2" /\ Factor * Len(stream) >= Width))
      /\ Factor * Len(stream) < Width => cap' < Width
  <2>1. PICK n : n = Factor * Len(stream)
    OBVIOUS
  <2>2. Factor \in Nat
    BY CodecsAssumption
  <2>3. n \in Nat
    BY <1>3, <2>1, <2>2
  <2>4. PICK first : first = (IF n < FirstLen THEN FirstLen ELSE n)
    OBVIOUS
  <2>5. PICK c : c = (IF codec = "bzip2" THEN first % Width ELSE first)
    OBVIOUS
  <2>6. cap' = c
    BY <2>1, <2>4, <2>5 DEF BeginDecode
  <2> QED
    BY <2>1, <2>3, <2>4, <2>5, <2>6, FirstCap
<1>6. ASSUME codec \in Framed
      PROVE  /\ pos' \in Nat
             /\ pos' > Len(stream) => fault = "cut"
             /\ stage' = "decode" =>
                  \E k \in Nat : \E at \in Places(k), from \in Shares(content', k) :
                    /\ Framing(codec', content', stream', k, at, from)
                    /\ EndIs(codec', stream', at[k + 1], fault')
                    /\ from[k + 1] = Len(content')
                    /\ \E j \in 1 .. k + 1 :
                         /\ pos' = at[j]
                         /\ out' = Cells(content', 0, from[j])
  <2>1. PICK k \in Nat :
          \E at \in Places(k), from \in Shares(content, k) : FramedInv(k, at, from)
    BY <1>1, <1>2, <1>6 DEF StreamInv
  <2>2. PICK at \in Places(k), from \in Shares(content, k) : FramedInv(k, at, from)
    BY <2>1
  <2>3. /\ Framing(codec, content, stream, k, at, from)
        /\ EndIs(codec, stream, at[k + 1], fault) /\ from[k + 1] = Len(content)
    BY <2>2 DEF FramedInv
  <2>4. at[1] = Front(codec, stream) /\ from[1] = 0 /\ at[1] <= at[k + 1]
        /\ 1 \in 1 .. k + 1
    BY <2>3 DEF Framing
  <2>5. at[1] \in Nat /\ at[k + 1] \in Nat
    BY <2>4 DEF Places
  <2>6. ASSUME at[1] > Len(stream)
        PROVE  fault = "cut"
    <3>1. PICK e \in Nat : e = at[k + 1] /\ e > Len(stream)
      BY <1>3, <2>4, <2>5, <2>6
    <3>2. EndIs(codec, stream, e, fault)
      BY <2>3, <3>1
    <3>3. Len(stream) < e + WordLen
      BY <1>3, <3>1, CellFacts
    <3> QED
      BY <3>1, <3>2, <3>3 DEF EndIs
  <2>7. out' = Cells(content, 0, from[1])
    BY <1>1, <1>3, <2>4, CellsWhole
  <2>8. pos' = at[1]
    BY <1>4, <1>6, <2>4
  <2>9. \E j \in 1 .. k + 1 : pos' = at[j] /\ out' = Cells(content', 0, from[j])
    BY <1>1, <2>4, <2>7, <2>8
  <2>10. at \in Places(k) /\ from \in Shares(content', k)
    BY <1>1
  <2> HIDE DEF Framing, EndIs, Places, Shares
  <2> QED
    BY <1>1, <2>3, <2>5, <2>6, <2>8, <2>9, <2>10
<1>7. pos' \in Nat
  <2>1. CASE codec \in Framed
    BY <1>6, <2>1
  <2>2. CASE codec \notin Framed
    BY <1>4, <2>2
  <2> QED
    BY <2>1, <2>2
<1>8. TypeOK'
  <2>1. codec \in Framed /\ stage' = "decode" => pos' <= Len(stream)
    BY <1>3, <1>4, <1>7
  <2> QED
    BY <1>1, <1>2, <1>3, <1>4, <1>5, <2>1 DEF TypeOK
<1>9. EarlyInv'
  BY <1>1, <1>2, <1>3, <1>4, <1>7 DEF EarlyInv
<1>10. StreamInv'
  <2>1. ASSUME codec \in Framed, stage' = "decode"
        PROVE  \E k \in Nat : \E at \in Places(k), from \in Shares(content', k) :
                 FramedInv(k, at, from)'
    <3> HIDE DEF Framing, EndIs, Places, Shares, Cells, Broken
    <3> QED
      BY <1>6, <2>1 DEF FramedInv
  <2>2. ASSUME codec \notin Framed
        PROVE  \E n \in Nat : \E size \in [1 .. n -> 0 .. Len(content')] :
                 Packed(content', stream', n, size, fault')
    <3> HIDE DEF Packed
    <3> QED
      BY <1>1, <1>2, <2>2 DEF StreamInv
  <2>3. stage' = "stream" \/ stage' = "encode" => FALSE
    BY <1>4
  <2> QED
    BY <1>1, <1>4, <2>1, <2>2 DEF StreamInv
<1>11. CapInv'
  BY <1>1, <1>5 DEF CapInv, Wraps, Bzip2Wraps
<1>12. NothingForeign'
  <2>1. out' = <<>> /\ content' = content
    BY <1>1, <1>3
  <2> HIDE DEF Broken
  <2> QED
    BY <1>3, <2>1, CellsWhole DEF NothingForeign
<1>13. PartOnlyIfLenient' /\ RefusedForCause'
  <2>1. result' # "done" /\ (result' = "error" => fault' = "cut")
    BY <1>1, <1>4, <1>6
  <2> HIDE DEF Broken
  <2> QED
    BY <2>1 DEF PartOnlyIfLenient, RefusedForCause
<1>14. GrowInv'
  <2>1. ASSUME codec \in Growing, stage' = "decode"
        PROVE  GrowInv'
    <3>1. codec \notin Framed /\ codec # "bzip2" /\ codec \in Codec \ Framed
      BY <1>3, <2>1 DEF Growing, Framed
    <3>2. pos' = 0 /\ cap' > 0 /\ cap' \in Nat
      BY <1>4, <1>5, <3>1
    <3>3. Have' = Have
      BY <1>1 DEF Have, Pieces
    <3>4. Len(Have) \in Nat
      BY <1>1, <3>1, HaveFacts
    <3>5. out' = <<>> /\ <<>> \in Seq(Byte) /\ Len(<<>>) = 0 /\ Cells(content, 0, 0) = <<>>
      BY <1>1, <1>3, CellsWhole
    <3>6. codec = "gzip" /\ ~GzipWraps => Factor * Len(stream) < Width
      <4>1. Factor \in Nat /\ Width \in Nat
        BY CodecsAssumption
      <4> QED
        BY <1>3, <4>1 DEF GzipWraps
    <3>7. GzipWraps' <=> GzipWraps
      BY <1>1 DEF GzipWraps
    <3> HIDE DEF GzipWraps, Have, Cells
    <3> QED
      BY <1>1, <1>5, <3>2, <3>3, <3>4, <3>5, <3>6, <3>7 DEF GrowInv
  <2> QED
    BY <1>1, <2>1 DEF GrowInv
<1> QED
  BY <1>8, <1>9, <1>10, <1>11, <1>12, <1>13, <1>14 DEF IInv

\* A step of a decoder keeps the invariant.
LEMMA DecodesOK ==
  ASSUME IInv, Decodes, codec \in Framed /\ stage' = "decode" => StreamInv',
         codec \in Growing /\ stage' = "decode" => GrowInv'
  PROVE  IInv'
<1>1. /\ stage = "decode" /\ codec' = codec /\ maker' = maker /\ content' = content
      /\ fault' = fault /\ stream' = stream /\ stage' \in {"decode", "done"}
      /\ result' \in {"none", "done", "error"} /\ (stage' = "decode" => result' = "none")
  BY DEF Decodes
<1>2. TypeOK /\ EarlyInv /\ StreamInv
  BY DEF IInv
<1>3. Broken' <=> Broken
  BY <1>1 DEF Broken, Coincidence, GzipWraps
<1> HIDE DEF Broken
<1>4. TypeOK'
  BY <1>1, <1>2 DEF TypeOK, Decodes
<1>5. EarlyInv'
  BY <1>1, <1>2 DEF EarlyInv, Decodes
<1>6. StreamInv'
  <2>1. ASSUME codec \notin Framed
        PROVE  \E n \in Nat : \E size \in [1 .. n -> 0 .. Len(content')] :
                 Packed(content', stream', n, size, fault')
    <3> HIDE DEF Packed
    <3> QED
      BY <1>1, <1>2, <2>1 DEF StreamInv
  <2>2. CASE stage' = "done"
    BY <2>2 DEF StreamInv
  <2>3. CASE codec \in Framed /\ stage' = "decode"
    BY <2>3
  <2>4. CASE codec \notin Framed
    BY <1>1, <2>1, <2>4 DEF StreamInv
  <2> QED
    BY <1>1, <2>2, <2>3, <2>4
<1>7. CapInv'
  <2>1. codec \in Retried /\ stage' = "decode" => cap' > 0 \/ Wraps
    BY DEF Decodes
  <2>2. Wraps => Wraps'
    BY <1>1 DEF Wraps, GzipWraps, Bzip2Wraps
  <2> QED
    BY <1>1, <2>1, <2>2 DEF CapInv
<1>8. NothingForeign'
  <2>1. ASSUME ~Broken
        PROVE  Len(out') <= Len(content) /\ out' = Cells(content, 0, Len(out'))
    <3>1. PICK m \in 0 .. Len(content) : out' = Cells(content, 0, m)
      BY <2>1 DEF Decodes
    <3>2. content \in Seq(Byte)
      BY <1>2 DEF TypeOK
    <3> QED
      BY <3>1, <3>2, Beginning
  <2> QED
    BY <1>1, <1>3, <2>1 DEF NothingForeign, Broken
<1>9. PartOnlyIfLenient'
  BY <1>1, <1>3 DEF PartOnlyIfLenient, Decodes, Broken
<1>10. RefusedForCause'
  BY <1>1 DEF RefusedForCause, Cause, Wraps, GzipWraps, Bzip2Wraps, Decodes
<1>11. GrowInv'
  BY <1>1 DEF GrowInv
<1> QED
  BY <1>4, <1>5, <1>6, <1>7, <1>8, <1>9, <1>10, <1>11 DEF IInv

\* What is left of a stream, for every library.
LEMMA AtLibrary ==
  ASSUME IInv, stage = "decode", codec \in Codec \ Framed
  PROVE  \E m \in 0 .. Len(content) :
           /\ Have = Cells(content, 0, m) /\ Len(Have) = m /\ Len(content) \in Nat
           /\ content \in Seq(Byte) /\ m \in Nat
           /\ (Complete => m = Len(content) /\ Have = content)
           /\ (~Complete => fault = "cut")
<1>1. content \in Seq(Byte)
  BY DEF IInv, TypeOK
<1>2. PICK n \in Nat : \E size \in [1 .. n -> 0 .. Len(content)] :
        Packed(content, stream, n, size, fault)
  <2> HIDE DEF Packed
  <2> QED
    BY DEF IInv, StreamInv
<1>3. PICK size \in [1 .. n -> 0 .. Len(content)] : Packed(content, stream, n, size, fault)
  BY <1>2
<1>4. PICK m \in 0 .. Len(content) : Have = Cells(content, 0, m) /\ (Complete => m = Len(content))
  BY <1>1, <1>3, LibraryReads
<1>5. ~Complete => fault = "cut"
  BY <1>1, <1>3, LibraryReads
<1>6. PICK h : h = Have
  OBVIOUS
<1>7. Len(h) = m
  BY <1>1, <1>4, <1>6, Beginning
<1>8. Len(content) \in Nat /\ Cells(content, 0, Len(content)) = content
  BY <1>1, CellsWhole
<1> HIDE DEF Have, Complete, Cells
<1>9. m \in Nat
  BY <1>8
<1>10. Complete => Have = content
  BY <1>4, <1>8
<1> QED
  BY <1>1, <1>4, <1>5, <1>6, <1>7, <1>8, <1>9, <1>10

\* A part of a beginning.
LEMMA CellsWithin ==
  ASSUME NEW x \in Seq(Byte), NEW m \in 0 .. Len(x), NEW p \in Nat, NEW n \in Nat, p + n <= m
  PROVE  Cells(Cells(x, 0, m), p, n) = Cells(x, p, n)
<1> DEFINE c == Cells(x, 0, m)
           d == Cells(x, p, n)
<1>1. m \in Nat /\ 0 \in Nat /\ 0 + m <= Len(x) /\ p + n <= Len(x)
  BY CellsWhole
<1>2. c \in Seq(Byte) /\ \A i \in 1 .. m : c[i] = x[0 + i]
  BY <1>1, CellsOf
<1>3. d \in Seq(Byte) /\ Len(d) = n /\ \A i \in 1 .. n : d[i] = x[p + i]
  BY <1>1, CellsOf
<1> HIDE DEF c, d
<1>4. \A i \in 1 .. Len(d) : c[p + i] = d[i]
  <2> TAKE i \in 1 .. Len(d)
  <2>1. p + i \in 1 .. m /\ 0 + (p + i) = p + i /\ i \in 1 .. n
    BY <1>1, <1>3
  <2> QED
    BY <1>2, <1>3, <2>1
<1>5. Cells(c, p, Len(d)) = d
  BY <1>2, <1>3, <1>4, CellsFound
<1> QED
  BY <1>3, <1>5 DEF c, d

\* What a call is told of is there; all of it, unless lengths wrap.
LEMMA RoomFacts ==
  ASSUME NEW n \in Nat \ {0}
  PROVE  /\ Room(n) \in Nat /\ Room(n) <= n
         /\ (codec = "gzip" => n < Width) => Room(n) = n
<1>1. Width \in Nat \ {0}
  BY CodecsAssumption
<1>2. n % Width \in Nat /\ n % Width <= n /\ (n < Width => n % Width = n)
  BY <1>1
<1> QED
  BY <1>2 DEF Room

\* The output behind a call that gave g and left l cells of its room as they were.
LEMMA OutputGrows ==
  ASSUME NEW o \in Seq(Byte), NEW g \in Seq(Byte), NEW l \in Nat
  PROVE  /\ o \o g \o Zeros(l) \in Seq(Byte)
         /\ Len(o \o g \o Zeros(l)) = Len(o) + Len(g) + l
         /\ l = 0 => o \o g \o Zeros(l) = o \o g
<1>1. PICK z : z = Zeros(l)
  OBVIOUS
<1>2. z \in Seq(Byte) /\ Len(z) = l
  <2>1. Zero \in Byte
    BY ByteAssumption
  <2>2. Zeros(l) \in Seq(Byte) /\ Len(Zeros(l)) = l
    BY <2>1, ZerosFacts
  <2> QED
    BY <1>1, <2>2
<1>3. o \o g \o z \in Seq(Byte) /\ Len(o \o g \o z) = Len(o) + Len(g) + Len(z)
  BY <1>2, ThreeParts
<1>4. ASSUME l = 0
      PROVE  o \o g \o z = o \o g
  <2>1. z = <<>>
    BY <1>2, <1>4
  <2>2. \A t \in Seq(Byte) : t \o <<>> = t
    OBVIOUS
  <2>3. o \o g \in Seq(Byte)
    OBVIOUS
  <2> QED
    BY <2>1, <2>2, <2>3
<1> QED
  BY <1>1, <1>2, <1>3, <1>4

LEMMA DecodeGrowingOK ==
  ASSUME IInv, DecodeGrowing
  PROVE  IInv'
<1>1. /\ stage = "decode" /\ codec \in Growing
      /\ UNCHANGED <<codec, maker, content, fault, stream>>
      /\ codec \in Codec \ Framed
  BY DEF DecodeGrowing, Decoding, Growing, Framed, Codec
<1>2. pos \in Nat /\ cap \in Nat /\ result = "none"
  BY <1>1 DEF IInv, TypeOK, EarlyInv
<1>3. PICK m \in 0 .. Len(content) :
        /\ Have = Cells(content, 0, m) /\ Len(Have) = m /\ Len(content) \in Nat
        /\ content \in Seq(Byte) /\ m \in Nat
        /\ (Complete => m = Len(content) /\ Have = content)
        /\ (~Complete => fault = "cut")
  BY <1>1, AtLibrary
<1>4. /\ out \in Seq(Byte) /\ Len(out) < cap /\ pos \in 0 .. m /\ Len(out) \in Nat
      /\ ~GzipWraps =>
           out = Cells(content, 0, pos) /\ (codec = "gzip" => cap - Len(out) < Width)
  BY <1>1, <1>3, LenProperties DEF IInv, GrowInv
<1>5. PICK w, n, g : /\ w = Room(cap - Len(out)) /\ n = Least(w, m - pos)
                     /\ g = Cells(Have, pos, n)
  OBVIOUS
<1>6. /\ w \in Nat /\ Len(out) + w <= cap
      /\ ~GzipWraps => cap = Len(out) + w
  <2>1. cap - Len(out) \in Nat \ {0}
    BY <1>2, <1>4
  <2>2. PICK l \in Nat \ {0} : l = cap - Len(out)
    BY <2>1
  <2>3. w \in Nat /\ w <= l /\ ((codec = "gzip" => l < Width) => w = l)
    BY <1>5, <2>2, RoomFacts
  <2> HIDE DEF GzipWraps, Cells
  <2> QED
    BY <1>2, <1>4, <2>2, <2>3
<1>7. /\ n \in Nat /\ n <= w /\ pos + n <= m /\ pos + n \in 0 .. m
      /\ n < w => pos + n = m
  BY <1>3, <1>4, <1>5, <1>6 DEF Least
<1>8. g = Cells(content, pos, n) /\ g \in Seq(Byte) /\ Len(g) = n
  <2>1. g = Cells(content, pos, n)
    BY <1>2, <1>3, <1>5, <1>7, CellsWithin
  <2>2. pos + n <= Len(content)
    BY <1>2, <1>3, <1>7
  <2> QED
    BY <1>2, <1>3, <1>7, <2>1, <2>2, CellsOf
<1>9. /\ out' = out \o g \o Zeros(cap - Len(out) - w) /\ pos' = pos + n
      /\ IF Complete /\ pos' = m THEN Stop("done") /\ cap' = cap
         ELSE IF n < w THEN Stop(WithoutEnd) /\ cap' = cap
         ELSE IF w = 0 THEN Stop("error") /\ cap' = cap
         ELSE cap' = 2 * cap /\ UNCHANGED <<stage, result>>
  <2> HIDE DEF Have, Cells, Complete, Room, Least, Zeros, Stop
  <2> QED
    BY <1>3, <1>5, <1>8 DEF DecodeGrowing
<1>10. /\ out' \in Seq(Byte) /\ Len(out') = cap - w + n
       /\ cap = Len(out) + w => out' = out \o g
  <2>1. PICK l : l = cap - Len(out) - w
    OBVIOUS
  <2>2. l \in Nat
    BY <1>2, <1>4, <1>6, <2>1
  <2>3. out' = out \o g \o Zeros(l)
    BY <1>9, <2>1
  <2> HIDE DEF Zeros
  <2>4. /\ out \o g \o Zeros(l) \in Seq(Byte)
        /\ Len(out \o g \o Zeros(l)) = Len(out) + n + l
        /\ l = 0 => out \o g \o Zeros(l) = out \o g
    <3>1. PICK o : o = out
      OBVIOUS
    <3>2. o \in Seq(Byte) /\ g \in Seq(Byte) /\ l \in Nat /\ Len(g) = n
      BY <1>4, <1>8, <2>2, <3>1
    <3>3. /\ o \o g \o Zeros(l) \in Seq(Byte)
          /\ Len(o \o g \o Zeros(l)) = Len(o) + Len(g) + l
          /\ l = 0 => o \o g \o Zeros(l) = o \o g
      BY ONLY <3>2, OutputGrows
    <3> QED
      BY <3>1, <3>2, <3>3
  <2>5. PICK k, b : k = Len(out) /\ b = cap
    OBVIOUS
  <2>6. k \in Nat /\ b \in Nat /\ l = b - k - w /\ l \in Nat
    BY <1>2, <1>4, <2>1, <2>2, <2>5
  <2>7. k + n + l = b - w + n /\ (b = k + w => l = 0)
    BY <1>6, <1>7, <2>6
  <2> QED
    BY <2>3, <2>4, <2>5, <2>7
<1>11. ~GzipWraps => out' = Cells(content, 0, pos + n)
  <2>1. SUFFICES ASSUME ~GzipWraps
                 PROVE  out' = Cells(content, 0, pos + n)
    OBVIOUS
  <2>2. cap = Len(out) + w /\ out = Cells(content, 0, pos)
    <3> HIDE DEF GzipWraps, Cells
    <3> QED
      BY <1>4, <1>6, <2>1
  <2>3. out' = out \o g
    BY <1>10, <2>2
  <2>4. PICK b : b = pos + n
    OBVIOUS
  <2>5. b \in Nat /\ pos <= b /\ b <= Len(content) /\ b - pos = n
    BY <1>2, <1>3, <1>7, <2>4
  <2>6. Cells(content, 0, pos) \o Cells(content, pos, b - pos) = Cells(content, 0, b)
    BY <1>2, <1>3, <2>5, CellsJoined
  <2> HIDE DEF Cells
  <2> QED
    BY <1>8, <2>2, <2>3, <2>4, <2>5, <2>6
<1>12. pos + n \in 0 .. Len(content) /\ pos' \in Nat /\ pos' \in 0 .. m
  BY <1>2, <1>3, <1>7, <1>9
<1>13. cap' \in Nat /\ cap <= cap' /\ Len(out') <= cap'
  <2>1. cap' = cap \/ cap' = 2 * cap
    BY <1>9
  <2> QED
    BY <1>2, <1>6, <1>7, <1>10, <2>1
<1>14. codec = "gzip" /\ ~GzipWraps => Len(content) < Width
  <2>1. Width \in Nat
    BY CodecsAssumption
  <2> QED
    BY <1>3, <2>1 DEF GzipWraps
<1>15. \/ stage' = "decode" /\ result' = "none"
       \/ /\ stage' = "done" /\ result' = "done"
          /\ ~GzipWraps => out' = content \/ (fault = "cut" /\ codec \in Lenient)
       \/ stage' = "done" /\ result' = "error" /\ Cause
  <2>1. CASE Complete /\ pos' = m
    <3>1. stage' = "done" /\ result' = "done"
      BY <1>9, <2>1 DEF Stop
    <3>2. ~GzipWraps => out' = Cells(content, 0, Len(content))
      <4> HIDE DEF GzipWraps, Cells
      <4> QED
        BY <1>3, <1>9, <1>11, <2>1
    <3>3. Cells(content, 0, Len(content)) = content
      BY <1>3, CellsWhole
    <3> HIDE DEF GzipWraps, Cells
    <3> QED
      BY <3>1, <3>2, <3>3
  <2>2. CASE ~(Complete /\ pos' = m) /\ n < w
    <3>1. fault = "cut"
      BY <1>3, <1>7, <1>9, <2>2
    <3>2. stage' = "done" /\ result' = WithoutEnd
      BY <1>9, <2>2 DEF Stop
    <3> QED
      BY <3>1, <3>2 DEF WithoutEnd, Cause, Lenient
  <2>3. CASE ~(Complete /\ pos' = m) /\ ~(n < w) /\ w = 0
    <3>1. stage' = "done" /\ result' = "error"
      BY <1>9, <2>3 DEF Stop
    <3>2. GzipWraps
      <4> HIDE DEF GzipWraps
      <4> QED
        BY <1>2, <1>4, <1>6, <2>3
    <3> QED
      BY <3>1, <3>2 DEF Cause, Wraps
  <2>4. CASE ~(Complete /\ pos' = m) /\ ~(n < w) /\ w # 0
    BY <1>1, <1>2, <1>9, <2>4
  <2> QED
    BY <2>1, <2>2, <2>3, <2>4
<1>16. /\ codec \notin Framed /\ codec \notin Retried /\ codec \notin Chunked
       /\ codec # "zstd_sized" /\ codec # "lzo"
  BY <1>1 DEF Growing, Framed, Retried, Chunked
<1>17. Broken <=> GzipWraps
  BY <1>16 DEF Broken, Coincidence
<1>18. Decodes
  <2>1. ~Broken => \E k \in 0 .. Len(content) : out' = Cells(content, 0, k)
    <3> HIDE DEF Broken, GzipWraps, Cells
    <3> QED
      BY <1>11, <1>12, <1>17
  <2> HIDE DEF Broken, GzipWraps, Cells, Cause
  <2> QED
    BY <1>1, <1>12, <1>13, <1>15, <1>16, <1>17, <2>1 DEF Decodes
<1>19. stage' = "decode" => GrowInv'
  <2>1. SUFFICES ASSUME stage' = "decode"
                 PROVE  GrowInv'
    OBVIOUS
  <2>2. ~(n < w) /\ w # 0 /\ cap' = 2 * cap
    BY <1>9, <2>1 DEF Stop
  <2>3. n = w /\ Len(out') = cap /\ cap > 0
    BY <1>2, <1>4, <1>6, <1>7, <1>10, <2>2
  <2>4. Len(out') < cap' /\ cap' - Len(out') = cap
    BY <1>2, <2>2, <2>3
  <2>5. Have' = Have /\ (GzipWraps' <=> GzipWraps)
    BY <1>1 DEF Have, Pieces, GzipWraps
  <2>6. ~GzipWraps => cap <= Len(content)
    <3>1. ASSUME ~GzipWraps
          PROVE  cap <= Len(content)
      <4>1. Len(out') = pos + n
        <5>1. pos + n \in 0 .. Len(content) /\ out' = Cells(content, 0, pos + n)
          BY <1>11, <1>12, <3>1
        <5> QED
          BY <1>3, <5>1, Beginning
      <4> QED
        BY <1>2, <1>3, <1>7, <2>3, <4>1
    <3> QED
      BY <3>1
  <2>7. codec = "gzip" /\ ~GzipWraps => cap < Width
    <3>1. Width \in Nat
      BY CodecsAssumption
    <3> HIDE DEF GzipWraps
    <3> QED
      BY <1>2, <1>3, <1>14, <2>6, <3>1
  <2>8. ~GzipWraps => out' = Cells(content, 0, pos')
    <3> HIDE DEF GzipWraps, Cells
    <3> QED
      BY <1>9, <1>11
  <2> HIDE DEF Have, GzipWraps, Cells
  <2> QED
    BY <1>1, <1>3, <1>10, <1>12, <2>4, <2>5, <2>7, <2>8 DEF GrowInv
<1> QED
  BY <1>16, <1>18, <1>19, DecodesOK

LEMMA DecodeRetriedOK ==
  ASSUME IInv, DecodeRetried
  PROVE  IInv'
<1>1. /\ stage = "decode" /\ codec \in Retried /\ pos' = pos
      /\ UNCHANGED <<codec, maker, content, fault, stream>>
      /\ codec \in Codec \ Framed
  BY DEF DecodeRetried, Decoding, Retried, Framed, Codec
<1>2. /\ pos \in Nat /\ cap \in Nat /\ result = "none" /\ out = <<>>
      /\ (cap > 0 \/ Wraps)
  BY <1>1 DEF IInv, TypeOK, EarlyInv, CapInv
<1>3. PICK m \in 0 .. Len(content) :
        /\ Have = Cells(content, 0, m) /\ Len(Have) = m /\ Len(content) \in Nat
        /\ content \in Seq(Byte) /\ m \in Nat
        /\ (Complete => m = Len(content) /\ Have = content)
        /\ (~Complete => fault = "cut")
  BY <1>1, AtLibrary
<1>4. /\ codec \notin Framed /\ codec \notin Growing /\ codec \notin Chunked
      /\ codec # "zstd_sized"
  BY <1>1 DEF Growing, Framed, Retried, Chunked
<1>5. out = Cells(content, 0, 0) /\ 0 \in 0 .. Len(content) /\ Len(out) = 0
  BY <1>2, <1>3, CellsWhole
<1>6. CASE cap = 0 \/ (~Complete /\ m <= cap)
  <2>1. stage' = "done" /\ result' = "error" /\ cap' = cap /\ out' = out
    BY <1>3, <1>6 DEF DecodeRetried, Stop
  <2>2. Cause
    BY <1>2, <1>3, <1>6 DEF Cause
  <2>3. Len(out') <= cap'
    BY <1>2, <1>5, <2>1
  <2>4. Decodes
    <3> HIDE DEF Broken, Cells, Cause, Wraps
    <3> QED
      BY <1>1, <1>2, <1>4, <1>5, <2>1, <2>2, <2>3 DEF Decodes
  <2> QED
    BY <1>4, <2>4, DecodesOK
<1>7. CASE ~(cap = 0 \/ (~Complete /\ m <= cap)) /\ m <= cap
  <2>1. stage' = "done" /\ result' = "done" /\ cap' = cap /\ out' = Have
    BY <1>3, <1>7 DEF DecodeRetried, Stop
  <2>2. out' = content
    BY <1>3, <1>7, <2>1
  <2>3. Len(out') <= cap'
    BY <1>3, <1>7, <2>1
  <2>4. out' = Cells(content, 0, m)
    BY <1>3, <2>1
  <2>5. Decodes
    <3> HIDE DEF Broken, Cells, Cause, Wraps
    <3> QED
      BY <1>1, <1>2, <1>4, <2>1, <2>2, <2>3, <2>4 DEF Decodes
  <2> QED
    BY <1>4, <2>5, DecodesOK
<1>8. CASE ~(cap = 0 \/ (~Complete /\ m <= cap)) /\ ~(m <= cap)
  <2>1. UNCHANGED <<stage, out, result>> /\ cap' = Grown(cap)
    BY <1>3, <1>8 DEF DecodeRetried
  <2>2. cap < Len(content) /\ cap > 0
    BY <1>2, <1>3, <1>8
  <2>3. cap' \in Nat /\ (cap' > 0 \/ Wraps)
    <3>1. Width \in Nat \ {0}
      BY CodecsAssumption
    <3>2. PICK l : l = Len(content)
      OBVIOUS
    <3>3. l \in Nat /\ cap < l
      BY <1>3, <2>2, <3>2
    <3>4. CASE codec = "bzip2"
      <4>1. PICK d \in Nat : d = 2 * cap /\ d > 0
        BY <1>2, <2>2
      <4>2. cap' = d % Width
        BY <2>1, <3>4, <4>1 DEF Grown
      <4>3. d % Width \in Nat /\ (d < Width => d % Width = d)
        BY <3>1
      <4>4. ~(d < Width) => 2 * l > Width
        BY ONLY <1>2, <3>1, <3>3, <4>1
      <4> QED
        BY <3>2, <3>4, <4>1, <4>2, <4>3, <4>4 DEF Wraps, Bzip2Wraps
    <3>5. CASE codec # "bzip2"
      <4>1. cap' = 2 * cap
        BY <2>1, <3>5 DEF Grown
      <4> QED
        BY <1>2, <2>2, <4>1
    <3> QED
      BY <3>4, <3>5
  <2>4. Len(out') <= cap'
    BY <1>5, <2>1, <2>3
  <2>5. Decodes
    <3> HIDE DEF Broken, Cells, Cause, Wraps
    <3> QED
      BY <1>1, <1>2, <1>4, <1>5, <2>1, <2>3, <2>4 DEF Decodes
  <2> QED
    BY <1>4, <2>5, DecodesOK
<1> QED
  BY <1>6, <1>7, <1>8

LEMMA DecodeChunkedOK ==
  ASSUME IInv, DecodeChunked
  PROVE  IInv'
<1>1. /\ stage = "decode" /\ codec \in Chunked /\ pos' = pos /\ cap' = cap
      /\ UNCHANGED <<codec, maker, content, fault, stream>>
      /\ codec \in Codec \ Framed
  BY DEF DecodeChunked, Decoding, Chunked, Framed, Codec
<1>2. pos \in Nat /\ cap \in Nat /\ result = "none" /\ Len(out) \in Nat
  BY <1>1 DEF IInv, TypeOK, EarlyInv
<1>3. PICK m \in 0 .. Len(content) :
        /\ Have = Cells(content, 0, m) /\ Len(Have) = m /\ Len(content) \in Nat
        /\ content \in Seq(Byte) /\ m \in Nat
        /\ (Complete => m = Len(content) /\ Have = content)
        /\ (~Complete => fault = "cut")
  BY <1>1, AtLibrary
<1>4. PICK q : q = Least(Len(out) + ChunkLen, m)
  OBVIOUS
<1>5. q \in 0 .. m /\ q \in Nat /\ q \in 0 .. Len(content)
  <2>1. ChunkLen \in Nat
    BY CodecsAssumption
  <2>2. Len(out) + ChunkLen \in Nat
    BY <1>2, <2>1
  <2> QED
    BY <1>3, <1>4, <2>2 DEF Least
<1>6. out' = Cells(content, 0, q)
  BY <1>3, <1>4, <1>5, BeginningOf DEF DecodeChunked
<1>7. Len(out') \in Nat
  BY <1>3, <1>5, <1>6, Beginning
<1>8. \/ stage' = "decode" /\ result' = "none"
      \/ /\ stage' = "done" /\ result' = "done"
         /\ out' = content \/ (fault = "cut" /\ codec \in Lenient)
  <2>1. CASE out' = Have
    <3>1. stage' = "done" /\ result' = "done"
      BY <2>1 DEF DecodeChunked, Stop
    <3>2. codec \in Lenient
      BY <1>1 DEF Chunked, Lenient
    <3> QED
      BY <1>3, <2>1, <3>1, <3>2
  <2>2. CASE out' # Have
    BY <1>1, <1>2, <2>2 DEF DecodeChunked
  <2> QED
    BY <2>1, <2>2
<1>9. /\ codec \notin Framed /\ codec \notin Retried /\ codec \notin Growing
      /\ codec # "zstd_sized"
  BY <1>1 DEF Growing, Framed, Retried, Chunked
<1>10. Decodes
  <2> HIDE DEF Broken, Cells
  <2> QED
    BY <1>1, <1>2, <1>5, <1>6, <1>7, <1>8, <1>9 DEF Decodes
<1> QED
  BY <1>9, <1>10, DecodesOK

LEMMA DecodeSizedOK ==
  ASSUME IInv, DecodeSized
  PROVE  IInv'
<1>1. /\ stage = "decode" /\ codec = "zstd_sized" /\ pos' = pos /\ cap' = cap
      /\ UNCHANGED <<codec, maker, content, fault, stream>>
      /\ codec \in Codec \ Framed
  BY DEF DecodeSized, Decoding, Framed, Codec
<1>2. /\ pos \in Nat /\ cap \in Nat /\ result = "none" /\ out = <<>>
      /\ fault \in {"none", "cut", "tail"}
  BY <1>1 DEF IInv, TypeOK, EarlyInv
<1>3. PICK m \in 0 .. Len(content) :
        /\ Have = Cells(content, 0, m) /\ Len(Have) = m /\ Len(content) \in Nat
        /\ content \in Seq(Byte) /\ m \in Nat
        /\ (Complete => m = Len(content) /\ Have = content)
        /\ (~Complete => fault = "cut")
  BY <1>1, AtLibrary
<1>4. codec \notin Framed /\ codec \notin Growing /\ codec \notin Chunked
      /\ codec \notin Retried
  BY <1>1 DEF Growing, Framed, Retried, Chunked
<1>5. PICK behind : behind = SubSeq(stream, Pieces + 1, Len(stream))
  OBVIOUS
<1>6. ASSUME fault = "none"
      PROVE  Complete /\ \A i \in DOMAIN behind : behind[i] = [fmt |-> "end"]
  <2>1. PICK n \in Nat : \E size \in [1 .. n -> 0 .. Len(content)] :
          Packed(content, stream, n, size, fault)
    <3> HIDE DEF Packed
    <3> QED
      BY <1>1 DEF IInv, StreamInv
  <2>2. PICK size \in [1 .. n -> 0 .. Len(content)] :
          Packed(content, stream, n, size, fault)
    BY <2>1
  <2>3. Complete /\ Pieces = n
    BY <1>3, <1>6, <2>2, LibraryReads
  <2>4. Len(stream) = n + 1 /\ Seen(stream, n + 1, EndCell) /\ stream \in Seq(Cell)
    BY <1>6, <2>2 DEF Packed
  <2>5. stream[n + 1] = EndCell
    BY <2>4 DEF Seen
  <2>6. behind = SubSeq(stream, n + 1, n + 1)
    BY <1>5, <2>3, <2>4
  <2>7. DOMAIN behind = {1} /\ behind[1] = stream[n + 1]
    BY <2>4, <2>6
  <2> QED
    BY <2>3, <2>5, <2>7 DEF EndCell
<1>7. CASE Complete /\ \A i \in DOMAIN behind : behind[i] = [fmt |-> "end"]
  <2>1. stage' = "done" /\ result' = "done" /\ out' = Have
    BY <1>5, <1>7 DEF DecodeSized, Stop
  <2>2. out' = content /\ out' = Cells(content, 0, m)
    BY <1>3, <1>7, <2>1
  <2>3. Decodes
    <3> HIDE DEF Broken, Cells, Cause, Wraps
    <3> QED
      BY <1>1, <1>2, <1>4, <2>1, <2>2 DEF Decodes
  <2> QED
    BY <1>4, <2>3, DecodesOK
<1>8. CASE ~(Complete /\ \A i \in DOMAIN behind : behind[i] = [fmt |-> "end"])
  <2>1. stage' = "done" /\ result' = "error" /\ out' = out
    BY <1>5, <1>8 DEF DecodeSized, Stop
  <2>2. Cause
    BY <1>1, <1>2, <1>6, <1>8 DEF Cause
  <2>3. out' = Cells(content, 0, 0) /\ 0 \in 0 .. Len(content)
    BY <1>2, <1>3, <2>1, CellsWhole
  <2>4. Decodes
    <3> HIDE DEF Broken, Cells, Cause, Wraps
    <3> QED
      BY <1>1, <1>2, <1>4, <2>1, <2>2, <2>3 DEF Decodes
  <2> QED
    BY <1>4, <2>4, DecodesOK
<1> QED
  BY <1>7, <1>8

\* A reader of a framing is at its end or before a block.
LEMMA InFraming ==
  ASSUME IInv, stage = "decode", codec \in Framed
  PROVE  \/ AtEnd
         \/ \E n \in Nat \ {0}, d \in Seq(Byte), a \in 0 .. Len(content),
              b \in 0 .. Len(content) : BeforeBlock(n, d, a, b)
<1>1. content \in Seq(Byte) /\ stream \in Seq(Cell) /\ Len(stream) \in Nat
  BY DEF IInv, TypeOK, EarlyInv
<1>2. PICK k \in Nat :
        \E at \in Places(k), from \in Shares(content, k) : FramedInv(k, at, from)
  BY DEF IInv, StreamInv
<1>3. PICK at \in Places(k), from \in Shares(content, k) : FramedInv(k, at, from)
  BY <1>2
<1>4. /\ Framing(codec, content, stream, k, at, from)
      /\ EndIs(codec, stream, at[k + 1], fault) /\ from[k + 1] = Len(content)
      /\ \E j \in 1 .. k + 1 :
           pos = at[j] /\ (~Broken => out = Cells(content, 0, from[j]))
  <2> HIDE DEF Framing, EndIs, Broken
  <2> QED
    BY <1>3 DEF FramedInv
<1>5. PICK j \in 1 .. k + 1 :
        pos = at[j] /\ (~Broken => out = Cells(content, 0, from[j]))
  BY <1>4
<1>6. CASE j = k + 1
  <2>1. EndIs(codec, stream, pos, fault)
    BY <1>4, <1>5, <1>6
  <2>2. ~Broken => out = content
    <3> HIDE DEF Broken, Cells
    <3> QED
      BY <1>1, <1>4, <1>5, <1>6, CellsWhole
  <2> QED
    BY <2>1, <2>2 DEF AtEnd
<1>7. CASE j # k + 1
  <2>1. from \in [1 .. k + 1 -> 0 .. Len(content)]
    BY <1>3 DEF Shares
  <2>2. /\ j + 1 \in 1 .. k + 1 /\ at[j] \in Nat /\ at[j + 1] \in Nat /\ at[k + 1] \in Nat
        /\ from[j] \in Nat /\ from[j + 1] \in Nat
        /\ from[j] < from[j + 1] /\ from[j + 1] <= Len(content)
        /\ at[j + 1] <= at[k + 1]
        /\ \E n \in Nat \ {0}, d \in Seq(Byte) :
             /\ d = Cells(content, from[j], from[j + 1] - from[j])
             /\ Len(d) = from[j + 1] - from[j] /\ Len(d) \in 1 .. BlockLen
             /\ at[j + 1] = at[j] + Lead(codec) + n
             /\ BlockIs(codec, stream, at[j], d, n)
    <3>1. PICK c, x, s : c = codec /\ x = content /\ s = stream
      OBVIOUS
    <3>2. NotLast(c, x, s, k, at, from, j)
      BY <1>1, <1>3, <1>4, <1>7, <3>1 DEF NotLast
    <3>3. BlockThere(c, x, s, k, at, from, j)
      BY ONLY <3>2, AtBlock
    <3>4. BlockThere(codec, content, stream, k, at, from, j)
      BY ONLY <3>1, <3>3
    <3> QED
      BY ONLY <3>4 DEF BlockThere
  <2>3. PICK n \in Nat \ {0}, d \in Seq(Byte) :
          /\ d = Cells(content, from[j], from[j + 1] - from[j])
          /\ Len(d) = from[j + 1] - from[j] /\ Len(d) \in 1 .. BlockLen
          /\ at[j + 1] = at[j] + Lead(codec) + n
          /\ BlockIs(codec, stream, at[j], d, n)
    BY <2>2
  <2>4. from[j] \in 0 .. Len(content) /\ from[j + 1] \in 0 .. Len(content)
    BY <2>1, <2>2
  <2>5. Len(stream) < pos + Lead(codec) + n => fault = "cut"
    <3>1. PICK e : e = at[k + 1]
      OBVIOUS
    <3>2. PICK q : q = at[j + 1]
      OBVIOUS
    <3>3. q = pos + Lead(codec) + n /\ q <= e /\ e \in Nat /\ q \in Nat
      BY <1>5, <2>2, <2>3, <3>1, <3>2
    <3>4. Len(stream) < q => Len(stream) < e /\ Len(stream) < e + WordLen
      BY <1>1, <3>3, CellFacts
    <3>5. EndIs(codec, stream, e, fault)
      BY <1>4, <3>1
    <3> QED
      BY <3>3, <3>4, <3>5 DEF EndIs
  <2>6. ASSUME UNCHANGED <<stage, codec, content, fault, stream>>,
               pos' = pos + Lead(codec) + n,
               ~Broken => out' = Cells(content, 0, from[j + 1])
        PROVE  StreamInv'
    <3>1. Broken' <=> Broken
      BY <2>6 DEF Broken, Coincidence, GzipWraps
    <3>2. pos' = at[j + 1] /\ j + 1 \in 1 .. k + 1
      BY <1>5, <2>2, <2>3, <2>6
    <3>3. \E i \in 1 .. k + 1 :
            pos' = at[i] /\ (~Broken' => out' = Cells(content', 0, from[i]))
      <4> HIDE DEF Broken, Cells
      <4> QED
        BY <2>6, <3>1, <3>2
    <3>4. /\ Framing(codec', content', stream', k, at, from)
          /\ EndIs(codec', stream', at[k + 1], fault') /\ from[k + 1] = Len(content')
          /\ from \in Shares(content', k)
      <4> HIDE DEF Framing, EndIs, Shares
      <4> QED
        BY <1>4, <2>6
    <3>5. FramedInv(k, at, from)'
      <4> HIDE DEF Framing, EndIs, Shares, Broken, Cells
      <4> QED
        BY <3>3, <3>4 DEF FramedInv
    <3>6. \E l \in Nat : \E at2 \in Places(l), from2 \in Shares(content', l) :
            FramedInv(l, at2, from2)'
      <4> HIDE DEF FramedInv, Shares, Places
      <4> QED
        BY <3>4, <3>5
    <3> HIDE DEF FramedInv, Shares, Places
    <3> QED
      BY <2>6, <3>6 DEF StreamInv
  <2>7. \E a \in 0 .. Len(content), b \in 0 .. Len(content) :
          a = from[j] /\ b = from[j + 1]
    BY <2>4
  <2>8. PICK a \in 0 .. Len(content), b \in 0 .. Len(content) :
          a = from[j] /\ b = from[j + 1]
    BY <2>7
  <2>9. BeforeBlock(n, d, a, b)
    <3>1. a <= b
      BY <2>2, <2>8
    <3> HIDE DEF Broken, Cells, BlockIs, Lead, StreamInv
    <3> QED
      BY <1>5, <2>3, <2>5, <2>6, <2>8, <3>1 DEF BeforeBlock
  <2> QED
    BY <2>9
<1> QED
  BY <1>6, <1>7

\* What follows a block when it was read.
LEMMA OneBlockMore ==
  ASSUME NEW x, NEW a, NEW b, NEW d, NEW o, Adds(x, a, b, d, o)
  PROVE  o \o d = Cells(x, 0, b)
<1>1. /\ x \in Seq(Byte) /\ a \in 0 .. Len(x) /\ b \in 0 .. Len(x) /\ a <= b
      /\ d = Cells(x, a, b - a) /\ o = Cells(x, 0, a)
  BY DEF Adds
<1>2. a \in Nat /\ b \in Nat /\ b <= Len(x)
  BY <1>1, CellsWhole
<1> QED
  BY <1>1, <1>2, CellsJoined

LEMMA DecodeLz4LegacyOK ==
  ASSUME IInv, DecodeLz4Legacy
  PROVE  IInv'
<1>1. /\ stage = "decode" /\ codec = "lz4_legacy" /\ cap' = cap
      /\ UNCHANGED <<codec, maker, content, fault, stream>>
  BY DEF DecodeLz4Legacy, Decoding
<1>2. /\ pos \in Nat /\ cap \in Nat /\ result = "none" /\ content \in Seq(Byte)
      /\ stream \in Seq(Cell) /\ Len(stream) \in Nat /\ pos <= Len(stream)
  BY <1>1 DEF IInv, TypeOK, EarlyInv, Framed
<1>3. /\ codec \in Framed /\ codec \notin Growing /\ codec \notin Chunked
      /\ codec \notin Retried /\ codec # "zstd_sized" /\ codec # "lzo" /\ codec \in Lenient
  BY <1>1 DEF Growing, Framed, Retried, Chunked, Lenient
<1>4. ~Broken
  BY <1>1 DEF Broken, Coincidence, GzipWraps
<1>5. WordLen \in Nat \ {0} /\ Wild \in Nat \ {0}
  BY CellFacts
<1> DEFINE stops == stage' = "done" /\ result' = "done" /\ pos' = pos /\ out' = out
           reads(n) == Remaining >= WordLen /\ n # 0 /\ ~(n > Remaining - WordLen)
<1>6. IF reads(WordAt(pos))
        THEN /\ out' = out \o stream[pos + WordLen + 1].data
             /\ pos' = pos + WordLen + WordAt(pos)
             /\ UNCHANGED <<stage, result>>
        ELSE stops
  <2>1. Remaining \in Int
    BY <1>2 DEF Remaining
  <2> HIDE DEF Remaining, WordAt
  <2> QED
    BY <1>5, <2>1 DEF DecodeLz4Legacy, Stop
<1>7. reads(WordAt(pos)) \/ stops
  BY <1>6
<1>8. CASE AtEnd
  <2>1. EndIs(codec, stream, pos, fault) /\ out = content
    BY <1>4, <1>8 DEF AtEnd
  <2>2. stops
    <3>1. SUFFICES ASSUME Remaining >= WordLen
                   PROVE  WordAt(pos) = 0 \/ WordAt(pos) > Remaining - WordLen
      BY <1>6
    <3>2. Len(stream) > pos
      BY <1>2, <1>5, <3>1 DEF Remaining
    <3>3. fault = "tail"
      <4>1. fault # "cut" /\ fault # "none"
        BY <1>2, <1>3, <2>1, <3>2 DEF EndIs
      <4>2. fault \in {"none", "cut", "tail"}
        BY DEF IInv, TypeOK
      <4> QED
        BY <4>1, <4>2
    <3>4. \/ stream[pos + 1] = Zero
          \/ stream[pos + 1] = [fmt |-> "lz4"] /\ Len(stream) - pos < Wild
      BY <1>3, <2>1, <3>3 DEF EndIs
    <3>5. CASE stream[pos + 1] = Zero
      BY <3>5, CellFacts DEF WordAt
    <3>6. CASE stream[pos + 1] = [fmt |-> "lz4"] /\ Len(stream) - pos < Wild
      <4>1. [fmt |-> "lz4"] \notin Byte /\ [fmt |-> "lz4"].fmt # "word"
        BY CodecsAssumption DEF Coded
      <4>2. PICK c : c = stream[pos + 1]
        OBVIOUS
      <4>3. c \notin Byte /\ c.fmt # "word"
        BY <3>6, <4>1, <4>2
      <4>4. WordAt(pos) = Wild
        BY <4>2, <4>3 DEF WordAt
      <4> QED
        BY <1>2, <1>5, <3>6, <4>4 DEF Remaining
    <3> QED
      BY <3>4, <3>5, <3>6
  <2>3. out' = Cells(content, 0, Len(content)) /\ Len(content) \in 0 .. Len(content)
    BY <1>2, <2>1, <2>2, CellsWhole
  <2>4. Decodes
    <3> HIDE DEF Broken, Cells, Cause
    <3> QED
      BY <1>1, <1>2, <1>3, <1>4, <2>1, <2>2, <2>3 DEF Decodes
  <2>5. stage' # "decode"
    BY <2>2
  <2> QED
    BY <2>4, <2>5, DecodesOK
<1>9. ASSUME NEW n \in Nat \ {0}, NEW d \in Seq(Byte), NEW a \in 0 .. Len(content),
             NEW b \in 0 .. Len(content), BeforeBlock(n, d, a, b)
      PROVE  IInv'
  <2>1. /\ a <= b /\ d = Cells(content, a, b - a) /\ out = Cells(content, 0, a)
        /\ BlockIs(codec, stream, pos, d, n)
    BY <1>4, <1>9 DEF BeforeBlock
  <2>2. Len(stream) < pos + WordLen + n => fault = "cut"
    BY <1>3, <1>9 DEF BeforeBlock, Lead
  <2>3. Seen(stream, pos + 1, W(n)) /\ Seen(stream, pos + WordLen + 1, CodedAs(d))
    BY <1>3, <2>1 DEF BlockIs
  <2>4. Remaining >= WordLen => WordAt(pos) = n
    <3>1. Remaining >= WordLen => pos + 1 <= Len(stream)
      BY <1>2, <1>5 DEF Remaining
    <3>2. pos + 1 <= Len(stream) => stream[pos + 1] = W(n)
      BY <2>3 DEF Seen
    <3> QED
      BY <1>2, <3>1, <3>2, WordRead
  <2>5. CASE stops
    <3>1. fault = "cut"
      <4>1. ~reads(n)
        <5>1. SUFFICES ASSUME Remaining >= WordLen /\ n # 0 /\ ~(n > Remaining - WordLen)
                       PROVE  FALSE
          OBVIOUS
        <5>2. WordAt(pos) = n
          BY <2>4, <5>1
        <5>3. stage' = stage
          BY <1>6, <5>1, <5>2
        <5> QED
          BY <1>1, <2>5, <5>3
      <4> QED
        BY <1>2, <1>5, <2>2, <4>1 DEF Remaining
    <3>2. Decodes
      <4> HIDE DEF Broken, Cells, Cause
      <4> QED
        BY <1>1, <1>2, <1>3, <2>1, <2>5, <3>1 DEF Decodes
    <3>3. stage' # "decode"
      BY <2>5
    <3> QED
      BY <3>2, <3>3, DecodesOK
  <2>6. CASE ~stops
    <3>1. /\ reads(WordAt(pos)) /\ out' = out \o stream[pos + WordLen + 1].data
          /\ pos' = pos + WordLen + WordAt(pos)
          /\ UNCHANGED <<stage, result>>
      BY ONLY <1>6, <2>6
    <3>2. WordAt(pos) = n /\ ~(n > Remaining - WordLen)
      BY <2>4, <3>1
    <3>3. pos' = pos + WordLen + n /\ pos' <= Len(stream) /\ pos' \in Nat
          /\ pos + WordLen + 1 <= Len(stream)
      BY <1>2, <1>5, <3>1, <3>2 DEF Remaining
    <3>4. stream[pos + WordLen + 1] = CodedAs(d)
      BY <2>3, <3>3 DEF Seen
    <3>5. out' = out \o d
      BY <3>1, <3>4 DEF CodedAs
    <3>6. out' = Cells(content, 0, b)
      <4>1. PICK o : o = out
        OBVIOUS
      <4>2. Adds(content, a, b, d, o)
        BY <1>2, <2>1, <4>1 DEF Adds
      <4>3. o \o d = Cells(content, 0, b)
        BY <4>2, OneBlockMore
      <4> QED
        BY <3>5, <4>1, <4>3
    <3>7. StreamInv'
      <4>1. pos' = pos + Lead(codec) + n
        BY <1>3, <3>3 DEF Lead
      <4> HIDE DEF Broken, Cells, Lead, StreamInv
      <4> QED
        BY <1>1, <1>9, <3>1, <3>6, <4>1 DEF BeforeBlock
    <3>8. Decodes
      <4> HIDE DEF Broken, Cells, Cause, reads
      <4> QED
        BY <1>1, <1>2, <1>3, <3>1, <3>3, <3>6 DEF Decodes
    <3> QED
      BY <1>3, <3>7, <3>8, DecodesOK
  <2> QED
    BY <2>5, <2>6
<1> QED
  BY <1>1, <1>3, <1>8, <1>9, InFraming

\* What a block of an lzop stream gives.
LEMMA LzoDataFacts ==
  ASSUME NEW p \in Nat, NEW n \in Nat \ {0}, NEW d \in Seq(Byte), Len(d) \in 1 .. BlockLen,
         codec = "lzo", stream \in Seq(Cell), BlockIs(codec, stream, p, d, n),
         p + 3 * WordLen + n <= Len(stream), WordAt(p) = Len(d), WordAt(p + WordLen) = n,
         ~Broken
  PROVE  LzoData(p) = d
<1>1. /\ WordLen \in Nat \ {0} /\ Wild \in Nat /\ BlockLen \in Nat /\ BlockLen < Wild
      /\ Len(d) \in Nat /\ Len(stream) \in Nat
  BY CellFacts
<1>2. PICK q : q = p + 3 * WordLen
  OBVIOUS
<1>3. q \in Nat /\ q + n <= Len(stream) /\ q + 1 <= Len(stream)
      /\ p \in 0 .. Len(stream) - 3 * WordLen - 1
  BY <1>1, <1>2
<1>4. \/ n = Len(d) /\ \A i \in 1 .. n : Seen(stream, q + i, d[i])
      \/ Seen(stream, q + 1, CodedAs(d))
  BY <1>2 DEF BlockIs
<1>5. PICK block : block = Cells(stream, q, n)
  OBVIOUS
<1>6. LzoData(p) = IF n = Len(d) THEN block ELSE block[1].data
  <2> HIDE DEF Cells, WordAt
  <2> QED
    BY <1>2, <1>5 DEF LzoData
<1>7. CASE n = Len(d) /\ \A i \in 1 .. n : Seen(stream, q + i, d[i])
  <2>1. \A i \in 1 .. n : stream[q + i] = d[i]
    <3> TAKE i \in 1 .. n
    <3>1. q + i <= Len(stream)
      BY <1>1, <1>3
    <3> QED
      BY <1>7, <3>1 DEF Seen
  <2>2. PICK m : m = Len(d)
    OBVIOUS
  <2>3. \A i \in 1 .. Len(d) : stream[q + i] = d[i]
    BY <1>7, <2>1
  <2>4. d \in Seq(Cell)
    <3>1. \A i \in 1 .. Len(d) : d[i] \in Cell
      BY ElementOfSeq, CellFacts
    <3> QED
      BY <3>1, InSeq
  <2>5. Cells(stream, q, Len(d)) = d
    BY <1>3, <2>3, <2>4, CellsFound
  <2>6. block = d
    BY <1>5, <1>7, <2>5
  <2> QED
    BY <1>6, <1>7, <2>6
<1>8. CASE Seen(stream, q + 1, CodedAs(d))
  <2>1. stream[q + 1] = CodedAs(d)
    BY <1>3, <1>8 DEF Seen
  <2>2. n # Len(d)
    <3>1. SUFFICES ASSUME n = Len(d)
                   PROVE  Coincidence
      BY DEF Broken
    <3>2. CodedAs(d) \notin Byte /\ CodedAs(d).fmt = "coded"
      <4>1. CodedAs(d) \notin Byte
        BY CellFacts
      <4> QED
        BY <4>1 DEF CodedAs
    <3>3. W(n) \notin Byte /\ W(n).fmt = "word"
      <4>1. W(n) \notin Byte
        BY CellFacts
      <4> QED
        BY <4>1 DEF W
    <3>4. stream[p + 1] = W(n) /\ stream[p + WordLen + 1] = W(n)
      <4>1. p + 1 <= Len(stream) /\ p + WordLen + 1 <= Len(stream)
        BY <1>1, <1>2, <1>3
      <4> HIDE DEF W
      <4> QED
        BY <3>1, <4>1 DEF BlockIs, Seen
    <3>5. stream[p + 3 * WordLen + 1] = CodedAs(d)
      BY <1>2, <2>1
    <3>6. PICK u, v : u = W(n) /\ v = CodedAs(d)
      OBVIOUS
    <3> HIDE DEF W, CodedAs
    <3> QED
      BY <1>3, <3>2, <3>3, <3>4, <3>5, <3>6 DEF Coincidence
  <2>3. block[1] = stream[q + 1]
    <3>1. n \in Nat /\ q \in Nat /\ 1 \in 1 .. n
      BY <1>3
    <3>2. \A i \in 1 .. n : Cells(stream, q, n)[i] = stream[q + i]
      BY <3>1, CellsAt
    <3> QED
      BY <1>5, <3>1, <3>2
  <2>4. block[1].data = d
    BY <2>1, <2>3 DEF CodedAs
  <2> QED
    BY <1>6, <2>2, <2>4
<1> QED
  BY <1>4, <1>7, <1>8

LEMMA DecodeLzoOK ==
  ASSUME IInv, DecodeLzo
  PROVE  IInv'
<1>1. /\ stage = "decode" /\ codec = "lzo" /\ cap' = cap
      /\ UNCHANGED <<codec, maker, content, fault, stream>>
  BY DEF DecodeLzo, Decoding
<1>2. /\ pos \in Nat /\ cap \in Nat /\ result = "none" /\ content \in Seq(Byte)
      /\ stream \in Seq(Cell) /\ Len(stream) \in Nat /\ pos <= Len(stream)
  BY <1>1 DEF IInv, TypeOK, EarlyInv, Framed
<1>3. /\ codec \in Framed /\ codec \notin Growing /\ codec \notin Chunked
      /\ codec \notin Retried /\ codec # "zstd_sized"
  BY <1>1 DEF Growing, Framed, Retried, Chunked
<1>4. ~Broken => \E m \in 0 .. Len(content) : out = Cells(content, 0, m)
  <2>1. ~Broken => Len(out) <= Len(content) /\ out = Cells(content, 0, Len(out))
    BY DEF IInv, NothingForeign, Broken
  <2>2. AtEnd => (~Broken => out = Cells(content, 0, Len(content)))
    <3> HIDE DEF Broken, Cells
    <3> QED
      BY <1>2, CellsWhole DEF AtEnd
  <2>3. \A n, d, a, b : BeforeBlock(n, d, a, b) => (~Broken => out = Cells(content, 0, a))
    BY DEF BeforeBlock
  <2>4. Len(content) \in 0 .. Len(content)
    BY <1>2, CellsWhole
  <2> HIDE DEF Broken, Cells, AtEnd, BeforeBlock
  <2> QED
    BY <1>1, <1>3, <2>2, <2>3, <2>4, InFraming
<1>5. WordLen \in Nat \ {0} /\ BlockLen \in Nat
  BY CellFacts
<1>6. PICK r, w, n : r = Remaining /\ w = WordAt(pos) /\ n = WordAt(pos + WordLen)
  OBVIOUS
<1>7. r = Len(stream) - pos /\ r \in Nat
  BY <1>2, <1>6 DEF Remaining
<1>8. \/ /\ r >= WordLen /\ w = 0
         /\ stage' = "done" /\ result' = "done" /\ pos' = pos /\ out' = out
      \/ /\ ~(r >= WordLen /\ w = 0)
         /\ r < 3 * WordLen \/ w > BlockLen \/ n > r - 3 * WordLen
         /\ stage' = "done" /\ result' = "error" /\ pos' = pos /\ out' = out
      \/ /\ ~(r < 3 * WordLen) /\ ~(w > BlockLen) /\ ~(n > r - 3 * WordLen)
         /\ ~(r >= WordLen /\ w = 0)
         /\ out' = out \o LzoData(pos) /\ pos' = pos + 3 * WordLen + n
         /\ UNCHANGED <<stage, result>>
  <2> HIDE DEF Remaining, WordAt, LzoData
  <2> QED
    BY <1>6 DEF DecodeLzo, LzoEnds, NextBlock, Stop
<1>9. ASSUME fault = "cut", stage' = "done", result' = "error", pos' = pos, out' = out
      PROVE  IInv'
  <2>1. Decodes
    <3> HIDE DEF Broken, Cells
    <3> QED
      BY <1>1, <1>2, <1>3, <1>4, <1>9 DEF Decodes, Cause
  <2> QED
    BY <1>9, <2>1, DecodesOK
<1>10. CASE AtEnd
  <2>1. /\ Seen(stream, pos + 1, W(0)) /\ (fault = "cut" <=> Len(stream) < pos + WordLen)
        /\ (~Broken => out = content)
    BY <1>1, <1>10 DEF AtEnd, EndIs
  <2>2. r >= WordLen => w = 0
    <3>1. r >= WordLen => pos + 1 <= Len(stream)
      BY <1>2, <1>5, <1>7
    <3>2. pos + 1 <= Len(stream) => stream[pos + 1] = W(0)
      BY <2>1 DEF Seen
    <3>3. 0 \in Nat
      OBVIOUS
    <3> QED
      BY <1>2, <1>6, <3>1, <3>2, <3>3, WordRead
  <2>3. CASE r >= WordLen
    <3>1. stage' = "done" /\ result' = "done" /\ pos' = pos /\ out' = out
      BY ONLY <1>8, <2>2, <2>3
    <3>2. Decodes
      <4> HIDE DEF Broken, Cells, Cause
      <4> QED
        BY <1>1, <1>2, <1>3, <1>4, <2>1, <3>1 DEF Decodes
    <3> QED
      BY <3>1, <3>2, DecodesOK
  <2>4. CASE ~(r >= WordLen)
    <3>1. r < 3 * WordLen /\ fault = "cut"
      BY <1>2, <1>5, <1>7, <2>1, <2>4
    <3>2. stage' = "done" /\ result' = "error" /\ pos' = pos /\ out' = out
      BY ONLY <1>8, <2>4, <3>1
    <3> QED
      BY <1>9, <3>1, <3>2
  <2> QED
    BY <2>3, <2>4
<1>11. ASSUME NEW m \in Nat \ {0}, NEW d \in Seq(Byte), NEW a \in 0 .. Len(content),
              NEW b \in 0 .. Len(content), BeforeBlock(m, d, a, b)
       PROVE  IInv'
  <2>1. /\ a <= b /\ d = Cells(content, a, b - a) /\ BlockIs(codec, stream, pos, d, m)
        /\ (~Broken => out = Cells(content, 0, a)) /\ Len(d) \in 1 .. BlockLen
    BY <1>11 DEF BeforeBlock
  <2>2. Len(stream) < pos + 3 * WordLen + m => fault = "cut"
    BY <1>1, <1>11 DEF BeforeBlock, Lead
  <2>3. Seen(stream, pos + 1, W(Len(d))) /\ Seen(stream, pos + WordLen + 1, W(m))
    BY <1>1, <2>1 DEF BlockIs
  <2>4. r >= WordLen => w = Len(d)
    <3>1. r >= WordLen => pos + 1 <= Len(stream)
      BY <1>2, <1>5, <1>7
    <3>2. pos + 1 <= Len(stream) => stream[pos + 1] = W(Len(d))
      BY <2>3 DEF Seen
    <3>3. Len(d) \in Nat
      OBVIOUS
    <3> QED
      BY <1>2, <1>6, <3>1, <3>2, <3>3, WordRead
  <2>5. r >= 3 * WordLen => n = m
    <3>1. r >= 3 * WordLen => (pos + WordLen) + 1 <= Len(stream)
      BY <1>2, <1>5, <1>7
    <3>2. (pos + WordLen) + 1 <= Len(stream) => stream[(pos + WordLen) + 1] = W(m)
      BY <2>3 DEF Seen
    <3>3. pos + WordLen \in Nat /\ m \in Nat
      BY <1>2, <1>5
    <3> QED
      BY <1>6, <3>1, <3>2, <3>3, WordRead
  <2>6. ~(r >= WordLen /\ w = 0)
    BY <2>1, <2>4
  <2>7. CASE fault = "cut" /\ stage' = "done"
    <3>1. result' = "error" /\ pos' = pos /\ out' = out
      BY <1>1, <1>8, <2>6, <2>7
    <3> QED
      BY <1>9, <2>7, <3>1
  <2>8. ASSUME ~(fault = "cut" /\ stage' = "done")
        PROVE  /\ ~(r < 3 * WordLen) /\ ~(n > r - 3 * WordLen)
               /\ out' = out \o LzoData(pos) /\ pos' = pos + 3 * WordLen + n
               /\ UNCHANGED <<stage, result>>
    <3>1. CASE r < 3 * WordLen \/ w > BlockLen \/ n > r - 3 * WordLen
      <4>1. stage' = "done"
        BY ONLY <1>8, <2>6, <3>1
      <4>2. ~(r < 3 * WordLen) => ~(w > BlockLen) /\ n = m
        BY <1>5, <1>7, <2>1, <2>4, <2>5
      <4>3. Len(stream) < pos + 3 * WordLen + m
        BY <1>2, <1>5, <1>7, <3>1, <4>2
      <4> QED
        BY <2>2, <2>8, <4>1, <4>3
    <3>2. CASE ~(r < 3 * WordLen \/ w > BlockLen \/ n > r - 3 * WordLen)
      BY ONLY <1>8, <2>6, <3>2
    <3> QED
      BY ONLY <3>1, <3>2
  <2>9. CASE ~(fault = "cut" /\ stage' = "done")
    <3>1. /\ ~(r < 3 * WordLen) /\ ~(n > r - 3 * WordLen)
          /\ out' = out \o LzoData(pos) /\ pos' = pos + 3 * WordLen + n
          /\ UNCHANGED <<stage, result>>
      BY <2>8, <2>9
    <3>2. n = m /\ w = Len(d)
      BY <1>5, <1>7, <2>4, <2>5, <3>1
    <3>3. pos + 3 * WordLen + m <= Len(stream)
      BY <1>2, <1>5, <1>7, <3>1, <3>2
    <3>4. pos' = pos + 3 * WordLen + m /\ pos' \in Nat /\ pos' <= Len(stream)
      BY <1>2, <1>5, <3>1, <3>2, <3>3
    <3>5. ASSUME ~Broken
          PROVE  out' = Cells(content, 0, b)
      <4>1. WordAt(pos) = Len(d) /\ WordAt(pos + WordLen) = m
        BY <1>6, <3>2
      <4>2. LzoData(pos) = d
        BY <1>1, <1>2, <2>1, <3>3, <3>5, <4>1, LzoDataFacts
      <4>3. PICK o : o = out
        OBVIOUS
      <4>4. Adds(content, a, b, d, o)
        BY <1>2, <2>1, <3>5, <4>3 DEF Adds
      <4>5. o \o d = Cells(content, 0, b)
        BY <4>4, OneBlockMore
      <4> QED
        BY <3>1, <4>2, <4>3, <4>5
    <3>6. StreamInv'
      <4>1. pos' = pos + Lead(codec) + m
        BY <1>1, <3>4 DEF Lead
      <4> HIDE DEF Broken, Cells, Lead, StreamInv
      <4> QED
        BY <1>1, <1>11, <3>1, <3>5, <4>1 DEF BeforeBlock
    <3>7. Decodes
      <4> HIDE DEF Broken, Cells, Cause
      <4> QED
        BY <1>1, <1>2, <1>3, <3>1, <3>4, <3>5 DEF Decodes
    <3> QED
      BY <1>3, <3>6, <3>7, DecodesOK
  <2> QED
    BY <2>7, <2>9
<1> QED
  BY <1>1, <1>3, <1>10, <1>11, InFraming

-----------------------------------------------------------------------------
(* The theorems                                                             *)

LEMMA StutterOK ==
  ASSUME IInv, UNCHANGED vars
  PROVE  IInv'
<1>1. /\ stage' = stage /\ codec' = codec /\ maker' = maker /\ content' = content
      /\ fault' = fault /\ stream' = stream /\ pos' = pos /\ cap' = cap /\ out' = out
      /\ result' = result
  BY DEF vars
<1>2. Broken' <=> Broken
  BY <1>1 DEF Broken, Coincidence, GzipWraps
<1> HIDE DEF Broken
<1>3. TypeOK' /\ EarlyInv' /\ CapInv'
  BY <1>1 DEF IInv, TypeOK, EarlyInv, CapInv, Wraps, GzipWraps, Bzip2Wraps
<1>4. NothingForeign' /\ PartOnlyIfLenient' /\ RefusedForCause'
  <2>1. /\ Coincidence' <=> Coincidence
        /\ GzipWraps' <=> GzipWraps
        /\ Bzip2Wraps' <=> Bzip2Wraps
    BY <1>1 DEF Coincidence, GzipWraps, Bzip2Wraps
  <2> HIDE DEF Coincidence, GzipWraps, Bzip2Wraps
  <2> QED
    BY <1>1, <2>1 DEF IInv, NothingForeign, PartOnlyIfLenient, RefusedForCause
<1>5. StreamInv'
  <2>1. StreamInv
    BY DEF IInv
  <2>2. ASSUME NEW k, NEW at, NEW from, EncodeInv(k, at, from)
        PROVE  EncodeInv(k, at, from)'
    <3> HIDE DEF Framing
    <3> QED
      BY <1>1, <2>2 DEF EncodeInv
  <2>3. ASSUME NEW k, NEW at, NEW from, FramedInv(k, at, from)
        PROVE  FramedInv(k, at, from)'
    <3> HIDE DEF Framing, EndIs, Cells
    <3> QED
      BY <1>1, <1>2, <2>3 DEF FramedInv
  <2> HIDE DEF EncodeInv, FramedInv, Packed, Places, Shares
  <2> QED
    BY <1>1, <2>1, <2>2, <2>3 DEF StreamInv
<1>6. GrowInv'
  <2>1. Have' = Have /\ (GzipWraps' <=> GzipWraps)
    BY <1>1 DEF Have, Pieces, GzipWraps
  <2> HIDE DEF Have, GzipWraps
  <2> QED
    BY <1>1, <2>1 DEF IInv, GrowInv
<1> QED
  BY <1>3, <1>4, <1>5, <1>6 DEF IInv

\* The invariant, for streams, blocks and buffers of any length: what a stream
\* holds of its content stays true from the encoder through damage to the last
\* step of its decoder.
THEOREM Invariant == Spec => []IInv
<1>1. ASSUME IInv, [Next]_vars
      PROVE  IInv'
  <2>1. CASE Begin
    BY <1>1, <2>1, BeginOK
  <2>2. CASE EncodeBlock
    BY <1>1, <2>2, EncodeBlockOK
  <2>3. CASE EndEncode
    BY <1>1, <2>3, EndEncodeOK
  <2>4. CASE CutStream
    BY <1>1, <2>4, CutStreamOK
  <2>5. CASE AppendTail
    BY <1>1, <2>5, AppendTailOK
  <2>6. CASE BeginDecode
    BY <1>1, <2>6, BeginDecodeOK
  <2>7. CASE DecodeLz4Legacy
    BY <1>1, <2>7, DecodeLz4LegacyOK
  <2>8. CASE DecodeLzo
    BY <1>1, <2>8, DecodeLzoOK
  <2>9. CASE DecodeGrowing
    BY <1>1, <2>9, DecodeGrowingOK
  <2>10. CASE DecodeRetried
    BY <1>1, <2>10, DecodeRetriedOK
  <2>11. CASE DecodeChunked
    BY <1>1, <2>11, DecodeChunkedOK
  <2>12. CASE DecodeSized
    BY <1>1, <2>12, DecodeSizedOK
  <2>13. CASE UNCHANGED vars
    BY <1>1, <2>13, StutterOK
  <2> QED
    BY <1>1, <2>1, <2>2, <2>3, <2>4, <2>5, <2>6, <2>7, <2>8, <2>9, <2>10, <2>11,
       <2>12, <2>13 DEF Next, Decode
<1> QED
  BY <1>1, InitOK, PTL DEF Spec

\* decompress(): the output never exceeds the buffer, and the place of a framing's
\* reader never passes the end of the stream.
THEOREM TypeCorrect == Spec => []TypeOK
<1>1. IInv => TypeOK
  BY DEF IInv
<1> QED
  BY <1>1, Invariant, PTL

\* decompress(): whatever became of the stream, the output is a beginning of what
\* was compressed.
THEOREM NothingElse == Spec => []NothingForeign
<1>1. IInv => NothingForeign
  BY DEF IInv
<1> QED
  BY <1>1, Invariant, PTL

\* decompress(): a decoder that returns has returned everything, unless the stream
\* was cut and the decoder is one that returns a part.
THEOREM PartOnly == Spec => []PartOnlyIfLenient
<1>1. IInv => PartOnlyIfLenient
  BY DEF IInv
<1> QED
  BY <1>1, Invariant, PTL

\* decompress(): no decoder refuses a whole stream, but for a tail behind a zstd
\* frame of known size and the lengths at which bzip2's unsigned int wraps.
THEOREM Refused == Spec => []RefusedForCause
<1>1. IInv => RefusedForCause
  BY DEF IInv
<1> QED
  BY <1>1, Invariant, PTL

=============================================================================
