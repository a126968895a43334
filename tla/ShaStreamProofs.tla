---------------------------- MODULE ShaStreamProofs ----------------------------
(***************************************************************************)
(* Proofs about ShaStream, for blocks and length fields of any length.     *)
(*                                                                         *)
(* The padding loop adds a zero per round and must stop with Block -       *)
(* LenField bytes in the buffer.  ToGo is how many rounds it still takes,  *)
(* across the end of a block if need be; rounds done and to go add up to   *)
(* less than a block, which is why the zeros are the least number.         *)
(***************************************************************************)
EXTENDS ShaStream, SequenceTheorems, TLAPS

\* What is in the object and in the running call, in order.
All == hashed \o buffer \o pending

ToGo == IF Len(buffer) <= Block - LenField
          THEN Block - LenField - Len(buffer)
          ELSE Block - LenField - Len(buffer) + Block

\* The message with the mark and z zeros.
Marked(z) == fed \o <<128>> \o Zeros(z)

StageInv ==
  /\ stage \in {"ready", "update"} => All = fed
  /\ stage \in {"ready", "pad", "done"} => pending = <<>>
  /\ stage = "pad" =>
       \E z \in 0 .. Block - 1 : All = Marked(z) /\ z + ToGo < Block
  /\ stage \in {"length", "done"} =>
       \E z \in 0 .. Block - 1 : All = Marked(z) \o StoreBE[8 * Len(fed)]
  /\ stage = "length" => Len(buffer) + Len(pending) = Block \/ pending = <<>>
  /\ stage = "length" /\ pending = <<>> => buffer = <<>>
  /\ stage = "done" => buffer = <<>>

IInv ==
  /\ TypeOK
  /\ bits = 8 * Len(fed) /\ Len(fed) <= MaxLen
  /\ \E blocks \in Nat : Len(hashed) = blocks * Block
  /\ StageInv
-----------------------------------------------------------------------------
\* What the constants are.
LEMMA Givens ==
  /\ Block \in Nat /\ LenField \in Nat /\ 0 < LenField /\ LenField < Block
BY ShaAssumption

\* The mark and a zero are sequences of one byte.
LEMMA OneByte ==
  /\ <<128>> \in Seq(Byte) /\ <<0>> \in Seq(Byte)
  /\ Len(<<128>>) = 1 /\ Len(<<0>>) = 1
BY ShaAssumption

\* A run of zeros is a sequence of bytes, and one more zero makes it one longer.
LEMMA ZerosFacts ==
  ASSUME NEW n \in Nat
  PROVE  /\ Zeros(n) \in Seq(Byte) /\ Len(Zeros(n)) = n
         /\ Zeros(n) \o <<0>> = Zeros(n + 1)
<1>1. /\ Zeros(n) \in Seq(Byte) /\ Len(Zeros(n)) = n
      /\ Zeros(n + 1) \in Seq(Byte) /\ Len(Zeros(n + 1)) = n + 1
  BY ShaAssumption DEF Zeros
<1>2. /\ Zeros(n) \o <<0>> \in Seq(Byte) /\ Len(Zeros(n) \o <<0>>) = n + 1
      /\ \A i \in 1 .. n + 1 :
           (Zeros(n) \o <<0>>)[i] = IF i <= n THEN Zeros(n)[i] ELSE <<0>>[i - n]
  BY <1>1, OneByte, ConcatProperties
<1>3. \A i \in 1 .. n + 1 : (Zeros(n) \o <<0>>)[i] = Zeros(n + 1)[i]
  BY <1>2 DEF Zeros
<1>. QED
  BY <1>1, <1>2, <1>3, SeqEqual

\* The length field of a message is LenField bytes.
LEMMA StoreFacts ==
  ASSUME NEW n \in 0 .. MaxLen
  PROVE  StoreBE[8 * n] \in Seq(Byte) /\ Len(StoreBE[8 * n]) = LenField
BY ShaAssumption

\* What still fits is taken off the front of the bytes, some of them at least.
LEMMA FittingFacts ==
  ASSUME NEW bytes \in Seq(Byte), bytes # <<>>, TypeOK
  PROVE  /\ Fitting(bytes) \in Seq(Byte) /\ Len(Fitting(bytes)) \in 1 .. Len(bytes)
         /\ Len(buffer) + Len(Fitting(bytes)) <= Block
         /\ Len(buffer) + Len(bytes) <= Block => Fitting(bytes) = bytes
         /\ Fitting(bytes) = bytes \/ Len(buffer) + Len(Fitting(bytes)) = Block
         /\ SubSeq(bytes, Len(Fitting(bytes)) + 1, Len(bytes)) \in Seq(Byte)
         /\ Fitting(bytes) \o SubSeq(bytes, Len(Fitting(bytes)) + 1, Len(bytes))
              = bytes
<1> DEFINE n == IF Len(bytes) < Block - Len(buffer) THEN Len(bytes)
                ELSE Block - Len(buffer)
<1>1. Len(bytes) \in Nat /\ Len(bytes) > 0 /\ Len(buffer) \in Nat
      /\ Len(buffer) < Block
  BY LenProperties, EmptySeq DEF TypeOK
<1>2. n \in 1 .. Len(bytes) /\ Len(buffer) + n <= Block
      /\ (n = Len(bytes) \/ Len(buffer) + n = Block)
      /\ (Len(buffer) + Len(bytes) <= Block => n = Len(bytes))
  BY <1>1, Givens
<1>3. Fitting(bytes) = SubSeq(bytes, 1, n)
  BY DEF Fitting
<1> HIDE DEF n
<1>4. /\ SubSeq(bytes, 1, n) \in Seq(Byte) /\ Len(SubSeq(bytes, 1, n)) = n
      /\ SubSeq(bytes, n + 1, Len(bytes)) \in Seq(Byte)
  BY <1>1, <1>2, SubSeqProperties, ElementOfSeq
<1>5. SubSeq(bytes, 1, n) \o SubSeq(bytes, n + 1, Len(bytes)) = bytes
  <2>1. n \in 1 - 1 .. Len(bytes) /\ Len(bytes) \in n .. Len(bytes)
        /\ 1 \in 1 .. Len(bytes) + 1
    BY <1>1, <1>2
  <2>. QED
    BY <2>1, ConcatAdjacentSubSeq, SubSeqFull
<1>6. n = Len(bytes) => SubSeq(bytes, 1, n) = bytes
  BY SubSeqFull
<1>. QED
  BY <1>2, <1>3, <1>4, <1>5, <1>6

\* A round of copying appends to what is in the object, keeps the buffer short of
\* a block, and hashes whole blocks.
LEMMA PutFacts ==
  ASSUME TypeOK, NEW part \in Seq(Byte), Put(part),
         Len(buffer) + Len(part) <= Block
  PROVE  /\ hashed' \in Seq(Byte) /\ buffer' \in Seq(Byte) /\ Len(buffer') < Block
         /\ hashed' \o buffer' = hashed \o (buffer \o part)
         /\ Len(buffer') = IF Len(buffer) + Len(part) = Block THEN 0
                           ELSE Len(buffer) + Len(part)
         /\ (\E blocks \in Nat : Len(hashed) = blocks * Block) =>
               \E blocks \in Nat : Len(hashed') = blocks * Block
<1>1. /\ hashed \in Seq(Byte) /\ buffer \in Seq(Byte)
      /\ buffer \o part \in Seq(Byte)
      /\ Len(buffer \o part) = Len(buffer) + Len(part)
      /\ Len(buffer) \in Nat /\ Len(part) \in Nat /\ Len(hashed) \in Nat
  BY ConcatProperties, LenProperties DEF TypeOK
<1>2. CASE Len(buffer) + Len(part) = Block
  <2>1. hashed' = hashed \o buffer \o part /\ buffer' = <<>>
    BY <1>2 DEF Put
  <2>2. hashed' = hashed \o (buffer \o part)
    BY <1>1, <2>1, ConcatAssociative
  <2>3. hashed' \in Seq(Byte) /\ Len(hashed') = Len(hashed) + Block
    BY <1>1, <1>2, <2>2, ConcatProperties
  <2>4. ASSUME NEW blocks \in Nat, Len(hashed) = blocks * Block
        PROVE  \E more \in Nat : Len(hashed') = more * Block
    <3>1. Len(hashed') = (blocks + 1) * Block
      BY <2>3, <2>4, Givens
    <3>. QED
      BY <3>1
  <2>5. /\ buffer' \in Seq(Byte) /\ Len(buffer') = 0
        /\ hashed' \o buffer' = hashed \o (buffer \o part)
    BY <2>1, <2>2, <2>3, ConcatEmptySeq, EmptySeq
  <2>6. 0 < Block
    BY Givens
  <2>. QED
    BY <1>2, <2>3, <2>4, <2>5, <2>6, Zenon
<1>3. CASE Len(buffer) + Len(part) # Block
  <2>1. hashed' = hashed /\ buffer' = buffer \o part
    BY <1>3 DEF Put
  <2>2. Len(buffer') = Len(buffer) + Len(part)
    BY <1>1, <2>1, Zenon
  <2>3. Len(buffer) + Len(part) < Block
    BY <1>1, <1>3, Givens
  <2>. QED
    BY <1>1, <1>3, <2>1, <2>2, <2>3
<1>. QED
  BY <1>2, <1>3

\* With nothing pending, All is what has been copied.
LEMMA EmptyPending ==
  ASSUME TypeOK, StageInv, pending = <<>>
  PROVE  /\ All = hashed \o buffer
         /\ stage = "ready" => hashed \o buffer = fed
<1>1. hashed \o buffer \in Seq(Byte)
  BY ConcatProperties DEF TypeOK
<1>2. All = hashed \o buffer
  BY <1>1, ConcatEmptySeq DEF All
<1>. QED
  BY <1>2 DEF StageInv

\* A message, the mark and zeros: its length, and one zero more.
LEMMA MarkedFacts ==
  ASSUME TypeOK, NEW z \in Nat
  PROVE  /\ Marked(z) \in Seq(Byte) /\ Len(Marked(z)) = Len(fed) + 1 + z
         /\ Marked(z) \o <<0>> = Marked(z + 1)
         /\ Marked(0) = fed \o <<128>>
<1> DEFINE w == fed \o <<128>>
<1>1. w \in Seq(Byte) /\ Len(w) = Len(fed) + 1 /\ Len(fed) \in Nat
      /\ fed \in Seq(Byte)
  BY OneByte, ConcatProperties DEF TypeOK
<1>2. \A n \in Nat : Marked(n) = w \o Zeros(n)
  BY DEF Marked
<1> HIDE DEF w
<1>3. Zeros(z) \in Seq(Byte) /\ Len(Zeros(z)) = z /\ Zeros(z) \o <<0>> = Zeros(z + 1)
  BY ZerosFacts
<1>4. w \o Zeros(z) \in Seq(Byte) /\ Len(w \o Zeros(z)) = Len(w) + Len(Zeros(z))
  BY <1>1, <1>3, ConcatProperties
<1>5. (w \o Zeros(z)) \o <<0>> = w \o (Zeros(z) \o <<0>>)
  BY <1>1, <1>3, OneByte, ConcatAssociative
<1>6. Zeros(0) = <<>> /\ w \o <<>> = w
  BY <1>1, ConcatEmptySeq DEF Zeros
<1>7. Marked(z) \in Seq(Byte) /\ Len(Marked(z)) = Len(fed) + 1 + z
  BY <1>1, <1>2, <1>3, <1>4, Zenon
<1>8. Marked(z) \o <<0>> = Marked(z + 1)
  <2>1. z + 1 \in Nat
    OBVIOUS
  <2>. QED
    BY <1>2, <1>3, <1>5, <2>1, Zenon
<1>9. Marked(0) = w
  BY <1>2, <1>6
<1>. QED
  BY <1>7, <1>8, <1>9 DEF w

\* The inductive invariant holds in every state of every behaviour.
THEOREM Invariance == Spec => []IInv
<1>1. Init => IInv
  <2> SUFFICES ASSUME Init
               PROVE  IInv
    OBVIOUS
  <2>1. TypeOK /\ Len(fed) = 0 /\ Len(hashed) = 0
    BY EmptySeq, Givens DEF Init, TypeOK
  <2>2. All = fed
    BY EmptySeq, ConcatEmptySeq DEF Init, All
  <2>3. StageInv
    BY <2>2 DEF Init, StageInv
  <2>4. Len(hashed) = 0 * Block /\ bits = 8 * Len(fed) /\ Len(fed) <= MaxLen
    BY <2>1, ShaAssumption DEF Init
  <2>. QED
    BY <2>1, <2>3, <2>4 DEF IInv
<1>2. ASSUME IInv, [Next]_vars
      PROVE  IInv'
  <2>0. /\ TypeOK /\ StageInv /\ bits = 8 * Len(fed) /\ Len(fed) <= MaxLen
        /\ \E blocks \in Nat : Len(hashed) = blocks * Block
        /\ fed \in Seq(Byte) /\ pending \in Seq(Byte) /\ buffer \in Seq(Byte)
        /\ hashed \in Seq(Byte) /\ Len(fed) \in Nat /\ Len(buffer) \in Nat
        /\ Len(pending) \in Nat /\ Len(hashed) \in Nat /\ Len(buffer) < Block
    BY <1>2, LenProperties DEF IInv, TypeOK
  <2>1. ASSUME NEW n \in 0 .. MaxLen - Len(fed), NEW data \in Chunk(n), Update(data)
        PROVE  IInv'
    <3>1. data \in Seq(Byte) /\ Len(data) = n
      BY <2>0, ShaAssumption DEF Chunk
    <3>2. /\ stage = "ready" /\ stage' = "update" /\ pending' = data
          /\ fed' = fed \o data /\ bits' = bits + 8 * Len(data)
          /\ buffer' = buffer /\ hashed' = hashed
      BY <2>1 DEF Update
    <3>3. fed' \in Seq(Byte) /\ Len(fed') = Len(fed) + Len(data)
      BY <2>0, <3>1, <3>2, ConcatProperties
    <3>4. hashed \o buffer = fed
      <4>1. pending = <<>>
        BY <2>0, <3>2 DEF StageInv
      <4>. QED
        BY <2>0, <3>2, <4>1, EmptyPending
    <3>5. All' = fed'
      BY <3>2, <3>4 DEF All
    <3>6. StageInv'
      BY <3>2, <3>5 DEF StageInv
    <3>7. bits' = 8 * Len(fed') /\ Len(fed') <= MaxLen /\ bits' \in Nat
      BY <2>0, <3>1, <3>2, <3>3, ShaAssumption
    <3>8. TypeOK'
      BY <2>0, <3>1, <3>2, <3>3, <3>7 DEF TypeOK
    <3>. QED
      BY <2>0, <3>2, <3>6, <3>7, <3>8 DEF IInv
  <2>2. CASE Copy
    <3> DEFINE part == Fitting(pending)
               rest == SubSeq(pending, Len(part) + 1, Len(pending))
    <3>1. /\ stage \in {"update", "length"} /\ pending # <<>> /\ Put(part)
          /\ pending' = rest /\ fed' = fed /\ stage' = stage /\ bits' = bits
      BY <2>2 DEF Copy
    <3>2. /\ part \in Seq(Byte) /\ Len(part) \in 1 .. Len(pending)
          /\ Len(buffer) + Len(part) <= Block /\ rest \in Seq(Byte)
          /\ part \o rest = pending
          /\ Len(buffer) + Len(pending) <= Block => part = pending
      BY <2>0, <3>1, FittingFacts
    <3> HIDE DEF part, rest
    <3>3. /\ hashed' \in Seq(Byte) /\ buffer' \in Seq(Byte) /\ Len(buffer') < Block
          /\ hashed' \o buffer' = hashed \o (buffer \o part)
          /\ Len(buffer') = IF Len(buffer) + Len(part) = Block THEN 0
                            ELSE Len(buffer) + Len(part)
          /\ \E blocks \in Nat : Len(hashed') = blocks * Block
      BY <2>0, <3>1, <3>2, PutFacts
    <3>4. TypeOK'
      BY <2>0, <3>1, <3>2, <3>3 DEF TypeOK
    <3>5. All' = All
      <4>1. All' = (hashed \o (buffer \o part)) \o rest
        BY <3>1, <3>3 DEF All
      <4>2. All = hashed \o buffer \o (part \o rest)
        BY <3>2 DEF All
      <4>3. (hashed \o (buffer \o part)) \o rest = hashed \o buffer \o (part \o rest)
        <5>1. /\ hashed \in Seq(Byte) /\ buffer \in Seq(Byte)
              /\ part \in Seq(Byte) /\ rest \in Seq(Byte)
          BY <2>0, <3>2
        <5>2. hashed \o (buffer \o part) = (hashed \o buffer) \o part
          BY <5>1, ConcatAssociative
        <5>3. hashed \o buffer \in Seq(Byte)
          BY <5>1, ConcatProperties
        <5>4. ((hashed \o buffer) \o part) \o rest = (hashed \o buffer) \o (part \o rest)
          BY <5>1, <5>3, ConcatAssociative
        <5>. QED
          BY <5>2, <5>4
      <4>. QED
        BY <4>1, <4>2, <4>3, Zenon
    <3>6. CASE stage = "update"
      BY <2>0, <3>1, <3>3, <3>4, <3>5, <3>6 DEF IInv, StageInv
    <3>7. CASE stage = "length"
      <4>1. Len(buffer) + Len(pending) = Block
        BY <2>0, <3>1, <3>7 DEF StageInv
      <4>2. part = pending
        BY <2>0, <3>2, <4>1
      <4>3. Len(buffer') = 0 /\ buffer' = <<>>
        BY <3>3, <4>1, <4>2, EmptySeq
      <4>4. Len(rest) = 0 /\ rest = <<>>
        BY <3>2, <4>2, ConcatEqualIffEmpty
      <4>5. \E z \in 0 .. Block - 1 : All' = Marked(z) \o StoreBE[8 * Len(fed)]
        BY <2>0, <3>5, <3>7 DEF StageInv
      <4>6. StageInv'
        BY <3>1, <3>7, <4>3, <4>4, <4>5 DEF StageInv, Marked
      <4>. QED
        BY <2>0, <3>1, <3>3, <3>4, <4>6 DEF IInv
    <3>. QED
      BY <3>1, <3>6, <3>7
  <2>3. CASE Return
    <3>1. /\ stage \in {"update", "length"} /\ pending = <<>>
          /\ stage' = (IF stage = "update" THEN "ready" ELSE "done")
          /\ UNCHANGED <<fed, pending, buffer, hashed, bits>>
      BY <2>3 DEF Return
    <3>2. All' = All
      BY <3>1 DEF All
    <3>3. TypeOK'
      BY <2>0, <3>1 DEF TypeOK
    <3>4. StageInv'
      BY <2>0, <3>1, <3>2 DEF StageInv, Marked
    <3>. QED
      BY <2>0, <3>1, <3>3, <3>4 DEF IInv
  <2>4. CASE Finish
    <3>1. /\ stage = "ready" /\ stage' = "pad" /\ Put(<<128>>) /\ pending = <<>>
          /\ UNCHANGED <<fed, pending, bits>>
      BY <2>0, <2>4 DEF Finish, StageInv
    <3>2. Len(buffer) + Len(<<128>>) <= Block
      BY <2>0, OneByte, Givens
    <3>3. /\ hashed' \in Seq(Byte) /\ buffer' \in Seq(Byte) /\ Len(buffer') < Block
          /\ hashed' \o buffer' = hashed \o (buffer \o <<128>>)
          /\ \E blocks \in Nat : Len(hashed') = blocks * Block
      BY <2>0, <3>1, <3>2, OneByte, PutFacts
    <3>4. TypeOK'
      BY <2>0, <3>1, <3>3 DEF TypeOK
    <3>5. All' = Marked(0)
      <4>1. All' = hashed \o (buffer \o <<128>>)
        BY <3>1, <3>3, ConcatProperties, ConcatEmptySeq DEF All
      <4>2. hashed \o buffer = fed
        BY <2>0, <3>1, EmptyPending
      <4>3. hashed \o (buffer \o <<128>>) = (hashed \o buffer) \o <<128>>
        <5>1. /\ hashed \in Seq(Byte) /\ buffer \in Seq(Byte)
              /\ <<128>> \in Seq(Byte)
          BY <2>0, OneByte
        <5>. QED
          BY <5>1, ConcatAssociative
      <4>4. 0 \in Nat
        OBVIOUS
      <4>. QED
        BY <2>0, <4>1, <4>2, <4>3, <4>4, MarkedFacts, Zenon
    <3>6. Len(buffer') \in Nat /\ 0 + ToGo' < Block /\ 0 \in 0 .. Block - 1
      BY <3>3, Givens, LenProperties DEF ToGo
    <3>7. StageInv'
      BY <3>1, <3>5, <3>6 DEF StageInv, Marked
    <3>. QED
      BY <2>0, <3>1, <3>3, <3>4, <3>7 DEF IInv
  <2>5. CASE Pad
    <3>1. /\ stage = "pad" /\ stage' = stage /\ Put(<<0>>) /\ pending = <<>>
          /\ Len(buffer) # Block - LenField /\ UNCHANGED <<fed, pending, bits>>
      BY <2>0, <2>5 DEF Pad, StageInv
    <3>2. Len(buffer) + Len(<<0>>) <= Block
      BY <2>0, OneByte, Givens
    <3>3. /\ hashed' \in Seq(Byte) /\ buffer' \in Seq(Byte) /\ Len(buffer') < Block
          /\ hashed' \o buffer' = hashed \o (buffer \o <<0>>)
          /\ Len(buffer') = IF Len(buffer) + Len(<<0>>) = Block THEN 0
                            ELSE Len(buffer) + Len(<<0>>)
          /\ \E blocks \in Nat : Len(hashed') = blocks * Block
      BY <2>0, <3>1, <3>2, OneByte, PutFacts
    <3>4. TypeOK'
      BY <2>0, <3>1, <3>3 DEF TypeOK
    <3>5. PICK z \in 0 .. Block - 1 : All = Marked(z) /\ z + ToGo < Block
      BY <2>0, <3>1 DEF StageInv
    <3>6. All' = Marked(z + 1)
      <4>1. All' = hashed \o (buffer \o <<0>>)
        BY <3>1, <3>3, ConcatProperties, ConcatEmptySeq DEF All
      <4>2. hashed \o buffer = Marked(z)
        BY <2>0, <3>1, <3>5, EmptyPending
      <4>3. hashed \o (buffer \o <<0>>) = (hashed \o buffer) \o <<0>>
        <5>1. /\ hashed \in Seq(Byte) /\ buffer \in Seq(Byte)
              /\ <<0>> \in Seq(Byte)
          BY <2>0, OneByte
        <5>. QED
          BY <5>1, ConcatAssociative
      <4>4. z \in Nat
        BY Givens
      <4>. QED
        BY <2>0, <4>1, <4>2, <4>3, <4>4, MarkedFacts, Zenon
    <3>7. Len(buffer') = IF Len(buffer) + 1 = Block THEN 0 ELSE Len(buffer) + 1
      BY <3>3, OneByte
    <3>8. ToGo \in Nat /\ ToGo' = ToGo - 1
      <4> DEFINE b == Len(buffer)
                 c == Len(buffer')
      <4>1. /\ b \in Nat /\ b < Block /\ b # Block - LenField
            /\ c = IF b + 1 = Block THEN 0 ELSE b + 1
        BY <2>0, <3>1, <3>7
      <4>2. /\ ToGo = IF b <= Block - LenField THEN Block - LenField - b
                      ELSE Block - LenField - b + Block
            /\ ToGo' = IF c <= Block - LenField THEN Block - LenField - c
                       ELSE Block - LenField - c + Block
        BY DEF ToGo
      <4> HIDE DEF b, c
      <4>. QED
        BY <4>1, <4>2, Givens
    <3>9. z + 1 \in 0 .. Block - 1 /\ (z + 1) + ToGo' < Block
      <4>1. ToGo' \in Nat
        BY <3>3, Givens, LenProperties DEF ToGo
      <4>. QED
        BY <3>5, <3>8, <4>1, Givens
    <3>10. StageInv'
      <4>1. \E y \in 0 .. Block - 1 : All' = Marked(y) /\ y + ToGo' < Block
        BY <3>6, <3>9
      <4>. QED
        BY <3>1, <4>1 DEF StageInv, Marked
    <3>. QED
      BY <2>0, <3>1, <3>3, <3>4, <3>10 DEF IInv
  <2>6. CASE PadLength
    <3>1. /\ stage = "pad" /\ stage' = "length" /\ pending' = StoreBE[8 * Len(fed)]
          /\ Len(buffer) = Block - LenField /\ pending = <<>>
          /\ UNCHANGED <<fed, buffer, hashed, bits>>
      BY <2>0, <2>6 DEF PadLength, StageInv
    <3>2. pending' \in Seq(Byte) /\ Len(pending') = LenField
      BY <2>0, <3>1, StoreFacts
    <3>3. TypeOK'
      BY <2>0, <3>1, <3>2 DEF TypeOK
    <3>4. PICK z \in 0 .. Block - 1 : All = Marked(z)
      BY <2>0, <3>1 DEF StageInv
    <3>5. All' = Marked(z) \o StoreBE[8 * Len(fed)]
      BY <2>0, <3>1, <3>4, EmptyPending DEF All
    <3>6. Len(buffer') + Len(pending') = Block /\ pending' # <<>>
      BY <2>0, <3>1, <3>2, Givens, EmptySeq
    <3>7. StageInv'
      BY <3>1, <3>5, <3>6 DEF StageInv, Marked
    <3>. QED
      BY <2>0, <3>1, <3>3, <3>7 DEF IInv
  <2>7. CASE Renew
    <3>1. Init'
      BY <2>7 DEF Renew, Init
    <3>. QED
      BY <1>1, <3>1, PTL
  <2>8. CASE UNCHANGED vars
    BY <1>2, <2>8 DEF vars, IInv, TypeOK, StageInv, All, ToGo, Marked
  <2>. QED
    BY <1>2, <2>1, <2>2, <2>3, <2>4, <2>5, <2>6, <2>7, <2>8 DEF Next, Running
<1>. QED
  BY <1>1, <1>2, PTL DEF Spec

\* Every variable keeps its type, and the buffer is never full between rounds.
THEOREM TypeCorrect == Spec => []TypeOK
<1>1. IInv => TypeOK
  BY DEF IInv
<1>. QED
  BY <1>1, Invariance, PTL

\* No byte of a message is lost, hashed early or hashed twice, however it is cut
\* into chunks.
THEOREM NothingLost == Spec => []NoByteLost
<1>1. IInv => NoByteLost
  BY DEF IInv, StageInv, All, NoByteLost
<1>. QED
  BY <1>1, Invariance, PTL

\* finish() has hashed the padded message of FIPS 180-4, for every block length,
\* length field and message.
THEOREM PaddedMessage == Spec => []HashesPaddedMessage
<1>1. IInv => HashesPaddedMessage
  <2> SUFFICES ASSUME IInv, stage = "done"
               PROVE  IsPadded(hashed, fed) /\ buffer = <<>>
    BY DEF HashesPaddedMessage
  <2>1. TypeOK /\ StageInv /\ pending = <<>> /\ buffer = <<>>
    BY DEF IInv, StageInv
  <2>2. All = hashed
    BY <2>1, EmptyPending, ConcatEmptySeq DEF TypeOK
  <2>3. \E z \in 0 .. Block - 1 :
          hashed = fed \o <<128>> \o Zeros(z) \o StoreBE[8 * Len(fed)]
    BY <2>1, <2>2 DEF StageInv, Marked
  <2>4. PICK blocks \in Nat : Len(hashed) = blocks * Block
    BY DEF IInv
  <2>5. blocks <= blocks * Block
    BY Givens
  <2>6. blocks \in 0 .. Len(hashed)
    BY <2>1, <2>4, <2>5, LenProperties DEF TypeOK
  <2>. QED
    BY <2>1, <2>3, <2>4, <2>6 DEF IsPadded
<1>. QED
  BY <1>1, Invariance, PTL
=============================================================================
