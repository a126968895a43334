------------------------------- MODULE ShaStream -------------------------------
(***************************************************************************)
(* Sha1, Sha256 and Sha512 as streams: any number of update() calls with   *)
(* chunks of any length, then finish().  The three classes differ in the   *)
(* length of a block (64, 64, 128) and of the length field (8, 8, 16), and *)
(* in process_block, which is abstracted to the bytes it is handed.        *)
(*                                                                         *)
(* recompute_id feeds a boot image to Sha1 in up to ten chunks, components *)
(* and their sizes in turn, so nothing keeps a chunk off a block boundary. *)
(***************************************************************************)
EXTENDS Integers, Sequences

CONSTANTS
  Byte,      \* the values of a byte; 0 and 128 among them
  Data,      \* the bytes a message is made of
  Block,     \* bytes per block
  LenField,  \* bytes of the length at the end of the last block
  MaxLen,    \* the bound on the length of a message
  StoreBE    \* per number of bits: the length field that holds it

ASSUME ShaAssumption ==
  /\ 0 \in Byte /\ 128 \in Byte /\ Data \subseteq Byte
  /\ Block \in Nat /\ LenField \in Nat /\ MaxLen \in Nat
  /\ 0 < LenField /\ LenField < Block
  /\ \A n \in 0 .. MaxLen : StoreBE[8*n] \in [1 .. LenField -> Byte]

VARIABLES
  fed,     \* history: the bytes of all update() calls so far
  stage,   \* "ready", "update", "pad", "length" or "done"
  pending, \* what the running call has still to copy
  buffer,  \* the first buffer_len_ bytes of buffer_
  hashed,  \* the bytes process_block was called with, in order
  bits     \* total_bits_; no file has the 2^61 bytes at which it would wrap

vars == <<fed, stage, pending, buffer, hashed, bits>>

\* A new object.
Init ==
  /\ fed = <<>> /\ stage = "ready" /\ pending = <<>>
  /\ buffer = <<>> /\ hashed = <<>> /\ bits = 0

\* Mutant: room is taken to end one byte early, so that in front of the last
\* byte of a block there is none, and the loop goes round without a copy.
FittingShort(bytes) ==
  LET room == Block - 1 - Len(buffer)
  IN  SubSeq(bytes, 1, IF Len(bytes) < room THEN Len(bytes) ELSE room)

\* What fits into the buffer of the given bytes.
Fitting(bytes) ==
  LET room == Block - Len(buffer)
  IN  SubSeq(bytes, 1, IF Len(bytes) < room THEN Len(bytes) ELSE room)

\* Mutant: a full buffer is only noticed by the next call.
PutLate(part) ==
  IF Len(buffer) = Block
    THEN hashed' = hashed \o buffer /\ buffer' = part
    ELSE hashed' = hashed /\ buffer' = buffer \o part

\* Mutant: the full buffer is hashed and not emptied of what was there before.
PutKeeping(part) ==
  /\ hashed' = IF Len(buffer) + Len(part) = Block THEN hashed \o buffer \o part
               ELSE hashed
  /\ buffer' = IF Len(buffer) + Len(part) = Block THEN buffer
               ELSE buffer \o part

\* One round of the copying loop of update and absorb: a full buffer is hashed.
Put(part) ==
  IF Len(buffer) + Len(part) = Block
    THEN hashed' = hashed \o buffer \o part /\ buffer' = <<>>
    ELSE hashed' = hashed /\ buffer' = buffer \o part

Update(data) ==
  /\ stage = "ready"
  /\ stage' = "update" /\ pending' = data
  /\ fed' = fed \o data /\ bits' = bits + 8 * Len(data)
  /\ UNCHANGED <<buffer, hashed>>

\* A round of the loop over the bytes of a message or of the length field.
Copy ==
  /\ stage \in {"update", "length"} /\ pending # <<>>
  /\ Put(Fitting(pending))
  /\ pending' = SubSeq(pending, Len(Fitting(pending)) + 1, Len(pending))
  /\ UNCHANGED <<fed, stage, bits>>

\* The loop has nothing left to copy, and the call returns.
Return ==
  /\ stage \in {"update", "length"} /\ pending = <<>>
  /\ stage' = IF stage = "update" THEN "ready" ELSE "done"
  /\ UNCHANGED <<fed, pending, buffer, hashed, bits>>

\* finish(): the mark, ...
Finish ==
  /\ stage = "ready"
  /\ stage' = "pad"
  /\ Put(<<128>>)
  /\ UNCHANGED <<fed, pending, bits>>

\* Mutant: room for zeros is only seen in front of the length field, so a buffer
\* that is fuller than that takes none, and the loop spins.
PadInFront ==
  /\ stage = "pad" /\ Len(buffer) # Block - LenField
  /\ IF Len(buffer) < Block - LenField THEN Put(<<0>>)
     ELSE UNCHANGED <<buffer, hashed>>
  /\ UNCHANGED <<fed, stage, pending, bits>>

\* ... zeros until just the length field is missing from a block, ...
Pad ==
  /\ stage = "pad" /\ Len(buffer) # Block - LenField
  /\ Put(<<0>>)
  /\ UNCHANGED <<fed, stage, pending, bits>>

\* Mutant: zeros up to the length field or wherever the buffer is beyond it.
PadLengthAnywhere ==
  /\ stage = "pad" /\ Len(buffer) >= Block - LenField
  /\ stage' = "length" /\ pending' = StoreBE[bits]
  /\ UNCHANGED <<fed, buffer, hashed, bits>>

\* ... and the length field.
PadLength ==
  /\ stage = "pad" /\ Len(buffer) = Block - LenField
  /\ stage' = "length" /\ pending' = StoreBE[bits]
  /\ UNCHANGED <<fed, buffer, hashed, bits>>

\* The object is gone, the next message has one of its own.
Renew ==
  /\ stage = "done"
  /\ fed' = <<>> /\ stage' = "ready" /\ pending' = <<>>
  /\ buffer' = <<>> /\ hashed' = <<>> /\ bits' = 0

\* The sequences of n data bytes.
Chunk(n) == [1 .. n -> Data]

Running == Copy \/ Return \/ Pad \/ PadLength

Next ==
  \/ \E n \in 0 .. MaxLen - Len(fed) : \E data \in Chunk(n) : Update(data)
  \/ Running \/ Finish \/ Renew

Spec == Init /\ [][Next]_vars

\* A call that has begun keeps running: there is nothing it waits for.
FairSpec == Spec /\ WF_vars(Running)
-----------------------------------------------------------------------------
(* Properties                                                              *)

\* The type of every variable; the buffer is never full between two rounds.
TypeOK ==
  /\ fed \in Seq(Byte) /\ pending \in Seq(Byte)
  /\ buffer \in Seq(Byte) /\ hashed \in Seq(Byte)
  /\ stage \in {"ready", "update", "pad", "length", "done"}
  /\ bits \in Nat
  /\ Len(buffer) < Block

Zeros(n) == [i \in 1 .. n |-> 0]

\* FIPS 180-4, 5.1: the message, a 1 bit, the least number of zeros that leaves
\* room for the length, the length.
IsPadded(bytes, message) ==
  /\ \E z \in 0 .. Block - 1 :
       bytes = message \o <<128>> \o Zeros(z) \o StoreBE[8 * Len(message)]
  /\ \E blocks \in 0 .. Len(bytes) : Len(bytes) = blocks * Block

\* However the message was cut into update() calls, what is hashed by the end of
\* finish() is the padded message, in whole blocks, and nothing is left behind.
HashesPaddedMessage ==
  stage = "done" => IsPadded(hashed, fed) /\ buffer = <<>>

\* Nothing is hashed before its turn or twice: at any time what was hashed, what
\* is buffered and what is still to be copied make up the message fed so far.
NoByteLost ==
  stage \in {"ready", "update"} => hashed \o buffer \o pending = fed

\* Every call of update and finish returns: each round of the copying loop takes
\* a byte at least, wherever the chunk meets the end of a block, and the zeros of
\* finish come to an end.
CallsReturn ==
  /\ stage = "update" ~> stage = "ready"
  /\ stage = "pad" ~> stage = "done"
=============================================================================
