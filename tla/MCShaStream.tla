----------------------------- MODULE MCShaStream -----------------------------
(* ShaStream with blocks of five bytes, the last with a length of two bytes, *)
(* and messages of any zeros and marks: every fill of the buffer, messages   *)
(* of up to two blocks, chunks across two block boundaries.                  *)
EXTENDS ShaStream

MCByte == 0 .. 255
MCData == {0, 128}
MCStoreBE ==
  [n \in 0 .. 8*MaxLen |->
     [i \in 1 .. LenField |-> (n \div 256^(LenField - i)) % 256]]
=============================================================================
