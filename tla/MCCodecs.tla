------------------------------- MODULE MCCodecs -------------------------------
(* Codecs with words and blocks of two cells, contents of up to six blocks   *)
(* and buffers that double up to three times and wrap at sixteen.            *)
EXTENDS Codecs

CONSTANTS x, y

MCByte == {Zero, x, y}
MCContents == {<<>>, <<x>>, <<x, y>>, <<y, x, x>>, <<x, x, y, y, Zero>>,
               <<x, y, x, y, y, x, x, x, y, y, x>>}
=============================================================================
