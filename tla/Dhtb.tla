--------------------------------- MODULE Dhtb ---------------------------------
(* The DHTB wrapper around an image: taken off by unpack, put on by repack.  *)
(* The SEANDROIDENFORCE mark and the four bytes 0xFF are one cell each.      *)
EXTENDS ByteIO

CONSTANTS
  DhtbLen, \* kDhtbHeaderSize
  Mark,    \* kSeandroidMagic
  Fill,    \* kPayloadPadding
  NoWrap   \* no wrapper

ASSUME DhtbAssumption ==
  DhtbLen \in Nat \ {0} /\ Mark \in Byte /\ Fill \in Byte /\ Mark # Fill

-----------------------------------------------------------------------------
\* The payload ends inside the file, with no or some bytes behind.
DhtbReadable(f) ==
  Begins(f, "dhtb") /\ Len(f) >= DhtbLen =>
    f[1].size \in Nat /\ Len(f) - (DhtbLen + f[1].size) \in Nat

\* The last cells of s are end.
EndsWith(s, end) ==
  Len(s) >= Len(end) /\ Cells(s, Len(s) - Len(end), Len(end)) = end

Cut(s, n) == SubSeq(s, 1, Len(s) - n)

\* Mutant: padding is not looked for.
NeverFilled(payload) == FALSE

Filled(payload) == EndsWith(payload, <<Mark, Fill>>)

\* strip_dhtb().
StripDhtb(f) ==
  IF ~(Begins(f, "dhtb") /\ Len(f) >= DhtbLen) THEN [inner |-> f, wrap |-> NoWrap]
  ELSE LET payload == Cells(f, DhtbLen, f[1].size)
           padding == Filled(payload)
           footer  == padding \/ EndsWith(payload, <<Mark>>)
       IN  [inner |-> IF padding THEN Cut(payload, 2)
                      ELSE IF footer THEN Cut(payload, 1) ELSE payload,
            wrap  |-> [footer |-> footer, padding |-> padding,
                       extra |-> Cells(f, DhtbLen + f[1].size,
                                       Len(f) - (DhtbLen + f[1].size))]]

\* wrap_dhtb(): the digest is the content it is taken over.
WrapDhtb(inner, wrap) ==
  LET declared == inner \o (IF wrap.footer THEN <<Mark>> ELSE <<>>)
                        \o (IF wrap.padding THEN <<Fill>> ELSE <<>>)
  IN  <<[fmt |-> "dhtb", digest |-> declared, size |-> Len(declared)]>>
        \o Zeros(DhtbLen - 1) \o declared \o wrap.extra
=============================================================================
