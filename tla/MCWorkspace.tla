---------------------------- MODULE MCWorkspace ----------------------------
(* Workspace on small instances: a kernel (1, codec-wrapped), a dtb (2,     *)
(* stored as it is) and the trailing bytes of a DHTB wrapper (3).           *)
EXTENDS WorkspaceInvariant

CONSTANTS a, b

MCContent == {a, b}
\* The name of one codec is the beginning of another's; "?" is no codec's name.
MCCodec == {"none", "lz4_legacy", "lz4", "xz"}
MCLenient == {"lz4_legacy", "lz4"}
MCCodecText == MCCodec \cup {"?"}
MCBeginnings ==
  [text \in MCCodecText |-> IF text = "lz4_legacy" THEN {"lz4", "?"} ELSE {"?"}]
MCMtkName == {"KERNEL"}

Lz4(p)  == [codec |-> "lz4_legacy", enc |-> "vendor", data |-> p]
Xz(p)   == [codec |-> "xz", enc |-> "vendor", data |-> p]
Bare(p) == [mtk |-> Null, stream |-> Compress("none", p)]
Img(kernel, dtb, dhtb) ==
  [comp |-> [c \in Comp |-> IF c = 1 THEN kernel ELSE dtb], dhtb |-> dhtb]

\* A MediaTek kernel, no wrapper; a bare kernel in a wrapper with trailing
\* bytes; a kernel no decoder accepts; no kernel at all.
MtkImage     == Img([mtk |-> "KERNEL", stream |-> Lz4(a)], Bare(a), Null)
PlainImage   == Img([mtk |-> Null, stream |-> Lz4(b)], Null, Null)
WrappedImage == Img(Bare(b), Bare(b), [flags |-> {"footer"}, extra |-> a])
TwinImage    == Img([mtk |-> Null, stream |-> Xz(a)], Bare(b),
                    [flags |-> {"footer", "padding"}, extra |-> Null])
DamagedImage == Img([mtk |-> Null, stream |-> Xz(Cut)], Bare(a), Null)
LeakyImage   == Img([mtk |-> Null, stream |-> Lz4(Cut)], Bare(a), Null)
NoKernel     == Img(Null, Bare(b), Null)

\* With both components codec-wrapped (kernel and ramdisk): a good image, and
\* one whose ramdisk turns out to be damaged after its kernel is unpacked.
Sound     == Img([mtk |-> Null, stream |-> Lz4(a)],
                 [mtk |-> Null, stream |-> Xz(b)], Null)
BadAtTwo  == Img([mtk |-> Null, stream |-> Lz4(b)],
                 [mtk |-> Null, stream |-> Xz(Cut)], Null)

TwoImages  == {MtkImage, WrappedImage}
AllImages  == {MtkImage, PlainImage, WrappedImage, TwinImage, DamagedImage,
               LeakyImage, NoKernel}
ThreeImages == {PlainImage, WrappedImage, DamagedImage}
FailImages == {Sound, BadAtTwo}
=============================================================================
