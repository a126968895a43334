----------------------------- MODULE ByteIOProofs -----------------------------
(***************************************************************************)
(* What align_up(), BinaryWriter::align() and BinaryReader::bytes() do for *)
(* pages and sequences of any length, and induction over the naturals: the *)
(* facts the proofs of the containers rest on.                             *)
(***************************************************************************)
EXTENDS ByteIO, SequenceTheorems, WellFoundedInduction, TLAPS

-----------------------------------------------------------------------------
(* Induction, over a set in place of a predicate                            *)

\* The order of the naturals.
Below == {pair \in Nat \X Nat : pair[1] < pair[2]}

\* There is no way down without an end.
LEMMA BelowIsWellFounded == IsWellFoundedOn(Below, Nat)
  BY ONLY NatLessThanWellFounded DEF OpToRel, Below

\* A set of naturals has a least one.
LEMMA LeastNumber ==
  ASSUME NEW T, T \subseteq Nat, T # {}
  PROVE  \E n \in T : \A m \in T : n <= m
<1>1. PICK n \in T : \A m \in T : <<m, n>> \notin Below
  BY BelowIsWellFounded, WFMin
<1>2. ASSUME NEW m \in T PROVE n <= m
  <2>1. <<m, n>> \in Below <=> m < n
    BY DEF Below
  <2>2. m \in Nat /\ n \in Nat
    OBVIOUS
  <2> QED
    BY <1>1, <2>1, <2>2
<1> QED
  BY <1>2

\* What holds for 0, and for n + 1 if for n, holds for all.
LEMMA Induction ==
  ASSUME NEW P, 0 \in P, \A n \in Nat : n \in P => n + 1 \in P
  PROVE  \A n \in Nat : n \in P
<1> SUFFICES ASSUME Nat \ P # {} PROVE FALSE
  OBVIOUS
<1>1. PICK n \in Nat \ P : \A m \in Nat \ P : n <= m
  BY LeastNumber
<1>2. n # 0 /\ n - 1 \in Nat /\ ~(n <= n - 1)
  OBVIOUS
<1>3. n - 1 \in P
  BY <1>1, <1>2
<1> QED
  BY <1>1, <1>2, <1>3

-----------------------------------------------------------------------------
(* align_up()                                                               *)

\* Integer division of naturals.
LEMMA Division ==
  ASSUME NEW n \in Nat, NEW p \in Nat \ {0}
  PROVE  /\ n \div p \in Nat
         /\ p * (n \div p) <= n
         /\ n < p * (n \div p) + p
  BY SMT

\* There is one multiple of p from n on that is less than p away.
LEMMA OneMultiple ==
  ASSUME NEW n \in Nat, NEW p \in Nat \ {0}, NEW k \in Nat, NEW m \in Nat,
         n <= p * k, p * k < n + p, n <= p * m, p * m < n + p
  PROVE  k = m
<1>1. ASSUME NEW i \in Nat, NEW j \in Nat, i < j
      PROVE  p * i + p <= p * j
  <2>1. PICK l \in Nat : j = i + 1 + l
    BY <1>1, SMT
  <2>2. p * j = p * i + p + p * l /\ p * l \in Nat
    BY <2>1, SMT
  <2> QED
    BY <2>2, SMT
<1>2. CASE k < m
  BY <1>1, <1>2, SMT
<1>3. CASE m < k
  BY <1>1, <1>3, SMT
<1> QED
  BY <1>2, <1>3, SMT

\* align_up() is the next multiple of the page.
LEMMA AlignUpFacts ==
  ASSUME NEW n \in Nat, NEW p \in Nat \ {0}
  PROVE  /\ AlignUp(n, p) \in Nat
         /\ n <= AlignUp(n, p) /\ AlignUp(n, p) < n + p
         /\ \E k \in Nat : AlignUp(n, p) = p * k
<1> DEFINE k == (n + p - 1) \div p
<1>1. n + p - 1 \in Nat
  OBVIOUS
<1>2. k \in Nat /\ p * k <= n + p - 1 /\ n + p - 1 < p * k + p
  BY <1>1, Division
<1>3. AlignUp(n, p) = p * k
  BY <1>2 DEF AlignUp
<1> HIDE DEF k
<1>4. p * k \in Nat
  BY <1>2
<1> QED
  BY <1>2, <1>3, <1>4

LEMMA AlignUpIs ==
  ASSUME NEW n \in Nat, NEW p \in Nat \ {0}, NEW k \in Nat,
         n <= p * k, p * k < n + p
  PROVE  AlignUp(n, p) = p * k
<1>1. PICK m \in Nat : AlignUp(n, p) = p * m
  BY AlignUpFacts
<1>2. n <= p * m /\ p * m < n + p
  BY <1>1, AlignUpFacts
<1> QED
  BY <1>1, <1>2, OneMultiple

\* Whole pages in front do not matter.
LEMMA AlignUpShift ==
  ASSUME NEW n \in Nat, NEW p \in Nat \ {0}, NEW k \in Nat
  PROVE  AlignUp(p * k + n, p) = p * k + AlignUp(n, p)
<1>1. PICK m \in Nat : AlignUp(n, p) = p * m
  BY AlignUpFacts
<1>2. n <= p * m /\ p * m < n + p
  BY <1>1, AlignUpFacts
<1>3. p * (k + m) = p * k + p * m /\ k + m \in Nat /\ p * k \in Nat
  BY SMT
<1>4. p * k + n \in Nat /\ p * k + n <= p * (k + m) /\ p * (k + m) < p * k + n + p
  BY <1>2, <1>3
<1> QED
  BY <1>1, <1>3, <1>4, AlignUpIs

LEMMA AlignUpMonotone ==
  ASSUME NEW n \in Nat, NEW m \in Nat, n <= m, NEW p \in Nat \ {0}
  PROVE  AlignUp(n, p) <= AlignUp(m, p)
<1>1. PICK k \in Nat : AlignUp(n, p) = p * k
  BY AlignUpFacts
<1>2. PICK l \in Nat : AlignUp(m, p) = p * l
  BY AlignUpFacts
<1>3. p * k < n + p /\ m <= p * l
  BY <1>1, <1>2, AlignUpFacts
<1>4. SUFFICES ASSUME l < k PROVE FALSE
  BY <1>1, <1>2, SMT
<1>5. PICK i \in Nat : k = l + 1 + i
  BY <1>4, SMT
<1>6. p * k = p * l + p + p * i /\ p * i \in Nat /\ p * l \in Nat /\ p * k \in Nat
  BY <1>5, SMT
<1> QED
  BY <1>3, <1>6

-----------------------------------------------------------------------------
(* BinaryWriter                                                             *)

LEMMA ZerosFacts ==
  ASSUME NEW S, Zero \in S, NEW n \in Nat
  PROVE  Zeros(n) \in Seq(S) /\ Len(Zeros(n)) = n
  BY SMT DEF Zeros

\* align() leaves what is there and fills it to the next page.
LEMMA PaddedFacts ==
  ASSUME NEW S, Zero \in S, NEW w \in Seq(S), NEW p \in Nat \ {0}
  PROVE  /\ Padded(w, p) \in Seq(S)
         /\ Len(Padded(w, p)) = AlignUp(Len(w), p)
         /\ \A i \in 1 .. Len(w) : Padded(w, p)[i] = w[i]
<1> DEFINE n == AlignUp(Len(w), p) - Len(w)
<1>1. Len(w) \in Nat
  OBVIOUS
<1>2. n \in Nat /\ Len(w) + n = AlignUp(Len(w), p)
  <2>1. AlignUp(Len(w), p) \in Nat /\ Len(w) <= AlignUp(Len(w), p)
    BY <1>1, AlignUpFacts
  <2> QED
    BY <1>1, <2>1
<1>3. Zeros(n) \in Seq(S) /\ Len(Zeros(n)) = n
  BY <1>2, ZerosFacts
<1>4. Padded(w, p) = w \o Zeros(n)
  BY DEF Padded
<1> HIDE DEF n
<1>5. /\ w \o Zeros(n) \in Seq(S)
      /\ Len(w \o Zeros(n)) = Len(w) + n
      /\ \A i \in 1 .. Len(w) + n :
           (w \o Zeros(n))[i] = IF i <= Len(w) THEN w[i] ELSE Zeros(n)[i - Len(w)]
  BY <1>3, ConcatProperties
<1> QED
  BY <1>1, <1>2, <1>4, <1>5

\* What align() adds is zeros.
LEMMA PaddedZeros ==
  ASSUME NEW S, Zero \in S, NEW w \in Seq(S), NEW p \in Nat \ {0}
  PROVE  \A i \in Len(w) + 1 .. AlignUp(Len(w), p) : Padded(w, p)[i] = Zero
<1> DEFINE n == AlignUp(Len(w), p) - Len(w)
<1>1. Len(w) \in Nat
  OBVIOUS
<1>2. n \in Nat /\ Len(w) + n = AlignUp(Len(w), p)
  <2>1. AlignUp(Len(w), p) \in Nat /\ Len(w) <= AlignUp(Len(w), p)
    BY <1>1, AlignUpFacts
  <2> QED
    BY <1>1, <2>1
<1>3. Zeros(n) \in Seq(S) /\ Len(Zeros(n)) = n /\ \A i \in 1 .. n : Zeros(n)[i] = Zero
  BY <1>2, ZerosFacts DEF Zeros
<1>4. Padded(w, p) = w \o Zeros(n)
  BY DEF Padded
<1> HIDE DEF n
<1>5. \A i \in 1 .. Len(w) + n :
        (w \o Zeros(n))[i] = IF i <= Len(w) THEN w[i] ELSE Zeros(n)[i - Len(w)]
  BY <1>3, ConcatProperties
<1>6. \A i \in Len(w) + 1 .. Len(w) + n :
        i \in 1 .. Len(w) + n /\ ~(i <= Len(w)) /\ i - Len(w) \in 1 .. n
  BY <1>1, <1>2
<1> QED
  BY <1>2, <1>3, <1>4, <1>5, <1>6

\* The cells of t lie in f from position n on.
Holds(f, n, t) == \A i \in 1 .. Len(t) : f[n + i] = t[i]

\* t was put at n, inside of w.
Kept(w, n, t) == Holds(w, n, t) /\ n + Len(t) <= Len(w)

\* A section put behind what is there.
LEMMA PutFacts ==
  ASSUME NEW S, Zero \in S, NEW w \in Seq(S), NEW t \in Seq(S), NEW p \in Nat \ {0}
  PROVE  /\ Padded(w \o t, p) \in Seq(S)
         /\ Len(Padded(w \o t, p)) = AlignUp(Len(w) + Len(t), p)
         /\ Len(w) + Len(t) <= Len(Padded(w \o t, p))
         /\ Holds(Padded(w \o t, p), 0, w)
         /\ Holds(Padded(w \o t, p), Len(w), t)
<1>1. /\ w \o t \in Seq(S) /\ Len(w \o t) = Len(w) + Len(t)
      /\ \A i \in 1 .. Len(w) + Len(t) :
           (w \o t)[i] = IF i <= Len(w) THEN w[i] ELSE t[i - Len(w)]
  BY ConcatProperties
<1>2. Len(w) \in Nat /\ Len(t) \in Nat
  OBVIOUS
<1>3. \A i \in 1 .. Len(w) + Len(t) : Padded(w \o t, p)[i] = (w \o t)[i]
  BY <1>1, PaddedFacts
<1>4. /\ Padded(w \o t, p) \in Seq(S)
      /\ Len(Padded(w \o t, p)) = AlignUp(Len(w) + Len(t), p)
  BY <1>1, PaddedFacts
<1>5. Len(w) + Len(t) <= AlignUp(Len(w) + Len(t), p)
  BY <1>2, AlignUpFacts
<1>6. \A i \in 1 .. Len(w) : Padded(w \o t, p)[i] = w[i]
  BY <1>1, <1>2, <1>3
<1>7. \A i \in 1 .. Len(t) : Padded(w \o t, p)[Len(w) + i] = t[i]
  <2> TAKE i \in 1 .. Len(t)
  <2>1. Len(w) + i \in 1 .. Len(w) + Len(t) /\ ~(Len(w) + i <= Len(w))
        /\ (Len(w) + i) - Len(w) = i
    BY <1>2
  <2> QED
    BY <2>1, <1>1, <1>3
<1>8. \A i \in 1 .. Len(w) : 0 + i = i
  OBVIOUS
<1> QED
  BY <1>4, <1>5, <1>6, <1>7, <1>8 DEF Holds

\* What lies at a place of a file is what is read there.
LEMMA CellsFound ==
  ASSUME NEW S, NEW f \in Seq(S), NEW t \in Seq(S), NEW n \in Nat,
         \A i \in 1 .. Len(t) : f[n + i] = t[i]
  PROVE  Cells(f, n, Len(t)) = t
<1> DEFINE g == SubSeq(f, n + 1, n + Len(t))
<1>1. \A i \in n + 1 .. n + Len(t) : f[i] \in S
  <2> TAKE i \in n + 1 .. n + Len(t)
  <2>1. i - n \in 1 .. Len(t) /\ n + (i - n) = i
    OBVIOUS
  <2> QED
    BY <2>1, ElementOfSeq
<1>2. /\ g \in Seq(S) /\ Len(g) = Len(t)
      /\ \A i \in 1 .. Len(t) : g[i] = f[n + i]
  <2>1. /\ g \in Seq(S)
        /\ Len(g) = IF n + 1 <= n + Len(t) THEN (n + Len(t)) - (n + 1) + 1 ELSE 0
        /\ \A i \in 1 .. (n + Len(t)) - (n + 1) + 1 : g[i] = f[(n + 1) + i - 1]
    BY <1>1, SubSeqProperties
  <2> HIDE DEF g
  <2> QED
    BY <2>1
<1> HIDE DEF g
<1>3. g = t
  BY <1>2, SeqEqual
<1> QED
  BY <1>3 DEF g, Cells

-----------------------------------------------------------------------------
(* Sequences                                                                *)

LEMMA InSeq ==
  ASSUME NEW A, NEW B, NEW t \in Seq(A), \A i \in 1 .. Len(t) : t[i] \in B
  PROVE  t \in Seq(B)
<1> DEFINE u == SubSeq(t, 1, Len(t))
<1>1. Len(t) \in Nat /\ \A i \in 1 .. Len(t) : t[i] \in A
  BY ElementOfSeq, LenProperties
<1>2. u \in Seq(B) /\ u \in Seq(A) /\ Len(u) = Len(t) /\ \A i \in 1 .. Len(t) : u[i] = t[i]
  BY <1>1, SubSeqProperties
<1> HIDE DEF u
<1>3. u = t
  BY <1>1, <1>2, SeqEqual
<1> QED
  BY <1>2, <1>3

LEMMA SeqIsSeq ==
  ASSUME NEW A, NEW t \in Seq(A)
  PROVE  IsSeq(t)
<1>1. \A i \in 1 .. Len(t) : t[i] \in {t[j] : j \in 1 .. Len(t)}
  OBVIOUS
<1> QED
  BY <1>1, InSeq DEF IsSeq

\* What is read at a place of a file is a sequence of so many cells.
LEMMA CellsAreSeq ==
  ASSUME NEW f, NEW p \in Nat, NEW n \in Nat
  PROVE  IsSeq(Cells(f, p, n))
<1> DEFINE S == {f[i] : i \in p + 1 .. p + n}
<1>1. \A i \in p + 1 .. p + n : f[i] \in S
  OBVIOUS
<1> HIDE DEF S
<1>2. p + 1 \in Int /\ p + n \in Int
  OBVIOUS
<1>3. Cells(f, p, n) \in Seq(S)
  BY <1>1, <1>2, SubSeqProperties DEF Cells
<1> QED
  BY <1>3, SeqIsSeq

LEMMA CellsAt ==
  ASSUME NEW f, NEW p \in Nat, NEW n \in Nat
  PROVE  /\ Len(Cells(f, p, n)) = n
         /\ \A i \in 1 .. n : Cells(f, p, n)[i] = f[p + i]
<1> DEFINE S == {f[i] : i \in p + 1 .. p + n}
           c == SubSeq(f, p + 1, p + n)
<1>1. (\A i \in p + 1 .. p + n : f[i] \in S) /\ p + 1 \in Int /\ p + n \in Int
  OBVIOUS
<1> HIDE DEF S
<1>2. /\ Len(c) = IF p + 1 <= p + n THEN (p + n) - (p + 1) + 1 ELSE 0
      /\ \A i \in 1 .. (p + n) - (p + 1) + 1 : c[i] = f[(p + 1) + i - 1]
  BY <1>1, SubSeqProperties
<1> HIDE DEF c
<1>3. Len(c) = n /\ \A i \in 1 .. n : c[i] = f[p + i]
  BY <1>2
<1> QED
  BY <1>3 DEF c, Cells

\* Where the parts of a concatenation lie.
LEMMA ThreeParts ==
  ASSUME NEW S, NEW a \in Seq(S), NEW b \in Seq(S), NEW c \in Seq(S)
  PROVE  /\ a \o b \o c \in Seq(S)
         /\ Len(a \o b \o c) = Len(a) + Len(b) + Len(c)
         /\ Len(a) \in Nat /\ Len(b) \in Nat /\ Len(c) \in Nat
         /\ Holds(a \o b \o c, 0, a)
         /\ Holds(a \o b \o c, Len(a), b)
         /\ Holds(a \o b \o c, Len(a) + Len(b), c)
<1> DEFINE ab == a \o b
           f == ab \o c
<1>1. /\ ab \in Seq(S) /\ Len(ab) = Len(a) + Len(b)
      /\ \A i \in 1 .. Len(a) + Len(b) : ab[i] = IF i <= Len(a) THEN a[i] ELSE b[i - Len(a)]
  BY ConcatProperties
<1>0. ab \in Seq(S)
  BY <1>1
<1> HIDE DEF ab
<1>2. /\ f \in Seq(S) /\ Len(f) = Len(ab) + Len(c)
      /\ \A i \in 1 .. Len(ab) + Len(c) : f[i] = IF i <= Len(ab) THEN ab[i] ELSE c[i - Len(ab)]
  BY <1>0, ConcatProperties
<1>3. Len(a) \in Nat /\ Len(b) \in Nat /\ Len(c) \in Nat
  BY LenProperties
<1> HIDE DEF f
<1>4. Holds(f, 0, a)
  <2> SUFFICES ASSUME NEW i \in 1 .. Len(a) PROVE f[0 + i] = a[i]
    BY DEF Holds
  <2>1. 0 + i = i /\ i \in 1 .. Len(ab) + Len(c) /\ i <= Len(ab) /\ i \in 1 .. Len(a) + Len(b)
        /\ i <= Len(a)
    BY <1>1, <1>3
  <2> QED
    BY <1>1, <1>2, <2>1
<1>5. Holds(f, Len(a), b)
  <2> SUFFICES ASSUME NEW i \in 1 .. Len(b) PROVE f[Len(a) + i] = b[i]
    BY DEF Holds
  <2> DEFINE j == Len(a) + i
  <2>1. j \in 1 .. Len(ab) + Len(c) /\ j <= Len(ab) /\ j \in 1 .. Len(a) + Len(b)
        /\ ~(j <= Len(a)) /\ j - Len(a) = i
    BY <1>1, <1>3
  <2> HIDE DEF j
  <2>2. f[j] = b[i]
    BY <1>1, <1>2, <2>1
  <2> QED
    BY <2>2 DEF j
<1>6. Holds(f, Len(a) + Len(b), c)
  <2> SUFFICES ASSUME NEW i \in 1 .. Len(c) PROVE f[Len(a) + Len(b) + i] = c[i]
    BY DEF Holds
  <2> DEFINE j == Len(a) + Len(b) + i
  <2>1. j \in 1 .. Len(ab) + Len(c) /\ ~(j <= Len(ab)) /\ j - Len(ab) = i
    BY <1>1, <1>3
  <2> HIDE DEF j
  <2>2. f[j] = c[i]
    BY <1>2, <2>1
  <2> QED
    BY <2>2 DEF j
<1>7. Len(f) = Len(a) + Len(b) + Len(c)
  BY <1>1, <1>2
<1> QED
  BY <1>2, <1>3, <1>4, <1>5, <1>6, <1>7 DEF f, ab

\* The n cells of f from position p on are those of g from q on.
Same(f, p, g, q, n) == \A i \in 1 .. n : f[p + i] = g[q + i]

\* The same cells at two places are read as the same.
LEMMA CellsEqual ==
  ASSUME NEW f, NEW g, NEW p \in Nat, NEW q \in Nat, NEW n \in Nat, Same(f, p, g, q, n)
  PROVE  Cells(f, p, n) = Cells(g, q, n)
<1> DEFINE c == Cells(f, p, n)
           d == Cells(g, q, n)
           S == {c[i] : i \in 1 .. n}
<1>1. Len(c) = n /\ Len(d) = n /\ \A i \in 1 .. n : c[i] = d[i]
  <2>1. Len(c) = n /\ \A i \in 1 .. n : c[i] = f[p + i]
    BY CellsAt
  <2>2. Len(d) = n /\ \A i \in 1 .. n : d[i] = g[q + i]
    BY CellsAt
  <2> HIDE DEF c, d
  <2> QED
    BY <2>1, <2>2 DEF Same
<1>2. IsSeq(c) /\ IsSeq(d)
  BY CellsAreSeq
<1> HIDE DEF c, d
<1>3. c \in Seq(S)
  BY <1>1, <1>2 DEF IsSeq
<1>4. d \in Seq(S)
  BY <1>1, <1>2, InSeq DEF IsSeq
<1>5. c = d
  BY <1>1, <1>3, <1>4, SeqEqual
<1> QED
  BY <1>5 DEF c, d

\* A page begins where the last one ends.
LEMMA AlignUpTwice ==
  ASSUME NEW n \in Nat, NEW p \in Nat \ {0}
  PROVE  AlignUp(AlignUp(n, p), p) = AlignUp(n, p)
<1>1. PICK k \in Nat : AlignUp(n, p) = p * k
  BY AlignUpFacts
<1>2. p * k <= p * k /\ p * k < p * k + p /\ p * k \in Nat
  BY SMT
<1> QED
  BY <1>1, <1>2, AlignUpIs

\* What was put stays when more is written behind it.
LEMMA KeptOn ==
  ASSUME NEW v, NEW f, Len(v) \in Nat, Len(f) \in Nat, Kept(f, 0, v),
         NEW n \in Nat, NEW t, Len(t) \in Nat, Kept(v, n, t)
  PROVE  Kept(f, n, t)
<1>1. ASSUME NEW i \in 1 .. Len(t) PROVE f[n + i] = t[i]
  <2>1. v[n + i] = t[i] /\ n + i \in 1 .. Len(v) /\ 0 + (n + i) = n + i
    BY DEF Kept, Holds
  <2>2. f[0 + (n + i)] = v[n + i]
    BY <2>1 DEF Kept, Holds
  <2> QED
    BY <2>1, <2>2
<1>2. n + Len(t) <= Len(v) /\ 0 + Len(v) <= Len(f)
  BY DEF Kept
<1>3. n + Len(t) <= Len(f)
  BY <1>2 DEF Kept
<1> QED
  BY <1>1, <1>3 DEF Kept, Holds

=============================================================================
