----------------------------- MODULE ImagesProofs -----------------------------
(***************************************************************************)
(* What the builders write, the parsers read; and so it is over any number *)
(* of rounds of unpack, edit and repack.                                   *)
(*                                                                         *)
(* The first parts take the builders one by one, for contents of any size. *)
(* Each argument follows the builder's cursor: what is put down lies where *)
(* the parser will look (Holds), and nothing later moves it.  A dtbo and a *)
(* concatenation of device trees have any number of parts; the folds and   *)
(* the recursion over them are taken as functions that go on by one step,  *)
(* and Induction over the set of the numbers they are right for does the   *)
(* rest.  Then come the wrapper, what is read of any file that is accepted *)
(* at all, the edits, and the invariant: the directory is one, the output  *)
(* was built from it as it is now, and it is what unpack recorded of the   *)
(* file.                                                                   *)
(***************************************************************************)
EXTENDS Images, ByteIOProofs
LOCAL INSTANCE SequencesExt

-----------------------------------------------------------------------------
\* Values of different kinds are different: a header is no byte of data, a
\* sequence is not the mark of a blob that cannot be read, and a directory is there.
KindsApart ==
  /\ \A d : /\ BootHeader(d) \notin Byte /\ DtboTable(d) \notin Byte
            /\ UImageHeader(d) \notin Byte
            /\ \A i : DtboRow(d, i) \notin Byte
  /\ \A comp, enc, t : [fmt |-> "zip", comp |-> comp, enc |-> enc, data |-> t] \notin Byte
  /\ \A t, n : [fmt |-> "dhtb", digest |-> t, size |-> n] \notin Byte
  /\ \A t : IsSeq(t) => t # Invalid
  /\ \A wrap, img : [wrap |-> wrap, img |-> img] # Null

-----------------------------------------------------------------------------
(* FlattenSeq                                                               *)

\* f[i] is the concatenation of the first i parts.
Joins(f, parts, n) ==
  f = [i \in 1 .. n |-> IF i = 1 THEN parts[i] ELSE f[i - 1] \o parts[i]]

\* There is such a function, for any number of parts.
LEMMA JoinsExists ==
  ASSUME NEW parts, NEW n \in Nat
  PROVE  \E f : Joins(f, parts, n)
<1> DEFINE P == {m \in Nat : \E f : Joins(f, parts, m)}
<1>1. 0 \in P
  <2> DEFINE f == [i \in 1 .. 0 |-> {}]
  <2>1. Joins(f, parts, 0)
    BY DEF Joins
  <2> HIDE DEF f
  <2> QED
    BY <2>1
<1>2. ASSUME NEW m \in Nat, m \in P PROVE m + 1 \in P
  <2>1. PICK f : Joins(f, parts, m)
    BY <1>2
  <2> DEFINE next == IF m = 0 THEN parts[m + 1] ELSE f[m] \o parts[m + 1]
             g == [i \in 1 .. m + 1 |-> IF i \in 1 .. m THEN f[i] ELSE next]
  <2>2. ASSUME NEW i \in 1 .. m + 1
        PROVE  g[i] = IF i = 1 THEN parts[i] ELSE g[i - 1] \o parts[i]
    <3>1. CASE i \in 1 .. m
      <4>1. f[i] = IF i = 1 THEN parts[i] ELSE f[i - 1] \o parts[i]
        BY <2>1, <3>1 DEF Joins
      <4>2. i # 1 => i - 1 \in 1 .. m /\ i - 1 \in 1 .. m + 1
        BY <3>1
      <4> QED
        BY <3>1, <4>1, <4>2
    <3>2. CASE i \notin 1 .. m
      <4>1. i = m + 1 /\ (m = 0 <=> i = 1) /\ (i # 1 => m \in 1 .. m /\ m \in 1 .. m + 1)
        BY <3>2
      <4>2. i - 1 = m
        BY <4>1
      <4>3. g[i] = next
        BY <3>2
      <4>4. i # 1 => g[m] = f[m]
        BY <4>1
      <4> HIDE DEF g
      <4> QED
        BY <4>1, <4>2, <4>3, <4>4
    <3> QED
      BY <3>1, <3>2
  <2>3. DOMAIN g = 1 .. m + 1 /\ g = [i \in 1 .. m + 1 |-> g[i]]
    OBVIOUS
  <2> HIDE DEF g, next
  <2>4. g = [i \in 1 .. m + 1 |-> IF i = 1 THEN parts[i] ELSE g[i - 1] \o parts[i]]
    BY <2>2, <2>3
  <2>5. Joins(g, parts, m + 1)
    BY ONLY <2>4 DEF Joins
  <2> QED
    BY <2>5
<1> HIDE DEF P
<1>3. n \in P
  BY <1>1, <1>2, Induction
<1> QED
  BY <1>3 DEF P

\* The fold of the community module takes the parts one by one.
LEMMA FlattenIsJoin ==
  ASSUME NEW parts, Len(parts) \in Nat, Len(parts) # 0
  PROVE  \E f : Joins(f, parts, Len(parts)) /\ FlattenSeq(parts) = f[Len(parts)]
<1> DEFINE f == CHOOSE g : Joins(g, parts, Len(parts))
<1>1. Joins(f, parts, Len(parts))
  BY JoinsExists
<1>2. FlattenSeq(parts) = f[Len(parts)]
  BY DEF FlattenSeq, Joins
<1> HIDE DEF f
<1> QED
  BY <1>1, <1>2

\* What a sequence holds, it holds when another is put behind it.
LEMMA Appended ==
  ASSUME NEW S, NEW u \in Seq(S), NEW t \in Seq(S)
  PROVE  /\ u \o t \in Seq(S) /\ Len(u \o t) = Len(u) + Len(t)
         /\ Len(u) \in Nat /\ Len(t) \in Nat
         /\ Holds(u \o t, Len(u), t)
         /\ \A n \in Nat, x \in Seq(S) :
              n + Len(x) <= Len(u) /\ Holds(u, n, x) => Holds(u \o t, n, x)
<1>1. /\ u \o t \in Seq(S) /\ Len(u \o t) = Len(u) + Len(t)
      /\ Len(u) \in Nat /\ Len(t) \in Nat
      /\ \A i \in 1 .. Len(u) + Len(t) :
           (u \o t)[i] = IF i <= Len(u) THEN u[i] ELSE t[i - Len(u)]
  BY ConcatProperties, LenProperties
<1>2. Holds(u \o t, Len(u), t)
  <2> SUFFICES ASSUME NEW i \in 1 .. Len(t) PROVE (u \o t)[Len(u) + i] = t[i]
    BY DEF Holds
  <2>1. /\ Len(u) + i \in 1 .. Len(u) + Len(t) /\ ~(Len(u) + i <= Len(u))
        /\ (Len(u) + i) - Len(u) = i
    BY <1>1
  <2> QED
    BY <1>1, <2>1
<1>3. ASSUME NEW n \in Nat, NEW x \in Seq(S), n + Len(x) <= Len(u), Holds(u, n, x)
      PROVE  Holds(u \o t, n, x)
  <2> SUFFICES ASSUME NEW i \in 1 .. Len(x) PROVE (u \o t)[n + i] = x[i]
    BY DEF Holds
  <2>1. n + i \in 1 .. Len(u) + Len(t) /\ n + i <= Len(u)
    BY <1>1, <1>3, LenProperties
  <2>2. u[n + i] = x[i]
    BY <1>3 DEF Holds
  <2> QED
    BY <1>1, <2>1, <2>2
<1> QED
  BY <1>1, <1>2, <1>3

\* The places of the parts, from at[1] on.
Places(at, parts) ==
  /\ at[1] \in Nat
  /\ \A i \in 1 .. Len(parts) : at[i + 1] = at[i] + Len(parts[i])

\* The first k parts are in u, each at its place.
Joined(u, at, parts, k) ==
  /\ at[k + 1] \in Nat /\ at[1] + Len(u) = at[k + 1]
  /\ \A i \in 1 .. k : /\ at[i] \in Nat /\ at[1] <= at[i]
                       /\ at[i] + Len(parts[i]) <= at[k + 1]
                       /\ Holds(u, at[i] - at[1], parts[i])

\* The parts lie one behind the other, each whole.
LEMMA FlattenFacts ==
  ASSUME NEW S, NEW parts \in Seq(Seq(S)), NEW at, Places(at, parts)
  PROVE  /\ FlattenSeq(parts) \in Seq(S)
         /\ Joined(FlattenSeq(parts), at, parts, Len(parts))
<1> DEFINE n == Len(parts)
<1>1. n \in Nat /\ \A i \in 1 .. n : parts[i] \in Seq(S) /\ Len(parts[i]) \in Nat
  BY LenProperties, ElementOfSeq
<1>2. CASE n = 0
  <2>1. FlattenSeq(parts) = parts /\ parts = <<>>
    BY <1>2, EmptySeq DEF FlattenSeq
  <2>2. parts \in Seq(S) /\ Len(parts) = 0 /\ at[1] \in Nat
    BY <2>1, EmptySeq DEF Places
  <2>3. Joined(parts, at, parts, 0)
    BY <2>2 DEF Joined
  <2> QED
    BY <2>1, <2>2, <2>3
<1>3. CASE n # 0
  <2>1. PICK f : Joins(f, parts, n) /\ FlattenSeq(parts) = f[n]
    BY <1>1, <1>3, FlattenIsJoin
  <2> DEFINE Good(k) == f[k] \in Seq(S) /\ Joined(f[k], at, parts, k)
             P == {k \in Nat : k + 1 <= n => Good(k + 1)}
  <2>2. Good(1)
    <3>1. f[1] = parts[1] /\ 1 \in 1 .. n
      BY <1>1, <1>3, <2>1 DEF Joins
    <3>2. at[1] \in Nat /\ at[2] = at[1] + Len(parts[1]) /\ parts[1] \in Seq(S)
          /\ Len(parts[1]) \in Nat
      BY <1>1, <3>1 DEF Places
    <3>3. \A i \in 1 .. Len(parts[1]) : f[1][0 + i] = parts[1][i]
      BY <3>1
    <3>4. \A i \in 1 .. 1 : i = 1
      OBVIOUS
    <3>5. at[1] - at[1] = 0 /\ at[1] + Len(parts[1]) <= at[2] /\ at[2] \in Nat
      BY <3>2
    <3> QED
      BY <3>1, <3>2, <3>3, <3>4, <3>5 DEF Joined, Holds
  <2>3. ASSUME NEW k \in Nat, k >= 1, k + 1 <= n, Good(k) PROVE Good(k + 1)
    <3> DEFINE u == f[k]
               t == parts[k + 1]
    <3>1. k + 1 \in 1 .. n /\ k + 1 # 1 /\ (k + 1) - 1 = k
      BY <1>1, <2>3
    <3>2. f[k + 1] = u \o t
      BY <2>1, <3>1 DEF Joins
    <3>3. u \in Seq(S) /\ t \in Seq(S)
      BY <1>1, <2>3, <3>1
    <3>4. /\ u \o t \in Seq(S) /\ Len(u \o t) = Len(u) + Len(t)
          /\ Len(u) \in Nat /\ Len(t) \in Nat
          /\ Holds(u \o t, Len(u), t)
          /\ \A m \in Nat, x \in Seq(S) :
               m + Len(x) <= Len(u) /\ Holds(u, m, x) => Holds(u \o t, m, x)
      BY <3>3, Appended
    <3> DEFINE a == at[1]
               b == at[k + 1]
               c == at[(k + 1) + 1]
    <3>5. a \in Nat /\ b \in Nat /\ a + Len(u) = b /\ c = b + Len(t)
      BY <2>3, <3>1 DEF Joined, Places
    <3>6. ASSUME NEW i \in 1 .. k + 1
          PROVE  /\ at[i] \in Nat /\ a <= at[i] /\ at[i] + Len(parts[i]) <= c
                 /\ Holds(u \o t, at[i] - a, parts[i])
      <4>1. CASE i = k + 1
        <5>1. at[i] = b /\ parts[i] = t
          BY <4>1
        <5> HIDE DEF u, t, a, b, c
        <5>2. b - a = Len(u) /\ a <= b /\ b + Len(t) <= c
          BY <3>4, <3>5
        <5> QED
          BY <3>4, <3>5, <5>1, <5>2
      <4>2. CASE i # k + 1
        <5>1. i \in 1 .. k /\ i \in 1 .. n
          BY <1>1, <3>1, <4>2
        <5>2. /\ at[i] \in Nat /\ a <= at[i] /\ at[i] + Len(parts[i]) <= b
              /\ Holds(u, at[i] - a, parts[i])
          BY <2>3, <5>1 DEF Joined
        <5>3. parts[i] \in Seq(S) /\ Len(parts[i]) \in Nat
          BY <1>1, <5>1
        <5> HIDE DEF u, t, a, b, c
        <5>4. /\ at[i] - a \in Nat /\ (at[i] - a) + Len(parts[i]) <= Len(u)
              /\ at[i] + Len(parts[i]) <= c
          <6>1. Len(u) \in Nat /\ Len(t) \in Nat
            BY <3>4
          <6> QED
            BY <3>5, <5>2, <5>3, <6>1, SMTT(20)
        <5> QED
          BY <3>4, <5>2, <5>3, <5>4
      <4> QED
        BY <4>1, <4>2
    <3>7. c \in Nat /\ a + Len(u \o t) = c
      <4> HIDE DEF u, t, a, b, c
      <4> QED
        BY <3>4, <3>5
    <3>8. Joined(u \o t, at, parts, k + 1)
      <4> HIDE DEF u, t
      <4> QED
        BY <3>6, <3>7 DEF Joined
    <3> QED
      BY <3>2, <3>4, <3>8
  <2>4. 0 \in P
    BY <2>2
  <2>5. ASSUME NEW k \in Nat, k \in P PROVE k + 1 \in P
    <3> HIDE DEF Good
    <3>1. CASE (k + 1) + 1 <= n
      <4>1. k + 1 \in Nat /\ k + 1 >= 1 /\ k + 1 <= n
        BY <1>1, <3>1
      <4> QED
        BY <2>3, <2>5, <3>1, <4>1
    <3> QED
      BY <3>1
  <2> HIDE DEF P
  <2>6. n - 1 \in Nat /\ (n - 1) + 1 = n /\ n <= n
    BY <1>1, <1>3
  <2>7. n - 1 \in P
    BY <2>4, <2>5, <2>6, Induction
  <2>8. Good(n)
    BY <2>6, <2>7 DEF P
  <2> QED
    BY <2>1, <2>8
<1> QED
  BY <1>2, <1>3

-----------------------------------------------------------------------------
(* DtboImage::build                                                         *)

\* f[i] is base and the sizes before i.
Sums(f, base, size, n) ==
  f = [i \in 1 .. n + 1 |-> IF i = 1 THEN base ELSE f[i - 1] + size[i - 1]]

\* There is such a function, for any number of sizes.
LEMMA SumsExist ==
  ASSUME NEW base, NEW size, NEW n \in Nat
  PROVE  \E f : Sums(f, base, size, n)
<1> DEFINE P == {m \in Nat : \E f : Sums(f, base, size, m)}
<1>1. 0 \in P
  <2> DEFINE f == [i \in 1 .. 1 |-> base]
  <2>1. \A i \in 1 .. 1 : i = 1
    OBVIOUS
  <2>2. f = [i \in 1 .. 0 + 1 |-> IF i = 1 THEN base ELSE f[i - 1] + size[i - 1]]
    BY <2>1
  <2>3. Sums(f, base, size, 0)
    BY ONLY <2>2 DEF Sums
  <2> HIDE DEF f
  <2> QED
    BY <2>3
<1>2. ASSUME NEW m \in Nat, m \in P PROVE m + 1 \in P
  <2>1. PICK f : Sums(f, base, size, m)
    BY <1>2
  <2> DEFINE next == f[m + 1] + size[m + 1]
             g == [i \in 1 .. (m + 1) + 1 |-> IF i \in 1 .. m + 1 THEN f[i] ELSE next]
  <2>2. ASSUME NEW i \in 1 .. (m + 1) + 1
        PROVE  g[i] = IF i = 1 THEN base ELSE g[i - 1] + size[i - 1]
    <3>1. CASE i \in 1 .. m + 1
      <4>1. f[i] = IF i = 1 THEN base ELSE f[i - 1] + size[i - 1]
        BY <2>1, <3>1 DEF Sums
      <4>2. i # 1 => i - 1 \in 1 .. m + 1 /\ i - 1 \in 1 .. (m + 1) + 1
        BY <3>1
      <4>3. g[i] = f[i] /\ (i # 1 => g[i - 1] = f[i - 1])
        BY <3>1, <4>2
      <4> HIDE DEF g
      <4> QED
        BY <4>1, <4>3
    <3>2. CASE i \notin 1 .. m + 1
      <4>1. i = (m + 1) + 1 /\ i # 1 /\ m + 1 \in 1 .. m + 1 /\ m + 1 \in 1 .. (m + 1) + 1
        BY <3>2
      <4>2. i - 1 = m + 1
        BY <4>1
      <4>3. g[i] = next
        BY <3>2
      <4>4. g[m + 1] = f[m + 1]
        BY <4>1
      <4> HIDE DEF g
      <4> QED
        BY <4>1, <4>2, <4>3, <4>4
    <3> QED
      BY <3>1, <3>2
  <2>3. g = [i \in 1 .. (m + 1) + 1 |-> g[i]]
    OBVIOUS
  <2> HIDE DEF g, next
  <2>4. g = [i \in 1 .. (m + 1) + 1 |-> IF i = 1 THEN base ELSE g[i - 1] + size[i - 1]]
    BY <2>2, <2>3
  <2>5. Sums(g, base, size, m + 1)
    BY ONLY <2>4 DEF Sums
  <2> QED
    BY <2>5
<1> HIDE DEF P
<1>3. n \in P
  BY <1>1, <1>2, Induction
<1> QED
  BY <1>3 DEF P

\* It goes on by one size at a time.
LEMMA SumsFacts ==
  ASSUME NEW f, NEW base, NEW size, NEW n \in Nat, Sums(f, base, size, n)
  PROVE  f[1] = base /\ \A i \in 1 .. n : f[i + 1] = f[i] + size[i]
<1>1. 1 \in 1 .. n + 1
  OBVIOUS
<1>2. ASSUME NEW i \in 1 .. n
      PROVE  i + 1 \in 1 .. n + 1 /\ i + 1 # 1 /\ (i + 1) - 1 = i
  OBVIOUS
<1>3. ASSUME NEW i \in 1 .. n PROVE f[i + 1] = f[i] + size[i]
  BY <1>2 DEF Sums
<1> QED
  BY <1>1, <1>3 DEF Sums

\* The blobs begin behind the rows, and each behind the one before.
LEMMA CursorFacts ==
  ASSUME NEW d, Len(d.entries) \in Nat
  PROVE  /\ Cursor(d)[1] = TableLen + Len(d.entries) * RowLen
         /\ \A i \in 1 .. Len(d.entries) : Cursor(d)[i + 1] = Cursor(d)[i] + Size(d, i)
<1> DEFINE n == Len(d.entries)
           base == TableLen + n * RowLen
           size == [i \in 1 .. n |-> Size(d, i)]
           Built(f) == f = [i \in 1 .. n + 1 |-> IF i = 1 THEN base
                                                 ELSE f[i - 1] + Size(d, i - 1)]
<1>1. Cursor(d) = CHOOSE f : Built(f)
  BY DEF Cursor
<1>2. ASSUME NEW f PROVE Built(f) <=> Sums(f, base, size, n)
  <2>1. ASSUME NEW i \in 1 .. n + 1, i # 1 PROVE size[i - 1] = Size(d, i - 1)
    <3>1. i - 1 \in 1 .. n
      BY <2>1
    <3> QED
      BY <3>1
  <2> HIDE DEF base, size
  <2>2. [i \in 1 .. n + 1 |-> IF i = 1 THEN base ELSE f[i - 1] + Size(d, i - 1)]
          = [i \in 1 .. n + 1 |-> IF i = 1 THEN base ELSE f[i - 1] + size[i - 1]]
    BY <2>1
  <2> QED
    BY ONLY <2>2 DEF Sums
<1>3. \E f : Sums(f, base, size, n)
  <2> HIDE DEF base, size
  <2> QED
    BY SumsExist
<1> HIDE DEF Built, base, size
<1>4. Sums(Cursor(d), base, size, n)
  BY <1>1, <1>2, <1>3
<1>5. Cursor(d)[1] = base /\ \A i \in 1 .. n : Cursor(d)[i + 1] = Cursor(d)[i] + size[i]
  BY <1>4, SumsFacts
<1> QED
  BY <1>5 DEF base, size

\* What is held inside of a part is held at the sum of the places.
LEMMA HoldsIn ==
  ASSUME NEW f, NEW n \in Nat, NEW g, Holds(f, n, g), NEW m \in Nat, NEW t,
         Holds(g, m, t), Len(g) \in Nat, Len(t) \in Nat, m + Len(t) <= Len(g)
  PROVE  Holds(f, n + m, t)
<1> SUFFICES ASSUME NEW i \in 1 .. Len(t) PROVE f[(n + m) + i] = t[i]
  BY DEF Holds
<1>1. m + i \in 1 .. Len(g) /\ n + (m + i) = (n + m) + i
  OBVIOUS
<1> QED
  BY <1>1 DEF Holds

\* A header cell and zeros for the rest of its length.
LEMMA HeaderCells ==
  ASSUME NEW S, Zero \in S, NEW h \in S, NEW n \in Nat \ {0}
  PROVE  /\ <<h>> \o Zeros(n - 1) \in Seq(S)
         /\ Len(<<h>> \o Zeros(n - 1)) = n
         /\ (<<h>> \o Zeros(n - 1))[1] = h
<1>1. n - 1 \in Nat
  OBVIOUS
<1>2. Zeros(n - 1) \in Seq(S) /\ Len(Zeros(n - 1)) = n - 1
  BY <1>1, ZerosFacts
<1> DEFINE a == <<h>>
           z == Zeros(n - 1)
<1>3. a \in Seq(S) /\ Len(a) = 1 /\ a[1] = h
  OBVIOUS
<1>a. z \in Seq(S) /\ Len(z) = n - 1
  BY <1>2
<1> HIDE DEF a, z
<1>4. a \o z \in Seq(S) /\ Len(a \o z) = 1 + (n - 1)
      /\ \A i \in 1 .. 1 + (n - 1) : (a \o z)[i] = IF i <= 1 THEN a[i] ELSE z[i - 1]
  <2>1. /\ a \o z \in Seq(S) /\ Len(a \o z) = Len(a) + Len(z)
        /\ \A i \in 1 .. Len(a) + Len(z) :
             (a \o z)[i] = IF i <= Len(a) THEN a[i] ELSE z[i - Len(a)]
    BY <1>a, <1>3, ConcatProperties
  <2> QED
    BY <1>a, <1>3, <2>1
<1>5. 1 \in 1 .. 1 + (n - 1) /\ 1 + (n - 1) = n
  OBVIOUS
<1> HIDE DEF a
<1>6. (a \o z)[1] = h
  BY <1>3, <1>4, <1>5
<1> QED
  BY <1>4, <1>5, <1>6 DEF a, z

\* A blob, as it is or deflated, is a sequence of cells.
LEMMA PayloadFacts ==
  ASSUME NEW d, IsDtbo(d), NEW i \in 1 .. Len(d.entries)
  PROVE  IsSeq(Payload(d, i)) /\ Len(Payload(d, i)) \in Nat
<1>1. IsSeq(d.entries[i].data)
  BY DEF IsDtbo
<1>2. CASE IsDeflated(d.version, d.entries[i].comp)
  <2> DEFINE z == [fmt |-> "zip", comp |-> d.entries[i].comp, enc |-> "abr",
                   data |-> d.entries[i].data]
  <2>1. Payload(d, i) = <<z>>
    BY <1>2 DEF Payload, Deflated
  <2> HIDE DEF z
  <2>2. <<z>> \in Seq({z}) /\ Len(<<z>>) = 1
    OBVIOUS
  <2> QED
    BY <2>1, <2>2, SeqIsSeq
<1>3. CASE ~IsDeflated(d.version, d.entries[i].comp)
  BY <1>1, <1>3, LenProperties DEF Payload, IsSeq
<1> QED
  BY <1>2, <1>3

\* The rows of the table, and the blobs behind them.
Rows(d) == [i \in 1 .. Len(d.entries) |-> <<DtboRow(d, i)>> \o Zeros(RowLen - 1)]
Payloads(d) == [i \in 1 .. Len(d.entries) |-> Payload(d, i)]

\* The cells of an image that is built.
DtboCells(d) ==
  {Zero, DtboTable(d)} \cup {DtboRow(d, i) : i \in 1 .. Len(d.entries)}
    \cup UNION {{Payload(d, i)[j] : j \in 1 .. Len(Payload(d, i))} :
                  i \in 1 .. Len(d.entries)}

\* The rows lie side by side, as wide as the header says.
LEMMA RowsFacts ==
  ASSUME NEW d, IsDtbo(d)
  PROVE  LET S == DtboCells(d)
             n == Len(d.entries)
         IN  /\ FlattenSeq(Rows(d)) \in Seq(S)
             /\ Len(FlattenSeq(Rows(d))) = n * RowLen
             /\ \A i \in 1 .. n :
                  /\ (i - 1) * RowLen \in Nat /\ (i - 1) * RowLen + RowLen <= n * RowLen
                  /\ Holds(FlattenSeq(Rows(d)), (i - 1) * RowLen, Rows(d)[i])
                  /\ Len(Rows(d)[i]) = RowLen /\ Rows(d)[i][1] = DtboRow(d, i)
<1> DEFINE S == DtboCells(d)
           n == Len(d.entries)
           parts == Rows(d)
           at == [i \in 1 .. n + 1 |-> (i - 1) * RowLen]
<1>0. n \in Nat /\ RowLen \in Nat \ {0} /\ Zero \in S
      /\ \A i \in 1 .. n : DtboRow(d, i) \in S
  BY LenProperties, DtboAssumption DEF IsDtbo, IsSeq, DtboCells
<1> HIDE DEF S, n
<1>1. ASSUME NEW i \in 1 .. n
      PROVE  parts[i] \in Seq(S) /\ Len(parts[i]) = RowLen /\ parts[i][1] = DtboRow(d, i)
  <2>1. parts[i] = <<DtboRow(d, i)>> \o Zeros(RowLen - 1)
    BY DEF Rows, n
  <2> DEFINE row == DtboRow(d, i)
  <2>2. row \in S
    BY <1>0
  <2> HIDE DEF row, parts
  <2>3. /\ <<row>> \o Zeros(RowLen - 1) \in Seq(S)
        /\ Len(<<row>> \o Zeros(RowLen - 1)) = RowLen
        /\ (<<row>> \o Zeros(RowLen - 1))[1] = row
    BY <1>0, <2>2, HeaderCells
  <2> QED
    BY <2>1, <2>3 DEF row
<1>2. parts \in Seq(Seq(S)) /\ Len(parts) = n
  <2>1. parts = [i \in 1 .. n |-> <<DtboRow(d, i)>> \o Zeros(RowLen - 1)]
    BY DEF Rows, n
  <2> HIDE DEF parts
  <2>2. \A i \in 1 .. n : parts[i] \in Seq(S)
    BY <1>1 DEF parts
  <2> QED
    BY <1>0, <2>1, <2>2
<1> HIDE DEF parts
<1>3. at[1] = 0
  BY <1>0
<1>4. ASSUME NEW i \in 1 .. n PROVE at[i + 1] = at[i] + RowLen
  <2>1. i \in 1 .. n + 1 /\ i + 1 \in 1 .. n + 1 /\ i \in Nat
    BY <1>0
  <2>2. at[i] = (i - 1) * RowLen /\ at[i + 1] = ((i + 1) - 1) * RowLen
    BY <2>1
  <2> HIDE DEF at
  <2>3. ((i + 1) - 1) * RowLen = (i - 1) * RowLen + RowLen
    BY <1>0, <2>1
  <2> QED
    BY <2>2, <2>3
<1>5. /\ at[n + 1] = n * RowLen
      /\ \A i \in 1 .. n : at[i] = (i - 1) * RowLen
  BY <1>0
<1> HIDE DEF at
<1>6. Places(at, parts)
  BY <1>1, <1>2, <1>3, <1>4 DEF Places
<1>7. /\ FlattenSeq(parts) \in Seq(S)
      /\ Joined(FlattenSeq(parts), at, parts, n)
  BY <1>2, <1>6, FlattenFacts
<1>8. Len(FlattenSeq(parts)) = n * RowLen
  <2>1. Len(FlattenSeq(parts)) \in Nat
    BY <1>7, LenProperties
  <2> QED
    BY <1>3, <1>5, <1>7, <2>1 DEF Joined
<1>9. ASSUME NEW i \in 1 .. n
      PROVE  /\ (i - 1) * RowLen \in Nat /\ (i - 1) * RowLen + RowLen <= n * RowLen
             /\ Holds(FlattenSeq(parts), (i - 1) * RowLen, parts[i])
  <2>1. /\ at[i] \in Nat /\ at[i] + Len(parts[i]) <= at[n + 1]
        /\ Holds(FlattenSeq(parts), at[i] - at[1], parts[i])
    BY <1>7 DEF Joined
  <2>2. at[i] - at[1] = at[i]
    BY <1>3, <2>1
  <2> QED
    BY <1>1, <1>5, <2>1, <2>2
<1> QED
  BY <1>1, <1>7, <1>8, <1>9 DEF S, n, parts

\* The blobs lie at the places that the cursor passes.
LEMMA PayloadsFacts ==
  ASSUME NEW d, IsDtbo(d)
  PROVE  LET S == DtboCells(d)
             n == Len(d.entries)
             base == TableLen + n * RowLen
         IN  /\ FlattenSeq(Payloads(d)) \in Seq(S)
             /\ base \in Nat /\ base + Len(FlattenSeq(Payloads(d))) = Cursor(d)[n + 1]
             /\ \A i \in 1 .. n :
                  /\ Cursor(d)[i] \in Nat /\ base <= Cursor(d)[i]
                  /\ Cursor(d)[i] + Size(d, i) <= Cursor(d)[n + 1]
                  /\ Payload(d, i) \in Seq(S)
                  /\ Holds(FlattenSeq(Payloads(d)), Cursor(d)[i] - base, Payload(d, i))
<1> DEFINE S == DtboCells(d)
           n == Len(d.entries)
           parts == Payloads(d)
           at == Cursor(d)
           base == TableLen + n * RowLen
<1>0. n \in Nat
  BY LenProperties DEF IsDtbo, IsSeq
<1>a. base \in Nat
  BY <1>0, DtboAssumption
<1>1. at[1] = base /\ \A i \in 1 .. n : at[i + 1] = at[i] + Size(d, i)
  BY <1>0, CursorFacts
<1>2. ASSUME NEW i \in 1 .. n PROVE Payload(d, i) \in Seq(S)
  <2> DEFINE t == Payload(d, i)
             R == {t[j] : j \in 1 .. Len(t)}
  <2>1. t \in Seq(R)
    BY PayloadFacts DEF IsSeq
  <2>2. \A j \in 1 .. Len(t) : t[j] \in S
    BY DEF DtboCells
  <2> HIDE DEF t, R, S
  <2> QED
    BY <2>1, <2>2, InSeq DEF t
<1> HIDE DEF S, at, base
<1>3. parts \in Seq(Seq(S)) /\ Len(parts) = n /\ \A i \in 1 .. n : parts[i] = Payload(d, i)
  <2>1. parts = [i \in 1 .. n |-> Payload(d, i)]
    BY DEF Payloads
  <2> HIDE DEF parts, n
  <2> QED
    BY <1>0, <1>2, <2>1
<1> HIDE DEF n, parts
<1>4. Places(at, parts)
  BY <1>1, <1>a, <1>3 DEF Places, Size
<1>5. /\ FlattenSeq(parts) \in Seq(S)
      /\ Joined(FlattenSeq(parts), at, parts, n)
  BY <1>3, <1>4, FlattenFacts
<1>6. base + Len(FlattenSeq(parts)) = at[n + 1]
  BY <1>1, <1>5 DEF Joined
<1>7. ASSUME NEW i \in 1 .. n
      PROVE  /\ at[i] \in Nat /\ base <= at[i] /\ at[i] + Size(d, i) <= at[n + 1]
             /\ Payload(d, i) \in Seq(S)
             /\ Holds(FlattenSeq(parts), at[i] - base, Payload(d, i))
  BY <1>1, <1>2, <1>3, <1>5 DEF Joined, Size
<1> QED
  BY <1>a, <1>5, <1>6, <1>7 DEF S, n, at, base, parts

\* What build has put where.
LEMMA DtboBuilt ==
  ASSUME NEW d, IsDtbo(d)
  PROVE  LET f == BuildDtbo(d)
             S == DtboCells(d)
             n == Len(d.entries)
         IN  /\ f \in Seq(S) /\ Len(f) = Cursor(d)[n + 1]
             /\ TableLen <= Len(f) /\ f[1] = DtboTable(d)
             /\ \A i \in 1 .. n :
                  /\ RowAt(DtboTable(d), i) \in Nat
                  /\ RowAt(DtboTable(d), i) + RowLen <= Len(f)
                  /\ f[RowAt(DtboTable(d), i) + 1] = DtboRow(d, i)
                  /\ Cursor(d)[i] \in Nat /\ Size(d, i) \in Nat
                  /\ Cursor(d)[i] + Size(d, i) <= Len(f)
                  /\ Cells(f, Cursor(d)[i], Size(d, i)) = Payload(d, i)
<1> DEFINE S == DtboCells(d)
           n == Len(d.entries)
           h == DtboTable(d)
           a == <<h>> \o Zeros(TableLen - 1)
           b == FlattenSeq(Rows(d))
           c == FlattenSeq(Payloads(d))
           f == BuildDtbo(d)
           base == TableLen + n * RowLen
<1>1. f = a \o b \o c
  BY DEF BuildDtbo, Rows, Payloads
<1>2. /\ n \in Nat /\ RowLen \in Nat \ {0} /\ TableLen \in Nat \ {0} /\ Zero \in S /\ h \in S
  BY LenProperties, DtboAssumption DEF IsDtbo, IsSeq, DtboCells
<1>3. a \in Seq(S) /\ Len(a) = TableLen /\ a[1] = h
  <2> HIDE DEF S, h
  <2> QED
    BY <1>2, HeaderCells
<1>4. /\ b \in Seq(S) /\ Len(b) = n * RowLen
      /\ \A i \in 1 .. n :
           /\ (i - 1) * RowLen \in Nat /\ (i - 1) * RowLen + RowLen <= n * RowLen
           /\ Holds(b, (i - 1) * RowLen, Rows(d)[i])
           /\ Len(Rows(d)[i]) = RowLen /\ Rows(d)[i][1] = DtboRow(d, i)
  BY RowsFacts
<1>5. /\ c \in Seq(S) /\ base \in Nat /\ base + Len(c) = Cursor(d)[n + 1]
      /\ \A i \in 1 .. n :
           /\ Cursor(d)[i] \in Nat /\ base <= Cursor(d)[i]
           /\ Cursor(d)[i] + Size(d, i) <= Cursor(d)[n + 1]
           /\ Payload(d, i) \in Seq(S)
           /\ Holds(c, Cursor(d)[i] - base, Payload(d, i))
  BY PayloadsFacts
<1>6. RowAt(h, 0 + 1) = RowAt(h, 1) /\ \A i \in 1 .. n : RowAt(h, i) = TableLen + (i - 1) * RowLen
  BY DEF RowAt, DtboTable
<1> HIDE DEF S, n, h, a, b, c, f, base
<1>7. /\ f \in Seq(S) /\ Len(f) = Len(a) + Len(b) + Len(c)
      /\ Len(a) \in Nat /\ Len(b) \in Nat /\ Len(c) \in Nat
      /\ Holds(f, 0, a) /\ Holds(f, Len(a), b) /\ Holds(f, Len(a) + Len(b), c)
  <2>1. a \in Seq(S) /\ b \in Seq(S) /\ c \in Seq(S)
    BY <1>3, <1>4, <1>5
  <2> QED
    BY ONLY <1>1, <2>1, ThreeParts
<1>8. Len(a) + Len(b) = base /\ Len(f) = Cursor(d)[n + 1] /\ TableLen <= Len(f)
  <2>1. Len(a) + Len(b) = base
    BY <1>3, <1>4 DEF base
  <2>2. Len(f) = base + Len(c)
    BY <1>7, <2>1
  <2>3. TableLen <= Len(f)
    BY <1>3, <1>7
  <2> QED
    BY <1>5, <2>1, <2>2, <2>3
<1>9. f[1] = h
  <2>1. 1 \in 1 .. Len(a) /\ 0 + 1 = 1
    BY <1>2, <1>3
  <2> QED
    BY <1>3, <1>7, <2>1 DEF Holds
<1>10. ASSUME NEW i \in 1 .. n
       PROVE  /\ RowAt(h, i) \in Nat /\ RowAt(h, i) + RowLen <= Len(f)
              /\ f[RowAt(h, i) + 1] = DtboRow(d, i)
  <2> DEFINE m == (i - 1) * RowLen
             k == n * RowLen
             t == Rows(d)[i]
  <2>1. /\ RowAt(h, i) = TableLen + m /\ m \in Nat /\ m + RowLen <= k
        /\ Holds(b, m, t) /\ Len(t) = RowLen /\ t[1] = DtboRow(d, i) /\ Len(b) = k
    BY <1>4, <1>6
  <2> HIDE DEF m, k, t
  <2>2. Holds(f, Len(a) + m, t)
    BY <1>2, <1>7, <2>1, HoldsIn
  <2>3. 1 \in 1 .. Len(t)
    BY <1>2, <2>1
  <2>4. f[(Len(a) + m) + 1] = t[1]
    BY <2>2, <2>3 DEF Holds
  <2>5. RowAt(h, i) \in Nat /\ RowAt(h, i) + RowLen <= Len(f) /\ RowAt(h, i) = Len(a) + m
    BY <1>2, <1>3, <1>7, <2>1
  <2> QED
    BY <2>1, <2>4, <2>5
<1>11. ASSUME NEW i \in 1 .. n
       PROVE  /\ Cursor(d)[i] \in Nat /\ Size(d, i) \in Nat
              /\ Cursor(d)[i] + Size(d, i) <= Len(f)
              /\ Cells(f, Cursor(d)[i], Size(d, i)) = Payload(d, i)
  <2> DEFINE p == Cursor(d)[i]
             t == Payload(d, i)
  <2>1. /\ p \in Nat /\ base <= p /\ p + Size(d, i) <= Len(f) /\ t \in Seq(S)
        /\ Holds(c, p - base, t) /\ Size(d, i) = Len(t)
    BY <1>5, <1>8 DEF Size
  <2>2. Len(t) \in Nat
    BY <2>1, LenProperties
  <2> HIDE DEF p, t
  <2>3. p - base \in Nat /\ base + (p - base) = p /\ (p - base) + Len(t) <= Len(c)
    BY <1>5, <1>7, <1>8, <2>1, <2>2
  <2>4. Holds(f, base + (p - base), t)
    BY <1>5, <1>7, <1>8, <2>1, <2>2, <2>3, HoldsIn
  <2>5. \A j \in 1 .. Len(t) : f[p + j] = t[j]
    BY <2>3, <2>4 DEF Holds
  <2>6. Cells(f, p, Len(t)) = t
    BY <1>7, <2>1, <2>5, CellsFound
  <2> QED
    BY <2>1, <2>2, <2>6 DEF p, t
<1> QED
  BY <1>7, <1>8, <1>9, <1>10, <1>11 DEF S, n, h, f

\* A payload is inflated to what was deflated.
LEMMA PayloadInflated ==
  ASSUME NEW d, IsDtbo(d), KindsApart, NEW i \in 1 .. Len(d.entries),
         IsDeflated(d.version, d.entries[i].comp)
  PROVE  Inflatable(Payload(d, i)) /\ Inflated(Payload(d, i)) = d.entries[i].data
<1> DEFINE data == d.entries[i].data
           z == [fmt |-> "zip", comp |-> d.entries[i].comp, enc |-> "abr", data |-> data]
<1>1. Payload(d, i) = <<z>>
  BY DEF Payload, Deflated
<1>2. z \notin Byte /\ z.fmt = "zip" /\ z.data = data /\ IsSeq(data)
  BY DEF KindsApart, IsDtbo
<1> HIDE DEF z, data
<1>3. <<z>> # <<>> /\ Len(<<z>>) = 1 /\ <<z>>[1] = z
  OBVIOUS
<1>4. Inflatable(<<z>>)
  BY <1>2, <1>3 DEF Inflatable, Begins
<1>5. Inflated(<<z>>) = data
  BY <1>2, <1>3 DEF Inflated
<1> QED
  BY <1>1, <1>4, <1>5 DEF data

\* What DtboImage::build writes, DtboImage::parse reads, whatever the number of
\* entries and the sizes of their blobs.
THEOREM DtboReadsBack ==
  ASSUME KindsApart, NEW d, IsDtbo(d), d.type = "dtbo", d.version \in {0, 1}
  PROVE  /\ DtboReadable(BuildDtbo(d)) /\ UnpackDtbo(BuildDtbo(d)) = d
         /\ IsSeq(BuildDtbo(d)) /\ Begins(BuildDtbo(d), "dtbo")
<1> DEFINE f == BuildDtbo(d)
           h == DtboTable(d)
           n == Len(d.entries)
           row(i) == DtboRow(d, i)
<1>1. /\ f \in Seq(DtboCells(d)) /\ TableLen <= Len(f) /\ f[1] = h
      /\ \A i \in 1 .. n :
           /\ RowAt(h, i) \in Nat /\ RowAt(h, i) + RowLen <= Len(f)
           /\ f[RowAt(h, i) + 1] = row(i)
           /\ Cursor(d)[i] \in Nat /\ Size(d, i) \in Nat
           /\ Cursor(d)[i] + Size(d, i) <= Len(f)
           /\ Cells(f, Cursor(d)[i], Size(d, i)) = Payload(d, i)
  BY DtboBuilt
<1>2. /\ h.fmt = "dtbo" /\ h.version = d.version /\ h.header_size = TableLen
      /\ h.rows_at = TableLen /\ h.row_size = RowLen /\ h.count = n
      /\ h.page = d.page /\ h.acpio = d.acpio /\ h \notin Byte
  BY DEF DtboTable, KindsApart
<1>3. n \in Nat /\ TableLen \in Nat \ {0} /\ RowLen \in Nat \ {0} /\ Len(f) \in Nat
  BY <1>1, LenProperties, DtboAssumption DEF IsDtbo, IsSeq
<1>4. ASSUME NEW i \in 1 .. n
      PROVE  /\ row(i).fmt = "row" /\ row(i).id = d.entries[i].id
             /\ row(i).comp = d.entries[i].comp /\ row(i).offset = Cursor(d)[i]
             /\ row(i).size = Size(d, i) /\ row(i) \notin Byte
  BY DEF DtboRow, KindsApart
<1> HIDE DEF f, h, row
<1>5. ASSUME NEW i \in 1 .. n PROVE Row(f, i) = row(i) /\ Blob(f, i) = Payload(d, i)
  BY <1>1, <1>4 DEF Row, Blob
<1>6. ASSUME NEW i \in 1 .. n PROVE Begins(Cells(f, RowAt(h, i), RowLen), "row")
  <2> DEFINE p == RowAt(h, i)
  <2>1. p \in Nat /\ f[p + 1] = row(i)
    BY <1>1
  <2> HIDE DEF p
  <2>2. Len(Cells(f, p, RowLen)) = RowLen /\ Cells(f, p, RowLen)[1] = f[p + 1]
    <3>1. 1 \in 1 .. RowLen /\ RowLen \in Nat
      BY <1>3
    <3> QED
      BY <2>1, <3>1, CellsAt
  <2>3. Begins(Cells(f, p, RowLen), "row")
    BY <1>3, <1>4, <2>1, <2>2 DEF Begins
  <2> QED
    BY <2>3 DEF p
<1>7. Begins(f, "dtbo")
  <2>1. Len(f) > 0
    BY <1>1, <1>3
  <2> QED
    BY <1>1, <1>2, <2>1 DEF Begins
<1>8. DtboReadable(f)
  <2>1. ASSUME NEW i \in 1 .. n
        PROVE  /\ RowAt(f[1], i) + RowLen <= Len(f)
               /\ Begins(Cells(f, RowAt(f[1], i), RowLen), "row")
               /\ {Row(f, i).offset, Row(f, i).size} \subseteq Nat
               /\ Row(f, i).offset + Row(f, i).size <= Len(f)
               /\ IsDeflated(f[1].version, Row(f, i).comp) => Inflatable(Blob(f, i))
    BY <1>1, <1>2, <1>4, <1>5, <1>6, PayloadInflated
  <2>2. /\ f[1].version \in {0, 1} /\ f[1].header_size >= TableLen
        /\ {f[1].count, f[1].rows_at, f[1].row_size} \subseteq Nat
        /\ f[1].row_size >= RowLen
    BY <1>1, <1>2, <1>3
  <2>3. f[1].count = n
    BY <1>1, <1>2
  <2>4. Len(f) >= TableLen
    BY <1>1, <1>3
  <2> QED
    BY <1>7, <2>1, <2>2, <2>3, <2>4 DEF DtboReadable
<1>9. ASSUME NEW i \in 1 .. n
      PROVE  [id |-> Row(f, i).id, comp |-> Row(f, i).comp,
              data |-> IF IsDeflated(f[1].version, Row(f, i).comp)
                         THEN Inflated(Blob(f, i)) ELSE Blob(f, i)] = d.entries[i]
  <2> DEFINE e == d.entries[i]
  <2>2. e = [id |-> e.id, comp |-> e.comp, data |-> e.data]
    BY DEF IsDtbo
  <2>3. IF IsDeflated(f[1].version, Row(f, i).comp)
          THEN Inflated(Blob(f, i)) = e.data ELSE Blob(f, i) = e.data
    BY <1>1, <1>2, <1>4, <1>5, PayloadInflated DEF Payload
  <2> QED
    BY <1>4, <1>5, <2>2, <2>3
<1>10. UnpackDtbo(f) = d
  <2> DEFINE E == [i \in 1 .. f[1].count |->
                    [id |-> Row(f, i).id, comp |-> Row(f, i).comp,
                     data |-> IF IsDeflated(f[1].version, Row(f, i).comp)
                                THEN Inflated(Blob(f, i)) ELSE Blob(f, i)]]
  <2>1. E = d.entries
    <3>1. d.entries = [i \in 1 .. n |-> d.entries[i]]
      BY DEF IsDtbo, IsSeq
    <3>2. f[1].count = n
      BY <1>1, <1>2
    <3> QED
      BY <1>9, <3>1, <3>2
  <2>2. UnpackDtbo(f) = [type |-> "dtbo", version |-> d.version, page |-> d.page,
                         acpio |-> d.acpio, entries |-> E]
    BY <1>1, <1>2 DEF UnpackDtbo
  <2> HIDE DEF E
  <2>4. d = [type |-> d.type, version |-> d.version, page |-> d.page,
             acpio |-> d.acpio, entries |-> d.entries]
    BY DEF IsDtbo
  <2> QED
    BY <2>1, <2>2, <2>4
<1>11. IsSeq(f)
  BY <1>1, SeqIsSeq
<1> QED
  BY <1>7, <1>8, <1>10, <1>11 DEF f

-----------------------------------------------------------------------------
(* split_fdt_blobs()                                                        *)

\* One step, when g[q] are the blobs from q on.
BlobsAt(f, g, p) ==
  LET rest == Cells(f, p, Len(f) - p)
  IN  IF rest = <<>> THEN <<>>
      ELSE IF ~LooksLikeFdt(rest)
        THEN IF AllZero(rest) THEN <<>> ELSE <<rest>>
      ELSE IF rest[1].total \notin 1 .. Len(rest) THEN <<Invalid>>
      ELSE <<Cells(rest, 0, rest[1].total)>> \o g[p + rest[1].total]

\* g[q] are the blobs from q on, for every q from p on.
Split(g, f, p) == g = [q \in p .. Len(f) |-> BlobsAt(f, g, q)]

\* A step looks at what is further on, only.
LEMMA StepLooksAhead ==
  ASSUME NEW f, Len(f) \in Nat, NEW p \in 0 .. Len(f), NEW g, NEW h,
         \A q \in p + 1 .. Len(f) : g[q] = h[q]
  PROVE  BlobsAt(f, g, p) = BlobsAt(f, h, p)
<1> DEFINE n == Len(f) - p
           rest == Cells(f, p, n)
           total == rest[1].total
<1>1. n \in Nat /\ p \in Nat
  OBVIOUS
<1>2. Len(rest) = n
  <2> HIDE DEF n
  <2> QED
    BY <1>1, CellsAt
<1>3. total \in 1 .. Len(rest) => p + total \in p + 1 .. Len(f)
  <2> HIDE DEF rest, total
  <2> QED
    BY <1>2
<1>4. total \in 1 .. Len(rest) => g[p + total] = h[p + total]
  BY <1>3
<1> QED
  BY <1>4 DEF BlobsAt

\* There is such a function, built from the end of the file to its front.
LEMMA SplitExists ==
  ASSUME NEW f, Len(f) \in Nat
  PROVE  \E g : Split(g, f, 0)
<1> DEFINE n == Len(f)
           P == {k \in Nat : k <= n => \E g : Split(g, f, n - k)}
<1>1. 0 \in P
  <2> DEFINE g == [q \in n .. n |-> BlobsAt(f, [r \in {} |-> {}], q)]
  <2>1. n \in 0 .. n /\ n - 0 = n /\ \A q \in n .. n : q = n
    OBVIOUS
  <2>2. \A q \in n + 1 .. n : g[q] = [r \in {} |-> {}][q]
    OBVIOUS
  <2>3. BlobsAt(f, [r \in {} |-> {}], n) = BlobsAt(f, g, n)
    <3> HIDE DEF g
    <3> QED
      BY <2>1, <2>2, StepLooksAhead
  <2>4. g = [q \in n .. n |-> BlobsAt(f, g, q)]
    <3>1. \A q \in n .. n : BlobsAt(f, [r \in {} |-> {}], q) = BlobsAt(f, g, q)
      BY <2>1, <2>3
    <3> QED
      BY <3>1
  <2> HIDE DEF g
  <2>5. Split(g, f, n - 0)
    BY <2>1, <2>4 DEF Split
  <2> QED
    BY <2>5
<1>2. ASSUME NEW k \in Nat, k \in P PROVE k + 1 \in P
  <2>1. CASE k + 1 <= n
    <3> DEFINE p == n - (k + 1)
    <3>1. p \in 0 .. n /\ n - k = p + 1 /\ k <= n
      BY <2>1
    <3>2. PICK g : Split(g, f, p + 1)
      BY <1>2, <3>1
    <3> HIDE DEF p
    <3> DEFINE h == [q \in p .. n |-> IF q = p THEN BlobsAt(f, g, p) ELSE g[q]]
    <3>3. \A q \in p + 1 .. n : g[q] = h[q] /\ q \in 0 .. n /\ q # p /\ q \in p .. n
      BY <3>1
    <3>4. ASSUME NEW q \in p .. n PROVE h[q] = BlobsAt(f, h, q)
      <4>1. CASE q = p
        <5>1. BlobsAt(f, g, p) = BlobsAt(f, h, p)
          <6> HIDE DEF h
          <6> QED
            BY <3>1, <3>3, StepLooksAhead
        <5> QED
          BY <4>1, <5>1
      <4>2. CASE q # p
        <5>1. q \in p + 1 .. n
          BY <3>1, <4>2
        <5>2. g[q] = BlobsAt(f, g, q)
          BY <3>2, <5>1 DEF Split
        <5>3. \A r \in q + 1 .. n : g[r] = h[r]
          <6>1. \A r \in q + 1 .. n : r \in p + 1 .. n
            BY <3>1, <5>1
          <6> HIDE DEF h
          <6> QED
            BY <3>3, <6>1
        <5>4. BlobsAt(f, g, q) = BlobsAt(f, h, q)
          <6> HIDE DEF h
          <6> QED
            BY <3>3, <5>1, <5>3, StepLooksAhead
        <5> QED
          BY <3>3, <5>1, <5>2, <5>4
      <4> QED
        BY <4>1, <4>2
    <3>5. h = [q \in p .. n |-> h[q]]
      OBVIOUS
    <3> HIDE DEF h
    <3>6. Split(h, f, p)
      BY <3>4, <3>5 DEF Split
    <3> QED
      BY <3>6 DEF p
  <2> QED
    BY <2>1
<1> HIDE DEF P
<1>3. n \in P
  BY <1>1, <1>2, Induction
<1>4. n - n = 0 /\ n <= n
  OBVIOUS
<1> QED
  BY <1>3, <1>4 DEF P

\* The recursion of split_fdt_blobs() is that function.
LEMMA BlobsAreSplit ==
  ASSUME NEW f, Len(f) \in Nat
  PROVE  \E g : Split(g, f, 0) /\ Blobs(f) = g[0]
<1> DEFINE g == CHOOSE h : Split(h, f, 0)
<1>1. Split(g, f, 0)
  BY SplitExists
<1>2. Blobs(f) = g[0]
  BY DEF Blobs, Split, BlobsAt
<1> HIDE DEF g
<1> QED
  BY <1>1, <1>2

\* A sequence of blobs, each a sequence of cells, or Invalid.
IsBlobs(t) == IsSeq(t) /\ \A i \in 1 .. Len(t) : t[i] = Invalid \/ IsSeq(t[i])

\* One blob is a sequence of them.
LEMMA OneBlob ==
  ASSUME NEW b, b = Invalid \/ IsSeq(b)
  PROVE  IsBlobs(<<b>>)
<1>1. <<b>> \in Seq({b}) /\ Len(<<b>>) = 1 /\ <<b>>[1] = b
  OBVIOUS
<1>2. IsSeq(<<b>>)
  BY <1>1, SeqIsSeq
<1> DEFINE t == <<b>>
<1> HIDE DEF t
<1>3. \A i \in 1 .. 1 : i = 1
  OBVIOUS
<1>4. IsBlobs(t)
  BY <1>1, <1>2, <1>3 DEF IsBlobs, t
<1> QED
  BY <1>4 DEF t

\* And so is one in front of others.
LEMMA OneMoreBlob ==
  ASSUME NEW b, b = Invalid \/ IsSeq(b), NEW t, IsBlobs(t)
  PROVE  IsBlobs(<<b>> \o t)
<1> DEFINE S == {b} \cup {t[i] : i \in 1 .. Len(t)}
           a == <<b>>
<1>1. t \in Seq(S)
  <2> DEFINE R == {t[i] : i \in 1 .. Len(t)}
  <2>1. t \in Seq(R) /\ \A i \in 1 .. Len(t) : t[i] \in S
    BY DEF IsBlobs, IsSeq
  <2> HIDE DEF R, S
  <2> QED
    BY <2>1, InSeq
<1>2. a \in Seq(S) /\ Len(a) = 1 /\ a[1] = b
  OBVIOUS
<1>3. \A x \in S : x = Invalid \/ IsSeq(x)
  BY DEF IsBlobs
<1> HIDE DEF S, a
<1>4. a \o t \in Seq(S)
  BY <1>1, <1>2, ConcatProperties
<1>5. \A i \in 1 .. Len(a \o t) : (a \o t)[i] \in S
  BY <1>4, ElementOfSeq
<1>6. IsBlobs(a \o t)
  BY <1>3, <1>4, <1>5, SeqIsSeq DEF IsBlobs
<1> QED
  BY <1>6 DEF a

\* Whatever the file: what it is split into are sequences of cells.
LEMMA BlobsTyped ==
  ASSUME NEW f, IsSeq(f)
  PROVE  IsBlobs(Blobs(f))
<1> DEFINE n == Len(f)
<1>1. n \in Nat
  BY LenProperties DEF IsSeq
<1>2. PICK g : Split(g, f, 0) /\ Blobs(f) = g[0]
  BY <1>1, BlobsAreSplit
<1> DEFINE P == {k \in Nat : \A p \in n - k .. n : p >= 0 => IsBlobs(g[p])}
<1> HIDE DEF n
<1>3. ASSUME NEW p \in 0 .. n, \A q \in p + 1 .. n : IsBlobs(g[q])
      PROVE  IsBlobs(g[p])
  <2> DEFINE m == n - p
             rest == Cells(f, p, m)
             total == rest[1].total
  <2>1. m \in Nat /\ p \in Nat
    BY <1>1
  <2>2. IsSeq(rest) /\ Len(rest) = m
    <3> HIDE DEF m
    <3> QED
      BY <2>1, CellsAreSeq, CellsAt
  <2>3. g[p] = BlobsAt(f, g, p)
    BY <1>2 DEF Split, n
  <2>4. g[p] = IF rest = <<>> THEN <<>>
               ELSE IF ~LooksLikeFdt(rest)
                 THEN IF AllZero(rest) THEN <<>> ELSE <<rest>>
               ELSE IF total \notin 1 .. Len(rest) THEN <<Invalid>>
               ELSE <<Cells(rest, 0, total)>> \o g[p + total]
    BY <2>3 DEF BlobsAt, n
  <2> HIDE DEF rest, total
  <2>5. IsBlobs(<<>>)
    <3> DEFINE e == <<>>
    <3>1. e \in Seq({}) /\ Len(e) = 0
      BY EmptySeq
    <3> HIDE DEF e
    <3>2. IsSeq(e)
      BY <3>1, SeqIsSeq
    <3>3. \A i \in 1 .. 0 : FALSE
      OBVIOUS
    <3>4. IsBlobs(e)
      BY ONLY <3>1, <3>2, <3>3 DEF IsBlobs
    <3> QED
      BY <3>4 DEF e
  <2>6. IsBlobs(<<rest>>) /\ IsBlobs(<<Invalid>>)
    BY <2>2, OneBlob
  <2>7. ASSUME total \in 1 .. Len(rest)
        PROVE  IsBlobs(<<Cells(rest, 0, total)>> \o g[p + total])
    <3>1. total \in Nat /\ p + total \in p + 1 .. n /\ 0 \in Nat
      BY <1>1, <2>1, <2>2, <2>7
    <3>2. IsSeq(Cells(rest, 0, total))
      BY <3>1, CellsAreSeq
    <3> QED
      BY <1>3, <3>1, <3>2, OneMoreBlob
  <2> QED
    BY <2>4, <2>5, <2>6, <2>7
<1>4. 0 \in P
  <2> SUFFICES ASSUME NEW p \in n - 0 .. n, p >= 0 PROVE IsBlobs(g[p])
    OBVIOUS
  <2>1. p \in 0 .. n /\ \A q \in p + 1 .. n : FALSE
    BY <1>1
  <2> QED
    BY <1>3, <2>1
<1>5. ASSUME NEW k \in Nat, k \in P PROVE k + 1 \in P
  <2> SUFFICES ASSUME NEW p \in n - (k + 1) .. n, p >= 0 PROVE IsBlobs(g[p])
    OBVIOUS
  <2>1. p \in 0 .. n /\ \A q \in p + 1 .. n : q \in n - k .. n /\ q >= 0
    BY <1>1
  <2>2. \A q \in p + 1 .. n : IsBlobs(g[q])
    BY <1>5, <2>1
  <2> QED
    BY <1>3, <2>1, <2>2
<1>6. n \in P
  <2> HIDE DEF P
  <2> QED
    BY <1>1, <1>4, <1>5, Induction
<1>7. 0 \in n - n .. n
  BY <1>1
<1> QED
  BY <1>2, <1>6, <1>7

\* What unpack records of a file of device trees is sound.
LEMMA DtbUnpacked ==
  ASSUME NEW f, IsSeq(f), f # <<>>, DtbReadable(f)
  PROVE  IsDtb(UnpackDtb(f))
<1> DEFINE b == Blobs(f)
           u == IF b = <<>> THEN <<f>> ELSE b
<1>1. IsBlobs(b)
  BY BlobsTyped
<1>2. \A i \in DOMAIN b : b[i] # Invalid
  BY DEF DtbReadable
<1>3. UnpackDtb(f) = [type |-> "dtb", blobs |-> u]
  BY DEF UnpackDtb
<1> HIDE DEF b
<1>4. IsSeq(u) /\ u # <<>> /\ \A i \in 1 .. Len(u) : IsSeq(u[i])
  <2>1. CASE b = <<>>
    <3>1. <<f>> \in Seq({f}) /\ Len(<<f>>) = 1 /\ <<f>>[1] = f /\ <<f>> # <<>>
      OBVIOUS
    <3>2. IsSeq(<<f>>)
      BY <3>1, SeqIsSeq
    <3>3. \A i \in 1 .. 1 : i = 1
      OBVIOUS
    <3> QED
      BY <2>1, <3>1, <3>2, <3>3
  <2>2. CASE b # <<>>
    <3>1. DOMAIN b = 1 .. Len(b)
      BY <1>1 DEF IsBlobs, IsSeq
    <3> QED
      BY <1>1, <1>2, <2>2, <3>1 DEF IsBlobs
  <2> QED
    BY <2>1, <2>2
<1> HIDE DEF u
<1>5. IsDtb([type |-> "dtb", blobs |-> u])
  BY <1>4 DEF IsDtb
<1> QED
  BY <1>3, <1>5

\* The parts from j on.
Rest(s, j) == SubSeq(s, j, Len(s))

\* The rest from j on begins with the part at j.
LEMMA RestFacts ==
  ASSUME NEW S, NEW s \in Seq(S)
  PROVE  /\ Rest(s, 1) = s /\ Rest(s, Len(s) + 1) = <<>>
         /\ \A j \in 1 .. Len(s) : Rest(s, j) = <<s[j]>> \o Rest(s, j + 1)
<1> DEFINE n == Len(s)
<1>1. n \in Nat /\ \A i \in 1 .. n : s[i] \in S
  BY LenProperties, ElementOfSeq
<1>2. ASSUME NEW j \in 1 .. n + 1
      PROVE  /\ Rest(s, j) \in Seq(S) /\ Len(Rest(s, j)) = n - j + 1
             /\ \A i \in 1 .. n - j + 1 : Rest(s, j)[i] = s[j + i - 1]
  <2>1. j \in Int /\ n \in Int /\ \A i \in j .. n : s[i] \in S
    BY <1>1
  <2> HIDE DEF n
  <2>2. /\ SubSeq(s, j, n) \in Seq(S)
        /\ Len(SubSeq(s, j, n)) = IF j <= n THEN n - j + 1 ELSE 0
        /\ \A i \in 1 .. n - j + 1 : SubSeq(s, j, n)[i] = s[j + i - 1]
    BY <2>1, SubSeqProperties
  <2>3. (IF j <= n THEN n - j + 1 ELSE 0) = n - j + 1
    BY <1>1
  <2> QED
    BY <2>2, <2>3 DEF Rest, n
<1> HIDE DEF n
<1>3. Rest(s, 1) = s
  <2>1. 1 \in 1 .. n + 1 /\ n - 1 + 1 = n /\ \A i \in 1 .. n : 1 + i - 1 = i
    BY <1>1
  <2>2. Rest(s, 1) \in Seq(S) /\ Len(Rest(s, 1)) = Len(s)
        /\ \A i \in 1 .. Len(s) : Rest(s, 1)[i] = s[i]
    BY <1>2, <2>1 DEF n
  <2> QED
    BY <2>2, SeqEqual
<1>4. Rest(s, n + 1) = <<>>
  <2>1. n + 1 \in 1 .. n + 1 /\ n - (n + 1) + 1 = 0
    BY <1>1
  <2>2. Rest(s, n + 1) \in Seq(S) /\ Len(Rest(s, n + 1)) = 0
    BY <1>2, <2>1
  <2> QED
    BY <2>2, EmptySeq
<1>5. ASSUME NEW j \in 1 .. n PROVE Rest(s, j) = <<s[j]>> \o Rest(s, j + 1)
  <2> DEFINE a == <<s[j]>>
             t == Rest(s, j + 1)
             u == Rest(s, j)
  <2>1. /\ j \in 1 .. n + 1 /\ j + 1 \in 1 .. n + 1 /\ n - (j + 1) + 1 = n - j
        /\ s[j] \in S /\ n - j \in Nat
    BY <1>1
  <2>2. a \in Seq(S) /\ Len(a) = 1 /\ a[1] = s[j]
    BY <2>1
  <2>3. /\ t \in Seq(S) /\ Len(t) = n - j
        /\ \A i \in 1 .. n - j : t[i] = s[(j + 1) + i - 1]
    BY <1>2, <2>1
  <2>4. /\ u \in Seq(S) /\ Len(u) = n - j + 1
        /\ \A i \in 1 .. n - j + 1 : u[i] = s[j + i - 1]
    BY <1>2, <2>1
  <2> HIDE DEF a, t, u
  <2>5. /\ a \o t \in Seq(S) /\ Len(a \o t) = Len(a) + Len(t)
        /\ \A i \in 1 .. Len(a) + Len(t) :
             (a \o t)[i] = IF i <= Len(a) THEN a[i] ELSE t[i - Len(a)]
    BY <2>2, <2>3, ConcatProperties
  <2>6. Len(a) + Len(t) = n - j + 1
    BY <2>1, <2>2, <2>3
  <2>7. ASSUME NEW i \in 1 .. n - j + 1 PROVE u[i] = (a \o t)[i]
    <3>1. CASE i = 1
      <4>1. u[1] = s[j] /\ (a \o t)[1] = a[1]
        BY <1>1, <2>1, <2>2, <2>4, <2>5, <2>6, <3>1
      <4> QED
        BY <2>2, <3>1, <4>1
    <3>2. CASE i # 1
      <4>1. i - 1 \in 1 .. n - j /\ ~(i <= 1) /\ (j + 1) + (i - 1) - 1 = j + i - 1
        BY <2>1, <3>2
      <4>2. (a \o t)[i] = t[i - 1]
        BY <2>2, <2>5, <2>6, <4>1
      <4> QED
        BY <2>3, <2>4, <4>1, <4>2
    <3> QED
      BY <3>1, <3>2
  <2>8. u = a \o t
    BY <2>4, <2>5, <2>6, <2>7, SeqEqual
  <2> QED
    BY <2>8 DEF a, t, u
<1> QED
  BY <1>3, <1>4, <1>5 DEF n

\* The cells of all the device trees taken together.
LEMMA BlobsTogether ==
  ASSUME NEW d, IsDtb(d)
  PROVE  \E S : d.blobs \in Seq(Seq(S))
<1> DEFINE b == d.blobs
           S == UNION {{b[i][j] : j \in 1 .. Len(b[i])} : i \in 1 .. Len(b)}
<1>1. IsSeq(b) /\ \A i \in 1 .. Len(b) : IsSeq(b[i])
  BY DEF IsDtb
<1>2. ASSUME NEW i \in 1 .. Len(b) PROVE b[i] \in Seq(S)
  <2> DEFINE t == b[i]
             R == {t[j] : j \in 1 .. Len(t)}
  <2>1. t \in Seq(R)
    BY <1>1 DEF IsSeq
  <2>a. ASSUME NEW j \in 1 .. Len(t) PROVE t[j] \in S
    OBVIOUS
  <2> HIDE DEF t, R, S
  <2>2. t \in Seq(S)
    BY <2>1, <2>a, InSeq
  <2> QED
    BY <2>2 DEF t
<1> HIDE DEF S, b
<1>3. b \in Seq(Seq(S))
  <2> DEFINE R == {b[i] : i \in 1 .. Len(b)}
  <2>1. b \in Seq(R)
    BY <1>1 DEF IsSeq
  <2> HIDE DEF R
  <2> QED
    BY <1>2, <2>1, InSeq
<1> QED
  BY <1>3 DEF b

\* Blobs joined are a sequence of cells.
LEMMA DtbIsSeq ==
  ASSUME NEW d, IsDtb(d)
  PROVE  IsSeq(BuildDtb(d))
<1> DEFINE b == d.blobs
           n == Len(b)
           size == [i \in 1 .. n |-> Len(b[i])]
<1>1. PICK S : b \in Seq(Seq(S))
  BY BlobsTogether
<1>2. n \in Nat /\ \A i \in 1 .. n : b[i] \in Seq(S) /\ Len(b[i]) \in Nat
  BY <1>1, LenProperties, ElementOfSeq
<1>3. \A i \in 1 .. n : size[i] = Len(b[i])
  OBVIOUS
<1> HIDE DEF b, n, size
<1>4. PICK at : Sums(at, 0, size, n)
  BY <1>2, <1>3, SumsExist
<1>5. Places(at, b)
  <2>1. at[1] = 0 /\ \A i \in 1 .. n : at[i + 1] = at[i] + size[i]
    BY <1>2, <1>3, <1>4, SumsFacts
  <2> QED
    BY <1>3, <2>1 DEF Places, n
<1>6. FlattenSeq(b) \in Seq(S)
  BY <1>1, <1>5, FlattenFacts
<1> QED
  BY <1>6, SeqIsSeq DEF BuildDtb, b

\* Trees as dtc makes them, joined, are split where they were joined.
THEOREM DtbReadsBack ==
  ASSUME KindsApart, NEW d, IsDtb(d), d.type = "dtb", Ordered(d.blobs)
  PROVE  /\ DtbReadable(BuildDtb(d)) /\ UnpackDtb(BuildDtb(d)) = d
         /\ IsSeq(BuildDtb(d)) /\ Begins(BuildDtb(d), "fdt")
<1> DEFINE b == d.blobs
           n == Len(b)
           f == FlattenSeq(b)
<1>1. PICK S : b \in Seq(Seq(S))
  BY BlobsTogether
<1>2. /\ n \in Nat /\ b # <<>>
      /\ \A i \in 1 .. n : b[i] \in Seq(S) /\ Len(b[i]) \in Nat
  BY <1>1, LenProperties, ElementOfSeq DEF IsDtb
<1>3. n >= 1
  BY <1>1, <1>2, EmptySeq
<1>4. /\ Begins(b[1], "fdt")
      /\ \A i \in 1 .. n :
           \/ LooksLikeFdt(b[i]) /\ b[i][1].total = Len(b[i])
           \/ i = n /\ i > 1 /\ ~Begins(b[i], "fdt") /\ ~AllZero(b[i])
  <2>1. DOMAIN b = 1 .. n
    BY <1>1
  <2> HIDE DEF b
  <2> QED
    BY <2>1 DEF Ordered, b
<1> DEFINE size == [i \in 1 .. n |-> Len(b[i])]
<1>5. PICK at : Sums(at, 0, size, n)
  <2> HIDE DEF size, n
  <2> QED
    BY <1>2, SumsExist
<1>6. at[1] = 0 /\ \A i \in 1 .. n : at[i + 1] = at[i] + Len(b[i])
  <2>1. \A i \in 1 .. n : size[i] = Len(b[i])
    OBVIOUS
  <2> HIDE DEF size, n
  <2>2. at[1] = 0 /\ \A i \in 1 .. n : at[i + 1] = at[i] + size[i]
    BY <1>2, <1>5, SumsFacts
  <2> QED
    BY <2>1, <2>2
<1> HIDE DEF size
<1>7. f \in Seq(S) /\ Joined(f, at, b, n)
  <2>1. Places(at, b)
    BY <1>6 DEF Places
  <2> HIDE DEF b
  <2> QED
    BY <1>1, <2>1, FlattenFacts
<1> HIDE DEF b, n, f
<1> DEFINE N == Len(f)
<1>8. /\ N \in Nat /\ N = at[n + 1]
      /\ \A i \in 1 .. n : /\ at[i] \in Nat /\ at[i] + Len(b[i]) <= N
                           /\ Holds(f, at[i], b[i])
  <2>1. N \in Nat
    BY <1>7, LenProperties
  <2>2. at[1] + N = at[n + 1] /\ at[n + 1] \in Nat
    BY <1>7 DEF Joined
  <2>3. N = at[n + 1]
    BY <1>6, <2>1, <2>2
  <2>4. ASSUME NEW i \in 1 .. n
        PROVE  at[i] \in Nat /\ at[i] + Len(b[i]) <= N /\ Holds(f, at[i], b[i])
    <3>1. /\ at[i] \in Nat /\ at[i] + Len(b[i]) <= at[n + 1]
          /\ Holds(f, at[i] - at[1], b[i])
      BY <1>7 DEF Joined
    <3>2. at[i] - at[1] = at[i]
      BY <1>6, <3>1
    <3> QED
      BY <2>3, <3>1, <3>2
  <2> QED
    BY <2>1, <2>3, <2>4
<1>9. PICK g : Split(g, f, 0) /\ Blobs(f) = g[0]
  BY <1>8, BlobsAreSplit
<1>10. ASSUME NEW p \in 0 .. N
       PROVE  LET rest == Cells(f, p, N - p)
              IN  g[p] = IF rest = <<>> THEN <<>>
                         ELSE IF ~LooksLikeFdt(rest)
                           THEN IF AllZero(rest) THEN <<>> ELSE <<rest>>
                         ELSE IF rest[1].total \notin 1 .. Len(rest) THEN <<Invalid>>
                         ELSE <<Cells(rest, 0, rest[1].total)>> \o g[p + rest[1].total]
  BY <1>9 DEF Split, BlobsAt
<1> HIDE DEF N
<1>11. g[at[n + 1]] = Rest(b, n + 1)
  <2> DEFINE c == Cells(f, N, 0)
  <2>1. N \in 0 .. N /\ N - N = 0 /\ 0 \in Nat
    BY <1>8
  <2>2. c = <<>>
    <3>1. Len(c) = 0 /\ IsSeq(c)
      BY <1>8, <2>1, CellsAt, CellsAreSeq
    <3> HIDE DEF c
    <3> QED
      BY <3>1, EmptySeq DEF IsSeq
  <2>3. g[N] = <<>>
    BY <1>10, <2>1, <2>2
  <2>4. Rest(b, n + 1) = <<>>
    BY <1>1, RestFacts DEF n
  <2> QED
    BY <1>8, <2>3, <2>4
<1>12. ASSUME NEW j \in 1 .. n, g[at[j + 1]] = Rest(b, j + 1)
       PROVE  g[at[j]] = Rest(b, j)
  <2> DEFINE p == at[j]
             m == N - p
             t == b[j]
             rest == Cells(f, p, m)
  <2>1. /\ p \in Nat /\ p \in 0 .. N /\ m \in Nat /\ Len(t) \in Nat /\ Len(t) <= m
        /\ Holds(f, p, t) /\ t \in Seq(S) /\ at[j + 1] = p + Len(t)
    BY <1>2, <1>6, <1>8
  <2>2. Rest(b, j) = <<t>> \o Rest(b, j + 1)
    BY <1>1, RestFacts DEF n
  <2>3. g[p] = IF rest = <<>> THEN <<>>
               ELSE IF ~LooksLikeFdt(rest)
                 THEN IF AllZero(rest) THEN <<>> ELSE <<rest>>
               ELSE IF rest[1].total \notin 1 .. Len(rest) THEN <<Invalid>>
               ELSE <<Cells(rest, 0, rest[1].total)>> \o g[p + rest[1].total]
    BY <1>10, <2>1
  <2> HIDE DEF t, m
  <2>4. /\ Len(rest) = m /\ IsSeq(rest) /\ \A i \in 1 .. m : rest[i] = f[p + i]
    <3> HIDE DEF p
    <3> QED
      BY <2>1, CellsAt, CellsAreSeq
  <2> HIDE DEF rest
  <2>5. \A i \in 1 .. Len(t) : rest[i] = t[i] /\ rest[0 + i] = t[i]
    <3>1. \A i \in 1 .. Len(t) : i \in 1 .. m /\ 0 + i = i
      BY <2>1
    <3> QED
      BY <2>1, <2>4, <3>1 DEF Holds
  <2>6. CASE LooksLikeFdt(t) /\ t[1].total = Len(t)
    <3>1. Len(t) >= FdtLen /\ Len(t) >= 1 /\ Begins(t, "fdt")
      BY <2>1, <2>6, DtbAssumption DEF LooksLikeFdt
    <3>2. rest[1] = t[1] /\ Len(rest) >= FdtLen /\ Len(rest) > 0
      BY <2>1, <2>4, <2>5, <3>1, DtbAssumption
    <3>3. LooksLikeFdt(rest)
      BY <3>1, <3>2 DEF LooksLikeFdt, Begins
    <3>4. rest # <<>>
      <4>1. Len(<<>>) = 0
        OBVIOUS
      <4> QED
        BY <3>2, <4>1
    <3>5. rest[1].total = Len(t) /\ Len(t) \in 1 .. Len(rest)
      BY <2>1, <2>4, <2>6, <3>1, <3>2
    <3>6. Cells(rest, 0, Len(t)) = t
      <4> DEFINE R == {rest[i] : i \in 1 .. Len(rest)}
      <4>1. rest \in Seq(R)
        BY <2>4 DEF IsSeq
      <4>2. \A i \in 1 .. Len(t) : t[i] \in R
        BY <2>1, <2>4, <2>5
      <4> HIDE DEF R
      <4>3. t \in Seq(R) /\ 0 \in Nat
        BY <2>1, <4>2, InSeq
      <4> QED
        BY <2>5, <4>1, <4>3, CellsFound
    <3>7. g[p] = <<t>> \o g[p + Len(t)]
      BY <2>3, <3>3, <3>4, <3>5, <3>6
    <3> QED
      BY <1>12, <2>1, <2>2, <3>7
  <2>7. CASE j = n /\ j > 1 /\ ~Begins(t, "fdt") /\ ~AllZero(t)
    <3>1. m = Len(t)
      BY <1>8, <2>1, <2>7 DEF m
    <3>2. rest = t
      <4> DEFINE R == {rest[i] : i \in 1 .. Len(rest)}
      <4>1. rest \in Seq(S \cup R)
        <5>1. rest \in Seq(R) /\ \A i \in 1 .. Len(rest) : rest[i] \in S \cup R
          BY <2>4 DEF IsSeq
        <5> HIDE DEF R
        <5> QED
          BY <5>1, InSeq
      <4> HIDE DEF R
      <4>2. t \in Seq(S \cup R)
        <5>1. \A i \in 1 .. Len(t) : t[i] \in S \cup R
          BY <2>1, ElementOfSeq
        <5> QED
          BY <2>1, <5>1, InSeq
      <4>3. Len(rest) = Len(t) /\ \A i \in 1 .. Len(rest) : rest[i] = t[i]
        BY <2>4, <2>5, <3>1
      <4> QED
        BY <4>1, <4>2, <4>3, SeqEqual
    <3>3. rest # <<>>
      <4>1. AllZero(<<>>)
        BY DEF AllZero
      <4> QED
        BY <2>7, <3>2, <4>1
    <3>4. g[p] = <<t>>
      BY <2>3, <2>7, <3>2, <3>3 DEF LooksLikeFdt
    <3>5. Rest(b, j + 1) = <<>>
      BY <1>1, <2>7, RestFacts DEF n
    <3>6. <<t>> \o <<>> = <<t>>
      <4>1. <<t>> \in Seq({t})
        OBVIOUS
      <4> QED
        BY <4>1, ConcatEmptySeq
    <3> QED
      BY <2>2, <3>4, <3>5, <3>6
  <2> QED
    BY <1>4, <2>6, <2>7 DEF t
<1>13. g[at[1]] = Rest(b, 1)
  <2> DEFINE P == {k \in Nat : k <= n => g[at[(n + 1) - k]] = Rest(b, (n + 1) - k)}
  <2>1. 0 \in P
    <3>1. (n + 1) - 0 = n + 1
      BY <1>2
    <3> QED
      BY <1>11, <3>1
  <2>2. ASSUME NEW k \in Nat, k \in P PROVE k + 1 \in P
    <3>1. CASE k + 1 <= n
      <4> DEFINE j == (n + 1) - (k + 1)
      <4>1. j \in 1 .. n /\ (n + 1) - k = j + 1 /\ k <= n
        BY <1>2, <3>1
      <4>2. g[at[j + 1]] = Rest(b, j + 1)
        BY <2>2, <4>1
      <4> HIDE DEF j
      <4>3. g[at[j]] = Rest(b, j)
        BY <1>12, <4>1, <4>2
      <4> QED
        BY <4>3 DEF j
    <3> QED
      BY <3>1
  <2> HIDE DEF P
  <2>3. n \in P
    BY <1>2, <2>1, <2>2, Induction
  <2>4. (n + 1) - n = 1 /\ n <= n
    BY <1>2
  <2> QED
    BY <2>3, <2>4 DEF P
<1>14. Blobs(f) = b
  BY <1>1, <1>6, <1>9, <1>13, RestFacts
<1>15. BuildDtb(d) = f
  BY DEF BuildDtb, f, b
<1>16. DtbReadable(f)
  <2>1. DOMAIN b = 1 .. n
    BY <1>1 DEF n
  <2>2. \A i \in 1 .. n : b[i] # Invalid
    BY DEF KindsApart, IsDtb, b, n
  <2> QED
    BY <1>14, <2>1, <2>2 DEF DtbReadable
<1>17. UnpackDtb(f) = d
  <2>1. UnpackDtb(f) = [type |-> "dtb", blobs |-> b]
    BY <1>2, <1>14 DEF UnpackDtb
  <2>2. d = [type |-> d.type, blobs |-> b]
    BY DEF IsDtb, b
  <2> QED
    BY <2>1, <2>2
<1>18. IsSeq(f)
  BY <1>7, SeqIsSeq
<1>19. Begins(f, "fdt")
  <2>1. 1 \in 1 .. n
    BY <1>2, <1>3
  <2>2. Len(b[1]) > 0
    BY <1>4 DEF Begins
  <2>3. 1 \in 1 .. Len(b[1]) /\ 0 + 1 = 1
    BY <1>2, <2>1, <2>2
  <2>4. f[1] = b[1][1] /\ N > 0
    BY <1>2, <1>6, <1>8, <2>1, <2>2, <2>3 DEF Holds
  <2> QED
    BY <1>4, <2>4 DEF Begins, N
<1> QED
  BY <1>15, <1>16, <1>17, <1>18, <1>19

-----------------------------------------------------------------------------
(* Texts of the manifest and fields of the header                           *)

\* A part of a text.
LEMMA PartOfText ==
  ASSUME NEW S, NEW t \in Seq(S), NEW a \in Nat, NEW b \in Nat, 1 <= a, b <= Len(t)
  PROVE  /\ SubSeq(t, a, b) \in Seq(S)
         /\ Len(SubSeq(t, a, b)) = IF a <= b THEN b - a + 1 ELSE 0
         /\ \A i \in 1 .. b - a + 1 : SubSeq(t, a, b)[i] = t[a + i - 1]
<1>1. \A i \in 1 .. Len(t) : t[i] \in S
  BY ElementOfSeq
<1>2. Len(t) \in Nat
  BY LenProperties
<1>3. \A i \in a .. b : t[i] \in S
  BY <1>1, <1>2
<1>4. a \in Int /\ b \in Int
  OBVIOUS
<1> QED
  BY <1>3, <1>4, SubSeqProperties

\* A field holds the first cells of a text.
LEMMA FieldFacts ==
  ASSUME NEW S, NEW t \in Seq(S), NEW n \in Nat
  PROVE  /\ Field(t, n) \in Seq(S)
         /\ Len(Field(t, n)) = IF Len(t) < n THEN Len(t) ELSE n
         /\ \A i \in 1 .. Len(Field(t, n)) : Field(t, n)[i] = t[i]
<1> DEFINE m == IF Len(t) < n THEN Len(t) ELSE n
           u == SubSeq(t, 1, m)
<1>1. m \in Nat /\ m <= Len(t) /\ 1 \in Nat /\ Len(t) \in Nat
  BY LenProperties
<1> HIDE DEF m
<1>2. /\ u \in Seq(S) /\ Len(u) = IF 1 <= m THEN m - 1 + 1 ELSE 0
      /\ \A i \in 1 .. m - 1 + 1 : u[i] = t[1 + i - 1]
  BY <1>1, PartOfText
<1> HIDE DEF u
<1>3. Len(u) = m /\ \A i \in 1 .. m : u[i] = t[i]
  <2>1. (IF 1 <= m THEN m - 1 + 1 ELSE 0) = m /\ m - 1 + 1 = m
        /\ \A i \in 1 .. m : 1 + i - 1 = i
    BY <1>1
  <2> QED
    BY <1>2, <2>1
<1>4. u = Field(t, n)
  BY DEF u, Field, m
<1> QED
  BY <1>2, <1>3, <1>4 DEF m

\* A field of a text is a text again, if a shorter one.
LEMMA FieldIsSeq ==
  ASSUME NEW t, IsSeq(t), NEW n \in Nat
  PROVE  IsSeq(Field(t, n))
<1> DEFINE S == {t[i] : i \in 1 .. Len(t)}
<1>1. t \in Seq(S)
  BY DEF IsSeq
<1> HIDE DEF S
<1>2. Field(t, n) \in Seq(S)
  BY <1>1, FieldFacts
<1> QED
  BY <1>2, SeqIsSeq

\* The two fields of a command line hold it together.
LEMMA FieldsTogether ==
  ASSUME NEW t, IsSeq(t)
  PROVE  Field(t, ArgsLen) \o Field(ExtraArgs(t), ExtraLen) = Field(t, ArgsLen + ExtraLen)
<1> DEFINE S == {t[i] : i \in 1 .. Len(t)}
           n == Len(t)
           a == Field(t, ArgsLen)
           e == ExtraArgs(t)
           b == Field(e, ExtraLen)
           c == Field(t, ArgsLen + ExtraLen)
<1>1. t \in Seq(S) /\ n \in Nat
  BY LenProperties DEF IsSeq
<1> HIDE DEF S
<1>2. ArgsLen \in Nat /\ ExtraLen \in Nat /\ ArgsLen + ExtraLen \in Nat
  BY BootAssumption
<1>3. /\ a \in Seq(S) /\ Len(a) = (IF n < ArgsLen THEN n ELSE ArgsLen)
      /\ \A i \in 1 .. Len(a) : a[i] = t[i]
  BY <1>1, <1>2, FieldFacts
<1>4. /\ e \in Seq(S) /\ Len(e) = (IF ArgsLen + 1 <= n THEN n - ArgsLen ELSE 0)
      /\ \A i \in 1 .. n - ArgsLen : e[i] = t[ArgsLen + i]
  <2> DEFINE k == ArgsLen + 1
  <2>1. k \in Nat /\ 1 <= k /\ n <= Len(t) /\ n - k + 1 = n - ArgsLen
        /\ \A i \in 1 .. n - ArgsLen : k + i - 1 = ArgsLen + i
    BY <1>1, <1>2
  <2>2. e = SubSeq(t, k, n)
    BY DEF ExtraArgs
  <2> HIDE DEF e, n
  <2>3. /\ e \in Seq(S) /\ Len(e) = IF k <= n THEN n - k + 1 ELSE 0
        /\ \A i \in 1 .. n - k + 1 : e[i] = t[k + i - 1]
    <3> HIDE DEF k
    <3> QED
      BY <1>1, <2>1, <2>2, PartOfText
  <2> QED
    BY <2>1, <2>3
<1> HIDE DEF e
<1>5. /\ b \in Seq(S) /\ Len(b) = (IF Len(e) < ExtraLen THEN Len(e) ELSE ExtraLen)
      /\ \A i \in 1 .. Len(b) : b[i] = e[i]
  BY <1>2, <1>4, FieldFacts
<1>6. /\ c \in Seq(S)
      /\ Len(c) = (IF n < ArgsLen + ExtraLen THEN n ELSE ArgsLen + ExtraLen)
      /\ \A i \in 1 .. Len(c) : c[i] = t[i]
  BY <1>1, <1>2, FieldFacts
<1> HIDE DEF a, b, c, n
<1>7. /\ a \o b \in Seq(S) /\ Len(a \o b) = Len(a) + Len(b)
      /\ \A i \in 1 .. Len(a) + Len(b) :
           (a \o b)[i] = IF i <= Len(a) THEN a[i] ELSE b[i - Len(a)]
  BY <1>3, <1>5, ConcatProperties
<1>8. Len(a) + Len(b) = Len(c)
  BY <1>1, <1>2, <1>3, <1>4, <1>5, <1>6
<1>9. ASSUME NEW i \in 1 .. Len(c) PROVE (a \o b)[i] = c[i]
  <2>1. Len(a) \in Nat /\ Len(b) \in Nat /\ Len(c) \in Nat
    BY <1>3, <1>5, <1>6, LenProperties
  <2>2. CASE i <= Len(a)
    BY <1>3, <1>6, <1>7, <1>8, <2>1, <2>2
  <2>3. CASE ~(i <= Len(a))
    <3> DEFINE j == i - Len(a)
    <3>1. j \in 1 .. Len(b)
      BY <1>8, <2>1, <2>3
    <3>2. ArgsLen < n /\ Len(a) = ArgsLen /\ j \in 1 .. n - ArgsLen /\ ArgsLen + j = i
      BY <1>1, <1>2, <1>3, <1>4, <1>5, <2>1, <2>3, <3>1
    <3>3. (a \o b)[i] = b[j]
      BY <1>7, <1>8, <2>3
    <3> HIDE DEF j
    <3> QED
      BY <1>4, <1>5, <1>6, <3>1, <3>2, <3>3
  <2> QED
    BY <2>2, <2>3
<1>10. a \o b = c
  BY <1>6, <1>7, <1>8, <1>9, SeqEqual
<1> QED
  BY <1>10 DEF a, b, c, e

-----------------------------------------------------------------------------
\* A set of positions has a last one.
LEMMA Greatest ==
  ASSUME NEW n \in Nat, NEW T, T \subseteq 1 .. n, T # {}
  PROVE  \E i \in T : \A j \in T : i >= j
<1> DEFINE U == {n - i : i \in T}
<1>1. U \subseteq Nat /\ U # {}
  <2>1. \A i \in T : n - i \in Nat
    OBVIOUS
  <2>2. U # {}
    OBVIOUS
  <2> QED
    BY <2>1, <2>2
<1>2. PICK m \in U : \A k \in U : m <= k
  BY <1>1, LeastNumber
<1>3. PICK i \in T : m = n - i
  OBVIOUS
<1>4. ASSUME NEW j \in T PROVE i >= j
  <2>1. n - j \in U
    OBVIOUS
  <2>2. n - i <= n - j /\ i \in 1 .. n /\ j \in 1 .. n
    BY <1>2, <1>3, <2>1
  <2> QED
    BY <2>2
<1> QED
  BY <1>4

\* The first line has no break.
LEMMA FirstLineFacts ==
  ASSUME NEW S, NEW t \in Seq(S)
  PROVE  /\ FirstLine(t) \in Seq(S)
         /\ \A i \in 1 .. Len(FirstLine(t)) : FirstLine(t)[i] # Break
<1> DEFINE breaks == {i \in DOMAIN t : t[i] = Break}
<1>1. DOMAIN t = 1 .. Len(t) /\ Len(t) \in Nat
  BY LenProperties
<1>2. CASE breaks = {}
  BY <1>1, <1>2 DEF FirstLine
<1>3. CASE breaks # {}
  <2> DEFINE k == CHOOSE i \in breaks : \A j \in breaks : i <= j
             u == SubSeq(t, 1, k - 1)
  <2>1. breaks \subseteq Nat /\ breaks \subseteq 1 .. Len(t)
    BY <1>1
  <2>2. FirstLine(t) = u
    BY <1>3 DEF FirstLine
  <2>3. \E i \in breaks : \A j \in breaks : i <= j
    <3> HIDE DEF breaks
    <3> QED
      BY <1>3, <2>1, LeastNumber
  <2>4. k \in breaks /\ \A j \in breaks : k <= j
    <3> HIDE DEF breaks
    <3> QED
      BY <2>3
  <2> HIDE DEF k
  <2>5. k - 1 \in Nat /\ k - 1 <= Len(t) /\ 1 \in Nat /\ (k - 1) - 1 + 1 = k - 1
    BY <1>1, <2>1, <2>4
  <2> DEFINE m == k - 1
  <2>6. m \in Nat /\ m <= Len(t) /\ m < k
    BY <1>1, <2>4, <2>5
  <2>7. u = SubSeq(t, 1, m)
    OBVIOUS
  <2> HIDE DEF m, u, breaks
  <2>8. /\ u \in Seq(S) /\ Len(u) = IF 1 <= m THEN m - 1 + 1 ELSE 0
        /\ \A i \in 1 .. m - 1 + 1 : u[i] = t[1 + i - 1]
    BY <2>5, <2>6, <2>7, PartOfText
  <2>9. Len(u) = m /\ \A i \in 1 .. m : u[i] = t[i]
    <3>1. (IF 1 <= m THEN m - 1 + 1 ELSE 0) = m /\ m - 1 + 1 = m
          /\ \A i \in 1 .. m : 1 + i - 1 = i
      BY <2>6
    <3> QED
      BY <2>8, <3>1
  <2>10. ASSUME NEW i \in 1 .. m PROVE t[i] # Break
    <3>1. i < k /\ i \in DOMAIN t
      BY <1>1, <2>6, <2>4, <2>1
    <3>2. k \in Nat /\ ~(k <= i)
      BY <2>1, <2>4, <3>1
    <3> QED
      BY <2>4, <3>1, <3>2 DEF breaks
  <2> QED
    BY <2>2, <2>8, <2>9, <2>10
<1> QED
  BY <1>2, <1>3

\* Nothing is left to trim.
Trimmed(w) ==
  w = <<>> \/ /\ 1 <= Len(w)
              /\ w[1] \notin {Blank, Break} /\ w[Len(w)] \notin {Blank, Break}

\* What is left of a text by trim() has a character at both ends, if it has any.
LEMMA TrimFacts ==
  ASSUME NEW S, NEW t \in Seq(S)
  PROVE  /\ Trim(t) \in Seq(S) /\ Trimmed(Trim(t))
         /\ \A i \in 1 .. Len(Trim(t)) : \E j \in 1 .. Len(t) : Trim(t)[i] = t[j]
<1> DEFINE ink == {i \in DOMAIN t : t[i] \notin {Blank, Break}}
<1>1. DOMAIN t = 1 .. Len(t) /\ Len(t) \in Nat
  BY LenProperties
<1>2. CASE ink = {}
  <2>1. Trim(t) = <<>>
    BY <1>2 DEF Trim
  <2>2. Len(<<>>) = 0 /\ <<>> \in Seq(S)
    BY EmptySeq
  <2> QED
    BY <2>1, <2>2 DEF Trimmed
<1>3. CASE ink # {}
  <2> DEFINE a == CHOOSE i \in ink : \A j \in ink : i <= j
             b == CHOOSE i \in ink : \A j \in ink : i >= j
             u == SubSeq(t, a, b)
  <2>1. ink \subseteq Nat /\ ink \subseteq 1 .. Len(t)
    BY <1>1
  <2>2. Trim(t) = u
    BY <1>3 DEF Trim
  <2>3. a \in ink /\ b \in ink /\ a <= b
    <3> HIDE DEF ink
    <3>1. \E i \in ink : \A j \in ink : i <= j
      BY <1>3, <2>1, LeastNumber
    <3>2. \E i \in ink : \A j \in ink : i >= j
      BY <1>1, <1>3, <2>1, Greatest
    <3> QED
      BY <3>1, <3>2
  <2> HIDE DEF a, b
  <2>4. a \in 1 .. Len(t) /\ b \in 1 .. Len(t) /\ a \in Nat /\ b \in Nat /\ 1 <= a
        /\ b <= Len(t)
    BY <1>1, <2>1, <2>3
  <2>5. t[a] \notin {Blank, Break} /\ t[b] \notin {Blank, Break}
    BY <2>3
  <2> HIDE DEF ink
  <2>6. /\ u \in Seq(S) /\ Len(u) = IF a <= b THEN b - a + 1 ELSE 0
        /\ \A i \in 1 .. b - a + 1 : u[i] = t[a + i - 1]
    BY <2>4, PartOfText
  <2> HIDE DEF u
  <2>7. Len(u) = b - a + 1 /\ 1 <= Len(u)
    BY <2>3, <2>4, <2>6
  <2>8. u[1] = t[a] /\ u[Len(u)] = t[b]
    <3>1. 1 \in 1 .. b - a + 1 /\ b - a + 1 \in 1 .. b - a + 1
          /\ a + 1 - 1 = a /\ a + (b - a + 1) - 1 = b
      BY <2>3, <2>4
    <3> QED
      BY <2>6, <2>7, <3>1
  <2>9. ASSUME NEW i \in 1 .. Len(u) PROVE \E j \in 1 .. Len(t) : u[i] = t[j]
    <3>1. a + i - 1 \in 1 .. Len(t) /\ i \in 1 .. b - a + 1
      BY <2>3, <2>4, <2>7, <1>1
    <3> QED
      BY <2>6, <3>1
  <2> QED
    BY <2>2, <2>5, <2>6, <2>7, <2>8, <2>9 DEF Trimmed
<1> QED
  BY <1>2, <1>3

\* What a manifest gives back, it gives back again.
LEMMA LoadedIsText ==
  ASSUME NEW t, IsSeq(t)
  PROVE  IsText(Loaded(t))
<1> DEFINE S == {t[i] : i \in 1 .. Len(t)}
           u == FirstLine(t)
           w == Trim(u)
<1>1. t \in Seq(S)
  BY DEF IsSeq
<1> HIDE DEF S
<1>2. u \in Seq(S) /\ \A i \in 1 .. Len(u) : u[i] # Break
  BY <1>1, FirstLineFacts
<1> HIDE DEF u
<1>3. /\ w \in Seq(S) /\ Trimmed(w)
      /\ \A i \in 1 .. Len(w) : \E j \in 1 .. Len(u) : w[i] = u[j]
  BY <1>2, TrimFacts
<1> HIDE DEF w
<1>4. DOMAIN w = 1 .. Len(w) /\ Len(w) \in Nat
  BY <1>3, LenProperties
<1>5. FirstLine(w) = w
  <2>1. {i \in DOMAIN w : w[i] = Break} = {}
    BY <1>2, <1>3, <1>4
  <2> QED
    BY <2>1 DEF FirstLine
<1>6. Trim(w) = w
  <2> DEFINE ink == {i \in DOMAIN w : w[i] \notin {Blank, Break}}
  <2>1. CASE w = <<>>
    <3>1. ink = {}
      BY <1>4, <2>1
    <3> QED
      BY <2>1, <3>1 DEF Trim
  <2>2. CASE w # <<>>
    <3> DEFINE a == CHOOSE i \in ink : \A j \in ink : i <= j
               b == CHOOSE i \in ink : \A j \in ink : i >= j
    <3>1. 1 \in ink /\ Len(w) \in ink
      BY <1>3, <1>4, <2>2 DEF Trimmed
    <3>2. ink \subseteq 1 .. Len(w)
      BY <1>4
    <3>3. Trim(w) = SubSeq(w, a, b)
      BY <3>1 DEF Trim
    <3> HIDE DEF ink
    <3>4. a = 1
      <4>1. \A j \in ink : 1 <= j
        BY <3>2
      <4>2. a \in ink /\ \A j \in ink : a <= j
        BY <3>1, <4>1
      <4> HIDE DEF a
      <4>3. a <= 1 /\ a \in Nat /\ 1 <= a
        BY <3>1, <3>2, <4>2
      <4> QED
        BY <4>3
    <3>5. b = Len(w)
      <4>1. \A j \in ink : Len(w) >= j
        BY <1>4, <3>2
      <4>2. b \in ink /\ \A j \in ink : b >= j
        BY <3>1, <4>1
      <4> HIDE DEF b
      <4>3. b >= Len(w) /\ b \in Nat /\ Len(w) >= b /\ Len(w) \in Nat
        BY <1>4, <3>1, <3>2, <4>2
      <4> DEFINE m == Len(w)
      <4>4. b >= m /\ m >= b /\ b \in Nat /\ m \in Nat
        BY <4>3
      <4> HIDE DEF m
      <4>5. b = m
        BY <4>4
      <4> QED
        BY <4>5 DEF m
    <3>6. SubSeq(w, 1, Len(w)) = w
      BY <1>3
    <3> QED
      BY <3>3, <3>4, <3>5, <3>6
  <2> QED
    BY <2>1, <2>2
<1>7. Loaded(t) = w /\ Loaded(w) = w
  BY <1>5, <1>6 DEF Loaded, w, u
<1> QED
  BY <1>3, <1>7, SeqIsSeq DEF IsText

-----------------------------------------------------------------------------
(* The os version                                                           *)

\* Quotient and remainder.
LEMMA Digit ==
  ASSUME NEW q \in Nat, NEW b \in Nat \ {0}, NEW r \in 0 .. b - 1
  PROVE  (q * b + r) \div b = q /\ (q * b + r) % b = r /\ q * b + r \in Nat
<1> DEFINE n == q * b + r
<1>1. q * b \in Nat /\ q * b = b * q
  BY SMT
<1>2. n \in Nat /\ b * q <= n /\ n < b * q + b
  BY <1>1
<1> DEFINE k == n \div b
<1>3. k \in Nat /\ b * k <= n /\ n < b * k + b
  BY <1>2, Division
<1>4. n % b = n - b * k
  <2> HIDE DEF n
  <2> QED
    BY <1>2, SMT
<1> HIDE DEF k, n
<1>5. ASSUME NEW i \in Nat, NEW j \in Nat, i < j PROVE b * i + b <= b * j
  <2>1. PICK l \in Nat : j = i + 1 + l
    BY <1>5, SMT
  <2>2. b * j = b * i + b + b * l /\ b * l \in Nat
    BY <2>1, SMT
  <2> QED
    BY <2>2, SMT
<1>6. k = q
  <2>1. CASE k < q
    BY <1>2, <1>3, <1>5, <2>1, SMT
  <2>2. CASE q < k
    BY <1>2, <1>3, <1>5, <2>2, SMT
  <2> QED
    BY <1>3, <2>1, <2>2, SMT
<1>7. n - b * q = r
  BY <1>1 DEF n
<1> QED
  BY <1>2, <1>4, <1>6, <1>7 DEF k, n

\* Two digits are one of the product.
LEMMA TwoDigits ==
  ASSUME NEW q \in Nat, NEW a \in Nat \ {0}, NEW b \in Nat \ {0},
         NEW s \in 0 .. a - 1, NEW r \in 0 .. b - 1
  PROVE  /\ (q * a + s) * b + r = q * (a * b) + (s * b + r)
         /\ a * b \in Nat \ {0} /\ s * b + r \in 0 .. a * b - 1
         /\ q * a + s \in Nat
<1>1. (q * a + s) * b = q * (a * b) + s * b
  BY SMT
<1>2. q * a \in Nat /\ s * b \in Nat /\ a * b \in Nat /\ q * (a * b) \in Nat
  BY SMT
<1>3. PICK l \in Nat : a = s + 1 + l
  <2>1. a - 1 - s \in Nat /\ a = s + 1 + (a - 1 - s)
    OBVIOUS
  <2> QED
    BY <2>1
<1>4. a * b = s * b + b + l * b /\ l * b \in Nat
  BY <1>3, SMT
<1> QED
  BY <1>1, <1>2, <1>4

\* The numbers that fit the fields of the header.
FitsFields(o) ==
  /\ o = [major |-> o.major, minor |-> o.minor, patch |-> o.patch,
          year |-> o.year, month |-> o.month]
  /\ {o.major, o.minor, o.patch} \subseteq 0 .. FieldBase - 1
  /\ o.year \in {0} \cup (BaseYear + 1 .. BaseYear + FieldBase - 1)
  /\ o.month \in 0 .. MonthBase - 1

\* Five numbers in one.
LEMMA PackedAndUnpacked ==
  ASSUME NEW o, FitsFields(o)
  PROVE  Packed(o) \in Nat /\ Unpacked(Packed(o)) = o
<1> DEFINE F == FieldBase
           M == MonthBase
           year == IF o.year = 0 THEN 0 ELSE o.year - BaseYear
           a == o.major
           b == o.minor
           c == o.patch
           m == o.month
<1>1. /\ F \in Nat \ {0} /\ M \in Nat \ {0} /\ BaseYear \in Nat
      /\ a \in 0 .. F - 1 /\ b \in 0 .. F - 1 /\ c \in 0 .. F - 1
      /\ year \in 0 .. F - 1 /\ m \in 0 .. M - 1
      /\ o.year = IF year = 0 THEN 0 ELSE year + BaseYear
      /\ a \in Nat
  BY BootAssumption DEF FitsFields
<1> HIDE DEF year
<1> DEFINE ab == a * F + b
           abc == ab * F + c
           abcy == abc * F + year
           v == abcy * M + m
<1>2. ASSUME NEW n \in Nat \ {0}, NEW k \in 0 .. n - 1 PROVE k % n = k
  <2>1. 0 * n + k = k
    BY SMT
  <2> QED
    BY <2>1, Digit
<1>3. Packed(o) = v
  <2>1. Packed(o) = ((((a % F) * F + (b % F)) * F + (c % F)) * F + (year % F)) * M + (m % M)
    BY DEF Packed, year
  <2>2. a % F = a /\ b % F = b /\ c % F = c /\ year % F = year /\ m % M = m
    BY <1>1, <1>2
  <2> QED
    BY <2>1, <2>2
<1> HIDE DEF F, M, a, b, c, m
<1>4. ab \in Nat /\ ab % F = b
  BY <1>1, Digit
<1>5. /\ abc \in Nat /\ abc % F = c
      /\ abc = a * (F * F) + (b * F + c)
      /\ F * F \in Nat \ {0} /\ b * F + c \in 0 .. F * F - 1
  <2>1. abc \in Nat /\ abc % F = c
    <3> HIDE DEF ab
    <3> QED
      BY <1>1, <1>4, Digit
  <2> QED
    BY <1>1, <2>1, TwoDigits
<1>6. /\ abcy \in Nat /\ abcy % F = year
      /\ abcy = ab * (F * F) + (c * F + year)
      /\ c * F + year \in 0 .. F * F - 1
      /\ abcy = a * ((F * F) * F) + ((b * F + c) * F + year)
      /\ (F * F) * F \in Nat \ {0} /\ (b * F + c) * F + year \in 0 .. (F * F) * F - 1
  <2>1. abcy \in Nat /\ abcy % F = year
    <3> HIDE DEF abc
    <3> QED
      BY <1>1, <1>5, Digit
  <2>2. abcy = ab * (F * F) + (c * F + year) /\ c * F + year \in 0 .. F * F - 1
    <3> HIDE DEF ab
    <3> QED
      BY <1>1, <1>4, TwoDigits
  <2>3. /\ (a * (F * F) + (b * F + c)) * F + year
             = a * ((F * F) * F) + ((b * F + c) * F + year)
        /\ (F * F) * F \in Nat \ {0} /\ (b * F + c) * F + year \in 0 .. (F * F) * F - 1
    <3> DEFINE G == F * F
               s == b * F + c
    <3>1. G \in Nat \ {0} /\ s \in 0 .. G - 1
      BY <1>5
    <3> HIDE DEF G, s
    <3>2. /\ (a * G + s) * F + year = a * (G * F) + (s * F + year)
          /\ G * F \in Nat \ {0} /\ s * F + year \in 0 .. G * F - 1
      BY <1>1, <3>1, TwoDigits
    <3> QED
      BY <3>2 DEF G, s
  <2> QED
    BY <1>5, <2>1, <2>2, <2>3
<1> HIDE DEF ab, abc, abcy
<1>7. v % M = m /\ v \div M = abcy /\ v \in Nat
  BY <1>1, <1>6, Digit
<1>8. v \div (F * M) = abc
  <2>1. abcy = abc * F + year /\ abc \in Nat
    BY <1>5 DEF abcy
  <2>2. /\ (abc * F + year) * M + m = abc * (F * M) + (year * M + m)
        /\ F * M \in Nat \ {0} /\ year * M + m \in 0 .. F * M - 1
    BY <1>1, <2>1, TwoDigits
  <2> DEFINE N == F * M
             r == year * M + m
  <2>3. v = abc * N + r /\ N \in Nat \ {0} /\ r \in 0 .. N - 1
    BY <2>1, <2>2
  <2> HIDE DEF N, r, v
  <2>4. v \div N = abc
    BY <2>1, <2>3, Digit
  <2> QED
    BY <2>4 DEF N
<1>9. v \div ((F * F) * M) = ab
  <2> DEFINE G == F * F
             s == c * F + year
             N == G * M
             r == s * M + m
  <2>1. abcy = ab * G + s /\ G \in Nat \ {0} /\ s \in 0 .. G - 1
    BY <1>5, <1>6
  <2> HIDE DEF G, s
  <2>2. (ab * G + s) * M + m = ab * N + r /\ N \in Nat \ {0} /\ r \in 0 .. N - 1
    BY <1>1, <1>4, <2>1, TwoDigits
  <2>3. v = ab * N + r
    BY <2>1, <2>2
  <2> HIDE DEF N, r, v
  <2>4. v \div N = ab
    BY <1>4, <2>2, <2>3, Digit
  <2> QED
    BY <2>4 DEF N, G
<1>10. v \div (((F * F) * F) * M) = a
  <2> DEFINE G == (F * F) * F
             s == (b * F + c) * F + year
             N == G * M
             r == s * M + m
  <2>1. abcy = a * G + s /\ G \in Nat \ {0} /\ s \in 0 .. G - 1
    BY <1>6
  <2> HIDE DEF G, s
  <2>2. (a * G + s) * M + m = a * N + r /\ N \in Nat \ {0} /\ r \in 0 .. N - 1
    BY <1>1, <2>1, TwoDigits
  <2>3. v = a * N + r
    BY <2>1, <2>2
  <2> HIDE DEF N, r, v
  <2>4. v \div N = a
    BY <1>1, <2>2, <2>3, Digit
  <2> QED
    BY <2>4 DEF N, G
<1>11. a % F = a
  BY <1>1, <1>2
<1> HIDE DEF v
<1>12. Unpacked(v) = [major |-> a, minor |-> b, patch |-> c, year |-> o.year, month |-> m]
  <2>1. Unpacked(v)
          = [major |-> (v \div (((F * F) * F) * M)) % F,
             minor |-> (v \div ((F * F) * M)) % F,
             patch |-> (v \div (F * M)) % F,
             year  |-> IF (v \div M) % F = 0 THEN 0 ELSE ((v \div M) % F) + BaseYear,
             month |-> v % M]
    BY DEF Unpacked, F, M
  <2> QED
    BY <1>1, <1>4, <1>5, <1>6, <1>7, <1>8, <1>9, <1>10, <1>11, <2>1
<1>13. Unpacked(v) = o
  BY <1>12 DEF FitsFields, a, b, c, m
<1> QED
  BY <1>3, <1>7, <1>13

\* What is left of numbers in the fields of the header.
Masked(o) ==
  LET y == (IF o.year = 0 THEN 0 ELSE o.year - BaseYear) % FieldBase
  IN  [major |-> o.major % FieldBase, minor |-> o.minor % FieldBase,
       patch |-> o.patch % FieldBase,
       year |-> IF y = 0 THEN 0 ELSE y + BaseYear, month |-> o.month % MonthBase]

\* And it is what the header says: any numbers are packed like those.
LEMMA AnyPackedAndUnpacked ==
  ASSUME NEW o, {o.major, o.minor, o.patch, o.year, o.month} \subseteq Nat
  PROVE  /\ FitsFields(Masked(o))
         /\ Packed(o) = Packed(Masked(o))
         /\ Packed(o) \in Nat /\ Unpacked(Packed(o)) = Masked(o)
<1> DEFINE F == FieldBase
           M == MonthBase
           B == BaseYear
           year == IF o.year = 0 THEN 0 ELSE o.year - B
           y == year % F
           m == Masked(o)
<1>1. F \in Nat \ {0} /\ M \in Nat \ {0} /\ B \in Nat
  BY BootAssumption
<1>2. ASSUME NEW b \in Nat \ {0}, NEW k \in Int
      PROVE  k % b \in 0 .. b - 1 /\ (k % b) % b = k % b
  <2>1. k % b \in 0 .. b - 1
    BY <1>2
  <2> DEFINE r == k % b
  <2> HIDE DEF r
  <2>2. r \in 0 .. b - 1 => 0 * b + r = r /\ (0 * b + r) % b = r
    BY Digit
  <2> QED
    BY <2>1, <2>2 DEF r
<1>3. year \in Int
  BY <1>1
<1>4. y \in 0 .. F - 1 /\ y % F = y
  BY <1>1, <1>2, <1>3
<1>5. /\ o.major % F \in 0 .. F - 1 /\ (o.major % F) % F = o.major % F
      /\ o.minor % F \in 0 .. F - 1 /\ (o.minor % F) % F = o.minor % F
      /\ o.patch % F \in 0 .. F - 1 /\ (o.patch % F) % F = o.patch % F
      /\ o.month % M \in 0 .. M - 1 /\ (o.month % M) % M = o.month % M
  <2>1. \A k \in Int : k % F \in 0 .. F - 1 /\ (k % F) % F = k % F
    BY <1>1, <1>2
  <2>2. \A k \in Int : k % M \in 0 .. M - 1 /\ (k % M) % M = k % M
    BY <1>1, <1>2
  <2>3. o.major \in Int /\ o.minor \in Int /\ o.patch \in Int /\ o.month \in Int
    OBVIOUS
  <2> HIDE DEF F, M, m, y, year
  <2> QED
    BY <2>1, <2>2, <2>3
<1>6. m = [major |-> o.major % F, minor |-> o.minor % F, patch |-> o.patch % F,
           year |-> IF y = 0 THEN 0 ELSE y + B, month |-> o.month % M]
  BY DEF Masked
<1>7. /\ m.major = o.major % F /\ m.minor = o.minor % F /\ m.patch = o.patch % F
      /\ m.year = (IF y = 0 THEN 0 ELSE y + B) /\ m.month = o.month % M
      /\ m = [major |-> m.major, minor |-> m.minor, patch |-> m.patch,
              year |-> m.year, month |-> m.month]
  BY <1>6
<1> HIDE DEF m
<1>8. FitsFields(m)
  <2>1. m.year \in {0} \cup (B + 1 .. B + F - 1)
    <3> HIDE DEF y, F, B
    <3> QED
      BY <1>1, <1>4, <1>7
  <2> QED
    BY <1>5, <1>7, <2>1 DEF FitsFields
<1>9. Packed(o) = Packed(m)
  <2> DEFINE z == IF m.year = 0 THEN 0 ELSE m.year - B
  <2>1. z = y
    <3> HIDE DEF y, F, B
    <3> QED
      BY <1>1, <1>4, <1>7
  <2>2. Packed(o)
          = (((((o.major % F) * F) + (o.minor % F)) * F + (o.patch % F)) * F + y) * M
              + (o.month % M)
    BY DEF Packed
  <2>3. Packed(m)
          = (((((m.major % F) * F) + (m.minor % F)) * F + (m.patch % F)) * F + (z % F)) * M
              + (m.month % M)
    BY DEF Packed
  <2> HIDE DEF z, y, F, M
  <2> QED
    BY <1>4, <1>5, <1>7, <2>1, <2>2, <2>3
<1>10. Packed(m) \in Nat /\ Unpacked(Packed(m)) = m
  BY <1>8, PackedAndUnpacked
<1> QED
  BY <1>8, <1>9, <1>10 DEF m

\* A number of the header says what the manifest can say, and the header holds.
LEMMA OsTextFits ==
  ASSUME NEW o, FitsFields(o)
  PROVE  IsOs(OsText(o)) /\ OsFits(OsText(o)) /\ OsParsed(OsText(o)) = o
<1> DEFINE t == OsText(o)
           number == 0 .. FieldBase - 1
           years == {0} \cup (BaseYear + 1 .. BaseYear + FieldBase - 1)
           months == 0 .. MonthBase - 1
           triples == (number \X number \X number) \ {<<0, 0, 0>>}
           pairs == (years \X months) \ {<<0, 0>>}
<1>1. /\ o = [major |-> o.major, minor |-> o.minor, patch |-> o.patch,
              year |-> o.year, month |-> o.month]
      /\ o.major \in number /\ o.minor \in number /\ o.patch \in number
      /\ o.year \in years /\ o.month \in months
  BY DEF FitsFields
<1>2. number \subseteq Nat /\ years \subseteq Nat /\ months \subseteq Nat
  BY BootAssumption
<1>3. t = [version |-> t.version, level |-> t.level]
  BY DEF OsText
<1>4. /\ t.version = (IF o.major = 0 /\ o.minor = 0 /\ o.patch = 0 THEN Unset
                      ELSE <<o.major, o.minor, o.patch>>)
      /\ t.level = IF o.year = 0 /\ o.month = 0 THEN Unset ELSE <<o.year, o.month>>
  BY DEF OsText
<1>5. OsFits(t)
  <2>1. OsFits(t) <=> t.version \in {Unset} \cup triples /\ t.level \in {Unset} \cup pairs
    BY DEF OsFits
  <2> HIDE DEF number, years, months
  <2>2. t.version \in {Unset} \cup triples
    <3>1. CASE o.major = 0 /\ o.minor = 0 /\ o.patch = 0
      BY <1>4, <3>1
    <3>2. CASE ~(o.major = 0 /\ o.minor = 0 /\ o.patch = 0)
      <4>1. <<o.major, o.minor, o.patch>> # <<0, 0, 0>>
        BY <3>2
      <4> QED
        BY <1>1, <1>4, <3>2, <4>1
    <3> QED
      BY <3>1, <3>2
  <2>3. t.level \in {Unset} \cup pairs
    <3>1. CASE o.year = 0 /\ o.month = 0
      BY <1>4, <3>1
    <3>2. CASE ~(o.year = 0 /\ o.month = 0)
      <4>1. <<o.year, o.month>> # <<0, 0>>
        BY <3>2
      <4> QED
        BY <1>1, <1>4, <3>2, <4>1
    <3> QED
      BY <3>1, <3>2
  <2> QED
    BY <2>1, <2>2, <2>3
<1> HIDE DEF number, years, months, t
<1>6. <<o.major, o.minor, o.patch>> \in Nat \X Nat \X Nat /\ <<o.year, o.month>> \in Nat \X Nat
  BY <1>1, <1>2
<1>7. IsOs(t)
  BY <1>3, <1>4, <1>6 DEF IsOs
<1>8. /\ <<o.major, o.minor, o.patch>> \notin {Unset, Malformed}
      /\ <<o.year, o.month>> \notin {Unset, Malformed}
      /\ Malformed \notin {<<0, 0, 0>>, <<0, 0>>}
  <2>1. <<0, 0, 0>> \in Nat \X Nat \X Nat /\ <<0, 0>> \in Nat \X Nat
    OBVIOUS
  <2> QED
    BY <1>6, <2>1, BootAssumption
<1>9. OsParsed(t) = o
  <2> DEFINE v == IF t.version = Unset THEN <<0, 0, 0>> ELSE t.version
             l == IF t.level = Unset THEN <<0, 0>> ELSE t.level
  <2>1. v = <<o.major, o.minor, o.patch>>
    BY <1>4, <1>8
  <2>2. l = <<o.year, o.month>>
    BY <1>4, <1>8
  <2>3. OsParsed(t) = IF v = Malformed \/ l = Malformed THEN NoOs
                      ELSE [major |-> v[1], minor |-> v[2], patch |-> v[3],
                            year |-> l[1], month |-> l[2]]
    BY DEF OsParsed
  <2> HIDE DEF v, l
  <2>4. v # Malformed /\ l # Malformed
    BY <1>8, <2>1, <2>2
  <2> QED
    BY <1>1, <2>1, <2>2, <2>3, <2>4
<1> QED
  BY <1>5, <1>7, <1>9 DEF t

\* What the header says of any number, the manifest can hold.
LEMMA OsTextSound ==
  ASSUME NEW v \in Nat
  PROVE  IsOs(OsText(Unpacked(v)))
<1> DEFINE o == Unpacked(v)
<1>1. FieldBase \in Nat \ {0} /\ MonthBase \in Nat \ {0} /\ BaseYear \in Nat
  BY BootAssumption
<1>2. ASSUME NEW n \in Nat \ {0} PROVE (v \div n) % FieldBase \in 0 .. FieldBase - 1
  <2>1. v \div n \in Nat
    BY Division
  <2> DEFINE k == v \div n
  <2> HIDE DEF k
  <2>2. k \in Nat => k % FieldBase \in 0 .. FieldBase - 1
    BY <1>1
  <2> QED
    BY <2>1, <2>2 DEF k
<1>3. /\ MonthBase \in Nat \ {0} /\ FieldBase * MonthBase \in Nat \ {0}
      /\ FieldBase * FieldBase * MonthBase \in Nat \ {0}
      /\ FieldBase * FieldBase * FieldBase * MonthBase \in Nat \ {0}
  <2>1. ASSUME NEW x \in Nat \ {0}, NEW y \in Nat \ {0} PROVE x * y \in Nat \ {0}
    BY SMT
  <2>2. FieldBase * FieldBase \in Nat \ {0}
    BY <1>1, <2>1
  <2>3. FieldBase * FieldBase * FieldBase \in Nat \ {0}
    BY <1>1, <2>1, <2>2
  <2> QED
    BY <1>1, <2>1, <2>2, <2>3
<1>4. /\ {o.major, o.minor, o.patch} \subseteq 0 .. FieldBase - 1
      /\ o.month \in 0 .. MonthBase - 1
  <2>1. v % MonthBase \in 0 .. MonthBase - 1
    BY <1>1
  <2> QED
    BY <1>2, <1>3, <2>1 DEF Unpacked
<1>5. o.year \in {0} \cup (BaseYear + 1 .. BaseYear + FieldBase - 1)
  <2> DEFINE y == (v \div MonthBase) % FieldBase
  <2>1. y \in 0 .. FieldBase - 1
    BY <1>2, <1>3
  <2>2. o.year = IF y = 0 THEN 0 ELSE y + BaseYear
    BY DEF Unpacked
  <2> HIDE DEF y
  <2> QED
    BY <1>1, <2>1, <2>2
<1>6. o = [major |-> o.major, minor |-> o.minor, patch |-> o.patch,
           year |-> o.year, month |-> o.month]
  BY DEF Unpacked
<1> HIDE DEF o
<1>7. FitsFields(o)
  BY <1>4, <1>5, <1>6 DEF FitsFields
<1> QED
  BY <1>7, OsTextFits DEF o

\* The texts that a header comes back with.
OsKept(os) == OsText(Unpacked(Packed(OsParsed(os))))

\* What the manifest says of the system comes back if it fits, and what comes back
\* is packed into the same number.
LEMMA OsReadsBack ==
  ASSUME NEW os, IsOs(os)
  PROVE  /\ Packed(OsParsed(os)) \in Nat /\ IsOs(OsKept(os))
         /\ OsFits(os) => OsKept(os) = os
         /\ Packed(OsParsed(OsKept(os))) = Packed(OsParsed(os))
<1> DEFINE v == IF os.version = Unset THEN <<0, 0, 0>> ELSE os.version
           l == IF os.level = Unset THEN <<0, 0>> ELSE os.level
           o == OsParsed(os)
           m == Masked(o)
<1>1. /\ os = [version |-> os.version, level |-> os.level]
      /\ os.version \in {Unset, Malformed} \cup (Nat \X Nat \X Nat)
      /\ os.level \in {Unset, Malformed} \cup (Nat \X Nat)
  BY DEF IsOs
<1>2. <<0, 0, 0>> \in Nat \X Nat \X Nat /\ <<0, 0>> \in Nat \X Nat
  OBVIOUS
<1>3. /\ v = Malformed \/ (v \in Nat \X Nat \X Nat /\ v # Malformed)
      /\ l = Malformed \/ (l \in Nat \X Nat /\ l # Malformed)
  BY <1>1, <1>2, BootAssumption
<1>4. o = IF v = Malformed \/ l = Malformed THEN NoOs
          ELSE [major |-> v[1], minor |-> v[2], patch |-> v[3],
                year |-> l[1], month |-> l[2]]
  BY DEF OsParsed
<1>5. {o.major, o.minor, o.patch, o.year, o.month} \subseteq Nat
  <2> HIDE DEF v, l, o
  <2>1. CASE v = Malformed \/ l = Malformed
    BY <1>4, <2>1 DEF NoOs
  <2>2. CASE ~(v = Malformed \/ l = Malformed)
    BY <1>3, <1>4, <2>2
  <2> QED
    BY <2>1, <2>2
<1>6. FitsFields(m) /\ Packed(o) = Packed(m) /\ Packed(o) \in Nat /\ Unpacked(Packed(o)) = m
  <2> HIDE DEF o
  <2> QED
    BY <1>5, AnyPackedAndUnpacked
<1>7. OsKept(os) = OsText(m)
  BY <1>6 DEF OsKept
<1>8. IsOs(OsText(m)) /\ OsParsed(OsText(m)) = m
  BY <1>6, OsTextFits
<1>9. ASSUME OsFits(os) PROVE OsKept(os) = os
  <2> DEFINE number == 0 .. FieldBase - 1
             years == {0} \cup (BaseYear + 1 .. BaseYear + FieldBase - 1)
             months == 0 .. MonthBase - 1
  <2>1. /\ os.version \in {Unset} \cup ((number \X number \X number) \ {<<0, 0, 0>>})
        /\ os.level \in {Unset} \cup ((years \X months) \ {<<0, 0>>})
    BY <1>9 DEF OsFits
  <2>2. 0 \in number /\ 0 \in years /\ 0 \in months /\ number \subseteq Nat
        /\ years \subseteq Nat /\ months \subseteq Nat
    BY BootAssumption
  <2>3. v \in number \X number \X number /\ l \in years \X months
    <3> HIDE DEF number, years, months
    <3> QED
      BY <2>1, <2>2
  <2>4. v \in Nat \X Nat \X Nat /\ l \in Nat \X Nat
    <3> HIDE DEF number, years, months
    <3> QED
      BY <2>2, <2>3
  <2>5. v # Malformed /\ l # Malformed
    BY <2>4, BootAssumption
  <2>6. /\ (v = <<0, 0, 0>>) <=> os.version = Unset
        /\ (l = <<0, 0>>) <=> os.level = Unset
    BY <2>1
  <2>7. /\ v[1] \in number /\ v[2] \in number /\ v[3] \in number /\ v = <<v[1], v[2], v[3]>>
        /\ l[1] \in years /\ l[2] \in months /\ l = <<l[1], l[2]>>
    <3> HIDE DEF v, l, number, years, months
    <3> QED
      BY <2>3
  <2>8. o = [major |-> v[1], minor |-> v[2], patch |-> v[3], year |-> l[1], month |-> l[2]]
    BY <1>4, <2>5
  <2> HIDE DEF o
  <2>9. FitsFields(o)
    BY <2>7, <2>8 DEF FitsFields
  <2>10. Unpacked(Packed(o)) = o
    BY <2>9, PackedAndUnpacked
  <2>11. /\ OsText(o).version = (IF v[1] = 0 /\ v[2] = 0 /\ v[3] = 0 THEN Unset
                                ELSE <<v[1], v[2], v[3]>>)
         /\ OsText(o).level = (IF l[1] = 0 /\ l[2] = 0 THEN Unset ELSE <<l[1], l[2]>>)
         /\ OsText(o) = [version |-> OsText(o).version, level |-> OsText(o).level]
    BY <2>8 DEF OsText
  <2>12. /\ (v[1] = 0 /\ v[2] = 0 /\ v[3] = 0) <=> v = <<0, 0, 0>>
         /\ (l[1] = 0 /\ l[2] = 0) <=> l = <<0, 0>>
    <3> HIDE DEF v, l
    <3> QED
      BY <2>7
  <2>13. OsText(o).version = os.version
    <3>1. CASE os.version = Unset
      BY <2>6, <2>11, <2>12, <3>1
    <3>2. CASE os.version # Unset
      <4>1. v = os.version
        BY <3>2
      <4> HIDE DEF v
      <4> QED
        BY <2>6, <2>7, <2>11, <2>12, <3>2, <4>1
    <3> QED
      BY <3>1, <3>2
  <2>14. OsText(o).level = os.level
    <3>1. CASE os.level = Unset
      BY <2>6, <2>11, <2>12, <3>1
    <3>2. CASE os.level # Unset
      <4>1. l = os.level
        BY <3>2
      <4> HIDE DEF l
      <4> QED
        BY <2>6, <2>7, <2>11, <2>12, <3>2, <4>1
    <3> QED
      BY <3>1, <3>2
  <2> QED
    BY <1>1, <2>10, <2>11, <2>13, <2>14 DEF OsKept, o
<1> QED
  BY <1>6, <1>7, <1>8, <1>9

-----------------------------------------------------------------------------
(* What repack's image says                                                 *)

\* What an image carries, the texts of the system as they come back.
SaidImg(img) ==
  IF img.type = "boot" THEN [CarriedImg(img) EXCEPT !.os = OsKept(@)]
  ELSE CarriedImg(img)

Said(d) == [d EXCEPT !.img = SaidImg(@)]

-----------------------------------------------------------------------------
(* UImage::build                                                            *)

\* A number without a name keeps being one, but for that of a compression.
LEMMA NamesFound ==
  ASSUME NEW a \in DOMAIN Named, NEW n \in Named[a] \cup {Unknown}
  PROVE  NameOf(a, Lookup(a, n)) = IF a = "comp" /\ n = Unknown THEN 0 ELSE n
<1>1. a \in {"os", "arch", "kind", "comp"} /\ Unknown \notin Named[a]
  BY UImageAssumption DEF Named
<1>2. CASE n # Unknown
  BY <1>2 DEF NameOf, Lookup
<1>3. CASE n = Unknown /\ a # "comp"
  <2> DEFINE T == (0 .. LastNumber[a]) \ Named[a]
  <2>1. \E m \in T : \A k \in T : m <= k
    <3>1. CASE a \in {"os", "arch"}
      <4>1. 1 \in T /\ \A k \in T : 1 <= k
        BY <3>1 DEF Named, LastNumber
      <4> QED
        BY <4>1
    <3>2. CASE a = "kind"
      <4>1. 9 \in T /\ \A k \in T : 9 <= k
        BY <3>2 DEF Named, LastNumber
      <4> QED
        BY <4>1
    <3> QED
      BY <1>1, <1>3, <3>1, <3>2
  <2>2. Lookup(a, n) \in T
    <3>1. T # {} /\ Lookup(a, n) = CHOOSE m \in T : \A k \in T : m <= k
      BY <1>3, <2>1 DEF Lookup
    <3> HIDE DEF T
    <3> QED
      BY <2>1, <3>1
  <2> QED
    BY <1>3, <2>2 DEF NameOf
<1>4. CASE n = Unknown /\ a = "comp"
  <2>1. (0 .. LastNumber[a]) \ Named[a] = {} /\ 0 \in Named[a]
    BY <1>4 DEF Named, LastNumber
  <2> QED
    BY <1>4, <2>1 DEF NameOf, Lookup
<1> QED
  BY <1>2, <1>3, <1>4

\* What UImage::build writes, UImage::parse and unpack_uimage read: both checksums
\* hold, and every attribute with a name, and none, comes back.
THEOREM UImageReadsBack ==
  ASSUME KindsApart, NEW d, IsUImage(d), d.type = "uimage"
  PROVE  /\ UImageReadable(BuildUImage(d)) /\ UnpackUImage(BuildUImage(d)) = SaidImg(d)
         /\ IsSeq(BuildUImage(d)) /\ Begins(BuildUImage(d), "uimage")
<1> DEFINE data == d.data
           h == UImageHeader(d)
           f == BuildUImage(d)
           n == Len(data)
<1>1. IsSeq(data)
  BY DEF IsUImage
<1>2. /\ h.fmt = "uimage" /\ h.size = n /\ h.dcrc = data /\ h \notin Byte
      /\ h.name = Field(d.name, UImageNameLen) /\ h.hcrc = HeaderCrc(h)
      /\ h.attr = [a \in DOMAIN Named |-> Lookup(a, d.attr[a])]
  <2> DEFINE g == [fmt |-> "uimage", hcrc |-> NoCrc, size |-> n,
                   dcrc |-> data, name |-> Field(d.name, UImageNameLen),
                   attr |-> [a \in DOMAIN Named |-> Lookup(a, d.attr[a])]]
  <2>1. h = [g EXCEPT !.hcrc = HeaderCrc(g)] /\ HeaderCrc(g) = g
    BY DEF UImageHeader, HeaderCrc
  <2>2. HeaderCrc(h) = g
    BY <2>1 DEF HeaderCrc
  <2> QED
    BY <2>1, <2>2 DEF KindsApart
<1>3. f = <<h>> \o Zeros(UImageLen - 1) \o data
  BY DEF BuildUImage
<1> HIDE DEF h, f, data
<1>4. PICK S : h \in S /\ Zero \in S /\ data \in Seq(S)
  <2> DEFINE R == {data[i] : i \in 1 .. Len(data)}
             T == R \cup {h, Zero}
  <2>1. data \in Seq(R) /\ \A i \in 1 .. Len(data) : data[i] \in T
    BY <1>1 DEF IsSeq
  <2>2. h \in T /\ Zero \in T
    OBVIOUS
  <2> HIDE DEF R, T
  <2>3. data \in Seq(T)
    BY <2>1, InSeq
  <2> QED
    BY <2>2, <2>3
<1>5. /\ f \in Seq(S) /\ Len(f) = UImageLen + n /\ n \in Nat /\ UImageLen \in Nat \ {0}
      /\ f[1] = h /\ Holds(f, UImageLen, data)
  <2> DEFINE z == Zeros(UImageLen - 1)
             a == <<h>>
  <2>1. UImageLen \in Nat \ {0} /\ UImageLen - 1 \in Nat
    BY UImageAssumption
  <2>2. z \in Seq(S) /\ Len(z) = UImageLen - 1
    BY <1>4, <2>1, ZerosFacts
  <2>3. a \in Seq(S) /\ Len(a) = 1 /\ a[1] = h /\ f = a \o z \o data
    BY <1>3, <1>4
  <2> HIDE DEF z, a
  <2>4. /\ f \in Seq(S) /\ Len(f) = Len(a) + Len(z) + Len(data) /\ Len(data) \in Nat
        /\ Holds(f, 0, a) /\ Holds(f, Len(a) + Len(z), data)
    <3> DEFINE g == a \o z \o data
    <3>1. a \in Seq(S) /\ z \in Seq(S) /\ data \in Seq(S)
      BY <1>4, <2>2, <2>3
    <3>2. /\ g \in Seq(S) /\ Len(g) = Len(a) + Len(z) + Len(data) /\ Len(data) \in Nat
          /\ Holds(g, 0, a) /\ Holds(g, Len(a) + Len(z), data)
      BY <3>1, ThreeParts
    <3> QED
      BY <2>3, <3>2
  <2>5. Len(a) + Len(z) = UImageLen
    BY <2>1, <2>2, <2>3
  <2>6. f[1] = h
    <3>1. 1 \in 1 .. Len(a) /\ 0 + 1 = 1
      BY <2>3
    <3> QED
      BY <2>3, <2>4, <3>1 DEF Holds
  <2> QED
    BY <2>1, <2>4, <2>5, <2>6
<1>6. Cells(f, UImageLen, n) = data
  BY <1>4, <1>5, CellsFound DEF Holds
<1>7. Begins(f, "uimage")
  BY <1>2, <1>5 DEF Begins
<1>8. UImageReadable(f)
  <2>1. IsSeq(h.name)
    BY <1>2, UImageAssumption, FieldIsSeq DEF IsUImage, IsText
  <2> QED
    BY <1>2, <1>5, <1>6, <1>7, <2>1 DEF UImageReadable
<1>9. UnpackUImage(f) = SaidImg(d)
  <2> DEFINE A == [a \in DOMAIN Named |-> NameOf(a, Lookup(a, d.attr[a]))]
             B == [d.attr EXCEPT !.comp = IF @ = Unknown THEN 0 ELSE @]
  <2>1. A = B
    <3>1. d.attr = [a \in DOMAIN Named |-> d.attr[a]]
          /\ \A a \in DOMAIN Named : d.attr[a] \in Named[a] \cup {Unknown}
      BY DEF IsUImage
    <3>2. B = [a \in DOMAIN Named |->
                 IF a = "comp" /\ d.attr[a] = Unknown THEN 0 ELSE d.attr[a]]
      BY <3>1
    <3>3. \A a \in DOMAIN Named :
            NameOf(a, Lookup(a, d.attr[a]))
              = IF a = "comp" /\ d.attr[a] = Unknown THEN 0 ELSE d.attr[a]
      BY <3>1, NamesFound
    <3> QED
      BY <3>2, <3>3
  <2>2. UnpackUImage(f)
          = [type |-> "uimage", name |-> Loaded(Field(d.name, UImageNameLen)),
             attr |-> A, data |-> data]
    <3>1. \A a \in DOMAIN Named : h.attr[a] = Lookup(a, d.attr[a])
      BY <1>2
    <3>2. [a \in DOMAIN Named |-> NameOf(a, h.attr[a])] = A
      BY <3>1
    <3> HIDE DEF A
    <3> QED
      BY <1>2, <1>5, <1>6, <3>2 DEF UnpackUImage
  <2>3. SaidImg(d)
          = [type |-> "uimage", name |-> Loaded(Field(d.name, UImageNameLen)),
             attr |-> B, data |-> data]
    <3>1. d = [type |-> "uimage", name |-> d.name, attr |-> d.attr, data |-> d.data]
      BY DEF IsUImage
    <3>2. SaidImg(d) = [d EXCEPT !.name = Loaded(Field(@, UImageNameLen)),
                             !.attr.comp = IF @ = Unknown THEN 0 ELSE @]
      BY DEF SaidImg, CarriedImg
    <3> QED
      BY <3>1, <3>2 DEF data
  <2> HIDE DEF A, B
  <2> QED
    BY <2>1, <2>2, <2>3
<1> QED
  BY <1>5, <1>7, <1>8, <1>9, SeqIsSeq DEF f

-----------------------------------------------------------------------------
(* The texts of a boot image                                                *)

\* No cell at all is a sequence of cells.
LEMMA NothingIsSeq == IsSeq(<<>>)
  BY EmptySeq, SeqIsSeq

\* The texts of the header, and that the command line is cut in two and not in three.
LEMMA BootTexts ==
  ASSUME NEW d, IsBoot(d), d.version \in 0 .. 4
  PROVE  /\ BootHeader(d).os \in Nat /\ IsSeq(BootHeader(d).name)
         /\ IsSeq(BootHeader(d).args) /\ IsSeq(BootHeader(d).extra)
         /\ BootHeader(d).args \o BootHeader(d).extra = Field(d.cmdline, ArgsLen + ExtraLen)
<1> DEFINE t == d.cmdline
           h == BootHeader(d)
           old == d.version <= 2
<1>1. IsSeq(t) /\ IsSeq(d.name) /\ IsOs(d.os)
  BY DEF IsBoot, IsText
<1>2. ArgsLen \in Nat /\ ExtraLen \in Nat /\ NameLen \in Nat /\ ArgsLen + ExtraLen \in Nat
  BY BootAssumption
<1>3. /\ h.os = Packed(OsParsed(d.os))
      /\ h.name = IF old THEN Field(d.name, NameLen) ELSE <<>>
      /\ h.args = Field(t, IF old THEN ArgsLen ELSE ArgsLen + ExtraLen)
      /\ h.extra = IF old THEN Field(ExtraArgs(t), ExtraLen) ELSE <<>>
  BY DEF BootHeader
<1>4. h.os \in Nat
  BY <1>1, <1>3, OsReadsBack
<1>5. IsSeq(ExtraArgs(t))
  <2> DEFINE S == {t[i] : i \in 1 .. Len(t)}
             k == ArgsLen + 1
  <2>1. t \in Seq(S)
    BY <1>1 DEF IsSeq
  <2> HIDE DEF S
  <2>2. k \in Nat /\ 1 <= k /\ Len(t) \in Nat /\ Len(t) <= Len(t)
    BY <1>2, <2>1, LenProperties
  <2>3. ExtraArgs(t) = SubSeq(t, k, Len(t))
    BY DEF ExtraArgs
  <2> HIDE DEF k, t
  <2>4. SubSeq(t, k, Len(t)) \in Seq(S)
    BY <2>1, <2>2, PartOfText
  <2> QED
    BY <2>3, <2>4, SeqIsSeq
<1>6. IsSeq(h.name) /\ IsSeq(h.args) /\ IsSeq(h.extra)
  BY <1>1, <1>2, <1>3, <1>5, FieldIsSeq, NothingIsSeq
<1>7. h.args \o h.extra = Field(t, ArgsLen + ExtraLen)
  <2>1. CASE old
    BY <1>1, <1>3, <2>1, FieldsTogether
  <2>2. CASE ~old
    <3> DEFINE a == h.args
    <3>1. a = Field(t, ArgsLen + ExtraLen) /\ h.extra = <<>> /\ IsSeq(a)
      BY <1>3, <1>6, <2>2
    <3> HIDE DEF a
    <3>2. a \o <<>> = a
      BY <3>1, ConcatEmptySeq DEF IsSeq
    <3> QED
      BY <3>1, <3>2 DEF a
  <2> QED
    BY <2>1, <2>2
<1> QED
  BY <1>4, <1>6, <1>7

-----------------------------------------------------------------------------
(* BootImage::build                                                         *)

\* Build's writer after the header and after each section.
Built0(d) ==
  Padded(<<BootHeader(d)>> \o Zeros(BootHeaderLen[d.version] - 1), BuiltPage(d))
Put(d, w, s) == Padded(w \o Written(d, s), BuiltPage(d))
Built1(d) == Put(d, Built0(d), "kernel")
Built2(d) == Put(d, Built1(d), "ramdisk")
Built3(d) == Put(d, Built2(d), "second")
Built4(d) == Put(d, Built3(d), "recovery_dtbo")
Built5(d) == Put(d, Built4(d), "dtb")

\* Build puts one section behind the other.
LEMMA BuildIsPut ==
  ASSUME NEW d
  PROVE  BuildBoot(d) = Put(d, Built5(d), "boot_signature")
  BY DEF BuildBoot, Put, Built0, Built1, Built2, Built3, Built4, Built5

\* What a directory of a boot image is known to hold, with cells from S.
BootDirOver(d, S) ==
  /\ d.version \in 0 .. 4 /\ d.page \in Nat
  /\ \A s \in Section : d.sec[s] \in Seq(S)
  /\ Zero \in S /\ BootHeader(d) \in S

\* The page size of build is the one parse finds.
LEMMA BuiltPageFacts ==
  ASSUME NEW d, d.version \in 0 .. 4, d.page \in Nat
  PROVE  BuiltPage(d) \in Nat \ {0} /\ BootPage(BootHeader(d)) = BuiltPage(d)
<1>1. BootHeader(d).version = d.version /\ BootHeader(d).page = BuiltPage(d)
  BY DEF BootHeader
<1>2. BuiltPage(d) \in Nat \ {0}
  BY BootAssumption DEF BuiltPage
<1>3. CASE d.version <= 2
  BY <1>1, <1>2, <1>3 DEF BootPage
<1>4. CASE d.version > 2
  BY <1>1, <1>2, <1>4 DEF BootPage, BuiltPage
<1> QED
  BY <1>3, <1>4

\* Build writes as much as it states, but for a signature in version 3.
LEMMA WrittenFacts ==
  ASSUME NEW S, NEW d, BootDirOver(d, S), NEW s \in Section
  PROVE  /\ Written(d, s) \in Seq(S)
         /\ BootHeader(d).size[s] \in Nat
         /\ BootHeader(d).size[s] <= Len(Written(d, s))
         /\ s # "boot_signature" => BootHeader(d).size[s] = Len(Written(d, s))
         /\ s \in SectionsOf(d.version) =>
              Written(d, s) = d.sec[s] /\ BootHeader(d).size[s] = Len(Written(d, s))
         /\ s \notin SectionsOf(d.version) => BootHeader(d).size[s] = 0
<1>1. BootHeader(d).size[s] = IF s \in SectionsOf(d.version) THEN Len(d.sec[s]) ELSE 0
  BY DEF BootHeader
<1>2. d.sec[s] \in Seq(S)
  BY DEF BootDirOver
<1>3. Len(d.sec[s]) \in Nat /\ <<>> \in Seq(S) /\ Len(<<>>) = 0
  BY <1>2, EmptySeq, LenProperties
<1>4. CASE s \in SectionsOf(d.version)
  BY <1>1, <1>2, <1>3, <1>4 DEF Written
<1>5. CASE s \notin SectionsOf(d.version) /\ s # "boot_signature"
  BY <1>1, <1>2, <1>3, <1>5 DEF Written
<1>6. CASE s \notin SectionsOf(d.version) /\ s = "boot_signature"
  BY <1>1, <1>2, <1>3, <1>6 DEF Written
<1> QED
  BY <1>4, <1>5, <1>6

\* One step of build: the section is there, what was there still is, and the
\* writer has come to where parse looks next.
LEMMA PutStep ==
  ASSUME NEW S, NEW d, BootDirOver(d, S), NEW s \in Section, NEW w \in Seq(S)
  PROVE  /\ Put(d, w, s) \in Seq(S)
         /\ Len(Put(d, w, s)) = AlignUp(Len(w) + Len(Written(d, s)), BuiltPage(d))
         /\ Len(w) + Len(Written(d, s)) <= Len(Put(d, w, s))
         /\ Holds(Put(d, w, s), 0, w)
         /\ Holds(Put(d, w, s), Len(w), Written(d, s))
<1>1. Written(d, s) \in Seq(S) /\ Zero \in S
  BY WrittenFacts DEF BootDirOver
<1>2. BuiltPage(d) \in Nat \ {0}
  BY BuiltPageFacts DEF BootDirOver
<1> DEFINE t == Written(d, s)
           p == BuiltPage(d)
           g == Padded(w \o t, p)
<1>3. Put(d, w, s) = g
  BY DEF Put
<1>4. t \in Seq(S) /\ Zero \in S /\ p \in Nat \ {0} /\ w \in Seq(S)
  BY <1>1, <1>2
<1> HIDE DEF t, p
<1>5. /\ g \in Seq(S)
      /\ Len(g) = AlignUp(Len(w) + Len(t), p)
      /\ Len(w) + Len(t) <= Len(g)
      /\ Holds(g, 0, w) /\ Holds(g, Len(w), t)
  BY ONLY <1>4, PutFacts
<1> QED
  BY <1>3, <1>5 DEF t, p

\* The header is put first, and fills whole pages.
LEMMA HeaderStep ==
  ASSUME NEW S, NEW d, BootDirOver(d, S)
  PROVE  /\ Built0(d) \in Seq(S)
         /\ Len(Built0(d)) = AlignUp(BootHeaderLen[d.version], BuiltPage(d))
         /\ BootHeaderLen[d.version] <= Len(Built0(d))
         /\ Built0(d)[1] = BootHeader(d)
<1> DEFINE n == BootHeaderLen[d.version]
           w == <<BootHeader(d)>> \o Zeros(n - 1)
<1>1. n \in Nat \ {0} /\ BuiltPage(d) \in Nat \ {0} /\ Zero \in S /\ BootHeader(d) \in S
  BY BootAssumption, BuiltPageFacts DEF BootDirOver
<1> HIDE DEF n
<1>2. Zeros(n - 1) \in Seq(S) /\ Len(Zeros(n - 1)) = n - 1
  BY <1>1, ZerosFacts
<1>3. <<BootHeader(d)>> \in Seq(S) /\ Len(<<BootHeader(d)>>) = 1
      /\ <<BootHeader(d)>>[1] = BootHeader(d)
  BY <1>1
<1>4. w \in Seq(S) /\ Len(w) = n /\ w[1] = BootHeader(d)
  BY <1>1, <1>2, <1>3, ConcatProperties
<1> HIDE DEF w
<1>5. /\ Padded(w, BuiltPage(d)) \in Seq(S)
      /\ Len(Padded(w, BuiltPage(d))) = AlignUp(Len(w), BuiltPage(d))
      /\ \A i \in 1 .. Len(w) : Padded(w, BuiltPage(d))[i] = w[i]
  BY <1>1, <1>4, PaddedFacts
<1>6. n <= AlignUp(n, BuiltPage(d))
  BY <1>1, AlignUpFacts
<1>7. Built0(d) = Padded(w, BuiltPage(d))
  BY DEF Built0, w, n
<1> QED
  BY <1>1, <1>4, <1>5, <1>6, <1>7 DEF n

-----------------------------------------------------------------------------
(* Parse                                                                    *)

\* A put leaves what was put before.
LEMMA PutKeeps ==
  ASSUME NEW S, NEW d, BootDirOver(d, S), NEW s \in Section, NEW w \in Seq(S),
         NEW n \in Nat, NEW t \in Seq(S), n + Len(t) <= Len(w), Holds(w, n, t)
  PROVE  Holds(Put(d, w, s), n, t) /\ n + Len(t) <= Len(Put(d, w, s))
<1> DEFINE g == Put(d, w, s)
<1>1. /\ Len(w) + Len(Written(d, s)) <= Len(g)
      /\ Holds(g, 0, w)
      /\ g \in Seq(S) /\ Written(d, s) \in Seq(S)
  BY PutStep, WrittenFacts
<1> HIDE DEF g
<1>2. Len(w) \in Nat /\ Len(t) \in Nat /\ Len(g) \in Nat /\ Len(Written(d, s)) \in Nat
  BY <1>1, LenProperties
<1>3. Len(w) <= Len(g)
  BY <1>1, <1>2
<1>4. Holds(g, n, t)
  <2> SUFFICES ASSUME NEW i \in 1 .. Len(t) PROVE g[n + i] = t[i]
    BY DEF Holds
  <2>1. n + i \in 1 .. Len(w) /\ 0 + (n + i) = n + i
    BY <1>2
  <2> QED
    BY <2>1, <1>1 DEF Holds
<1> QED
  BY <1>2, <1>3, <1>4 DEF g

\* The place parse has come to after a section that build has put there.
LEMMA PutAdvances ==
  ASSUME NEW S, NEW d, BootDirOver(d, S), NEW s \in Section, NEW w \in Seq(S)
  PROVE  /\ Put(d, w, s) \in Seq(S)
         /\ Len(w) \in Nat
         /\ s # "boot_signature" =>
              Len(Put(d, w, s))
                = AlignUp(Len(w) + BootHeader(d).size[s], BootPage(BootHeader(d)))
         /\ Holds(Put(d, w, s), Len(w), Written(d, s))
         /\ Len(w) + Len(Written(d, s)) <= Len(Put(d, w, s))
<1>1. /\ Put(d, w, s) \in Seq(S)
      /\ Len(Put(d, w, s)) = AlignUp(Len(w) + Len(Written(d, s)), BuiltPage(d))
      /\ Len(w) + Len(Written(d, s)) <= Len(Put(d, w, s))
      /\ Holds(Put(d, w, s), Len(w), Written(d, s))
  BY PutStep
<1>2. s # "boot_signature" => BootHeader(d).size[s] = Len(Written(d, s))
  BY WrittenFacts
<1>3. BootPage(BootHeader(d)) = BuiltPage(d)
  BY BuiltPageFacts DEF BootDirOver
<1>4. s # "boot_signature" =>
        Len(Put(d, w, s)) = AlignUp(Len(w) + BootHeader(d).size[s], BootPage(BootHeader(d)))
  <2> SUFFICES ASSUME s # "boot_signature"
               PROVE  Len(Put(d, w, s))
                        = AlignUp(Len(w) + BootHeader(d).size[s], BootPage(BootHeader(d)))
    OBVIOUS
  <2>1. BootHeader(d).size[s] = Len(Written(d, s))
    BY <1>2
  <2> QED
    BY ONLY <1>1, <1>3, <2>1
<1>5. Len(w) \in Nat
  BY LenProperties
<1> QED
  BY ONLY <1>1, <1>4, <1>5

\* Build's cursor is parse's.
LEMMA Cursors ==
  ASSUME NEW S, NEW d, BootDirOver(d, S)
  PROVE  LET at == Starts(BootHeader(d))
         IN  /\ Built0(d) \in Seq(S) /\ Len(Built0(d)) = at.kernel
             /\ Built1(d) \in Seq(S) /\ Len(Built1(d)) = at.ramdisk
             /\ Built2(d) \in Seq(S) /\ Len(Built2(d)) = at.second
             /\ Built3(d) \in Seq(S) /\ Len(Built3(d)) = at.recovery_dtbo
             /\ Built4(d) \in Seq(S) /\ Len(Built4(d)) = at.dtb
             /\ Built5(d) \in Seq(S) /\ Len(Built5(d)) = at.boot_signature
             /\ BuildBoot(d) \in Seq(S)
<1> DEFINE h == BootHeader(d)
           at == Starts(h)
           p == BootPage(h)
<1>0. h.version = d.version /\ p = BuiltPage(d)
  BY BuiltPageFacts DEF BootDirOver, BootHeader
<1>1. /\ at.kernel = AlignUp(BootHeaderLen[h.version], p)
      /\ at.ramdisk = AlignUp(at.kernel + h.size["kernel"], p)
      /\ at.second = AlignUp(at.ramdisk + h.size["ramdisk"], p)
      /\ at.recovery_dtbo = AlignUp(at.second + h.size["second"], p)
      /\ at.dtb = AlignUp(at.recovery_dtbo + h.size["recovery_dtbo"], p)
      /\ at.boot_signature = AlignUp(at.dtb + h.size["dtb"], p)
  BY DEF Starts
<1> HIDE DEF h, at, p
<1>2. Built0(d) \in Seq(S) /\ Len(Built0(d)) = at.kernel
  BY HeaderStep, <1>0, <1>1
<1>a. ASSUME NEW s \in Section, s # "boot_signature", NEW w \in Seq(S)
      PROVE  /\ Put(d, w, s) \in Seq(S)
             /\ Len(Put(d, w, s)) = AlignUp(Len(w) + h.size[s], p)
  <2>1. Put(d, w, s) \in Seq(S)
    BY PutAdvances
  <2>2. Len(Put(d, w, s)) = AlignUp(Len(w) + BootHeader(d).size[s], BootPage(BootHeader(d)))
    BY <1>a, PutAdvances
  <2> QED
    BY <2>1, <2>2 DEF h, p
<1>b. /\ "kernel" \in Section /\ "ramdisk" \in Section /\ "second" \in Section
      /\ "recovery_dtbo" \in Section /\ "dtb" \in Section /\ "boot_signature" \in Section
      /\ "kernel" # "boot_signature" /\ "ramdisk" # "boot_signature"
      /\ "second" # "boot_signature" /\ "recovery_dtbo" # "boot_signature"
      /\ "dtb" # "boot_signature"
  BY DEF Section
<1>3. Built1(d) \in Seq(S) /\ Len(Built1(d)) = at.ramdisk
  BY <1>2, <1>1, <1>a, <1>b DEF Built1
<1>4. Built2(d) \in Seq(S) /\ Len(Built2(d)) = at.second
  BY <1>3, <1>1, <1>a, <1>b DEF Built2
<1>5. Built3(d) \in Seq(S) /\ Len(Built3(d)) = at.recovery_dtbo
  BY <1>4, <1>1, <1>a, <1>b DEF Built3
<1>6. Built4(d) \in Seq(S) /\ Len(Built4(d)) = at.dtb
  BY <1>5, <1>1, <1>a, <1>b DEF Built4
<1>7. Built5(d) \in Seq(S) /\ Len(Built5(d)) = at.boot_signature
  BY <1>6, <1>1, <1>a, <1>b DEF Built5
<1>8. BuildBoot(d) \in Seq(S)
  BY <1>7, <1>b, PutAdvances, BuildIsPut
<1> QED
  BY <1>2, <1>3, <1>4, <1>5, <1>6, <1>7, <1>8 DEF at, h

\* Every section lies where parse looks for it, and the header in front.
LEMMA BuildKeeps ==
  ASSUME NEW S, NEW d, BootDirOver(d, S)
  PROVE  /\ Kept(BuildBoot(d), 0, Built0(d))
         /\ \A s \in Section :
              /\ Starts(BootHeader(d))[s] \in Nat
              /\ Kept(BuildBoot(d), Starts(BootHeader(d))[s], Written(d, s))
<1> DEFINE at == Starts(BootHeader(d))
<1>1. /\ Built0(d) \in Seq(S) /\ Len(Built0(d)) = at.kernel
      /\ Built1(d) \in Seq(S) /\ Len(Built1(d)) = at.ramdisk
      /\ Built2(d) \in Seq(S) /\ Len(Built2(d)) = at.second
      /\ Built3(d) \in Seq(S) /\ Len(Built3(d)) = at.recovery_dtbo
      /\ Built4(d) \in Seq(S) /\ Len(Built4(d)) = at.dtb
      /\ Built5(d) \in Seq(S) /\ Len(Built5(d)) = at.boot_signature
  BY Cursors
<1> HIDE DEF at
<1>2. /\ "kernel" \in Section /\ "ramdisk" \in Section /\ "second" \in Section
      /\ "recovery_dtbo" \in Section /\ "dtb" \in Section /\ "boot_signature" \in Section
  BY DEF Section
<1>3. ASSUME NEW s \in Section, NEW w \in Seq(S)
      PROVE  Kept(Put(d, w, s), Len(w), Written(d, s))
  BY PutAdvances DEF Kept
<1>4. ASSUME NEW s \in Section, NEW w \in Seq(S), NEW n \in Nat, NEW t \in Seq(S),
             Kept(w, n, t)
      PROVE  Kept(Put(d, w, s), n, t)
  BY <1>4, PutKeeps DEF Kept
<1> DEFINE Rest5(n, t) == Kept(Built5(d), n, t) => Kept(BuildBoot(d), n, t)
           Rest4(n, t) == Kept(Built4(d), n, t) => Kept(BuildBoot(d), n, t)
           Rest3(n, t) == Kept(Built3(d), n, t) => Kept(BuildBoot(d), n, t)
           Rest2(n, t) == Kept(Built2(d), n, t) => Kept(BuildBoot(d), n, t)
           Rest1(n, t) == Kept(Built1(d), n, t) => Kept(BuildBoot(d), n, t)
<1>5. ASSUME NEW n \in Nat, NEW t \in Seq(S)
      PROVE  Rest5(n, t) /\ Rest4(n, t) /\ Rest3(n, t) /\ Rest2(n, t) /\ Rest1(n, t)
  <2>5. Rest5(n, t)
    BY <1>1, <1>2, <1>4, BuildIsPut
  <2>4. Rest4(n, t)
    BY <2>5, <1>1, <1>2, <1>4 DEF Built5
  <2>3. Rest3(n, t)
    BY <2>4, <1>1, <1>2, <1>4 DEF Built4
  <2>2. Rest2(n, t)
    BY <2>3, <1>1, <1>2, <1>4 DEF Built3
  <2>1. Rest1(n, t)
    BY <2>2, <1>1, <1>2, <1>4 DEF Built2
  <2> QED
    BY <2>1, <2>2, <2>3, <2>4, <2>5
<1>6. \A s \in Section : Written(d, s) \in Seq(S)
  BY WrittenFacts
<1>7. /\ at.kernel \in Nat /\ at.ramdisk \in Nat /\ at.second \in Nat
      /\ at.recovery_dtbo \in Nat /\ at.dtb \in Nat /\ at.boot_signature \in Nat
  BY <1>1, LenProperties
<1>8. Kept(BuildBoot(d), 0, Built0(d))
  <2>1. Kept(Built0(d), 0, Built0(d))
    BY <1>1, <1>7 DEF Kept, Holds
  <2>2. Kept(Built1(d), 0, Built0(d))
    BY <2>1, <1>1, <1>2, <1>4 DEF Built1
  <2> QED
    BY <2>2, <1>1, <1>5
<1>9. Kept(BuildBoot(d), at.kernel, Written(d, "kernel"))
  <2>1. Kept(Built1(d), at.kernel, Written(d, "kernel"))
    BY <1>1, <1>2, <1>3 DEF Built1
  <2> QED
    BY <2>1, <1>2, <1>5, <1>6, <1>7
<1>10. Kept(BuildBoot(d), at.ramdisk, Written(d, "ramdisk"))
  <2>1. Kept(Built2(d), at.ramdisk, Written(d, "ramdisk"))
    BY <1>1, <1>2, <1>3 DEF Built2
  <2> QED
    BY <2>1, <1>2, <1>5, <1>6, <1>7
<1>11. Kept(BuildBoot(d), at.second, Written(d, "second"))
  <2>1. Kept(Built3(d), at.second, Written(d, "second"))
    BY <1>1, <1>2, <1>3 DEF Built3
  <2> QED
    BY <2>1, <1>2, <1>5, <1>6, <1>7
<1>12. Kept(BuildBoot(d), at.recovery_dtbo, Written(d, "recovery_dtbo"))
  <2>1. Kept(Built4(d), at.recovery_dtbo, Written(d, "recovery_dtbo"))
    BY <1>1, <1>2, <1>3 DEF Built4
  <2> QED
    BY <2>1, <1>2, <1>5, <1>6, <1>7
<1>13. Kept(BuildBoot(d), at.dtb, Written(d, "dtb"))
  <2>1. Kept(Built5(d), at.dtb, Written(d, "dtb"))
    BY <1>1, <1>2, <1>3 DEF Built5
  <2> QED
    BY <2>1, <1>2, <1>5, <1>6, <1>7
<1>14. Kept(BuildBoot(d), at.boot_signature, Written(d, "boot_signature"))
  BY <1>1, <1>2, <1>3, BuildIsPut
<1>15. \A s \in Section : at[s] \in Nat /\ Kept(BuildBoot(d), at[s], Written(d, s))
  BY <1>7, <1>9, <1>10, <1>11, <1>12, <1>13, <1>14 DEF Section
<1> QED
  BY <1>8, <1>15 DEF at

\* It stays in front of everything that is put behind it.
LEMMA HeaderInFront ==
  ASSUME NEW S, NEW d, BootDirOver(d, S)
  PROVE  /\ BuildBoot(d)[1] = BootHeader(d)
         /\ BootHeaderLen[d.version] <= Len(BuildBoot(d))
         /\ BootHeaderLen[d.version] \in Nat \ {0}
         /\ Len(BuildBoot(d)) \in Nat
<1>1. BuildBoot(d) \in Seq(S) /\ Built0(d) \in Seq(S)
  BY Cursors
<1>2. Kept(BuildBoot(d), 0, Built0(d))
  BY BuildKeeps
<1>3. BootHeaderLen[d.version] <= Len(Built0(d)) /\ Built0(d)[1] = BootHeader(d)
  BY HeaderStep
<1>4. BootHeaderLen[d.version] \in Nat \ {0}
  BY BootAssumption DEF BootDirOver
<1>5. Len(BuildBoot(d)) \in Nat /\ Len(Built0(d)) \in Nat
  BY <1>1, LenProperties
<1>6. 1 \in 1 .. Len(Built0(d)) /\ 0 + 1 = 1
  BY <1>3, <1>4, <1>5
<1>7. BuildBoot(d)[1] = Built0(d)[1]
  BY <1>2, <1>6 DEF Kept, Holds
<1>8. Len(Built0(d)) <= Len(BuildBoot(d))
  BY <1>2, <1>5 DEF Kept
<1> QED
  BY <1>3, <1>4, <1>5, <1>7, <1>8

-----------------------------------------------------------------------------
\* An image that build has written satisfies every check of BootImage::parse,
\* for sections and pages of any size: its length is enough for what the header
\* states, the last section filled to its page included.
THEOREM BuildIsReadable ==
  ASSUME NEW S, NEW d, BootDirOver(d, S), IsBoot(d), BootHeader(d) \notin Byte
  PROVE  BootReadable(BuildBoot(d))
<1> DEFINE f == BuildBoot(d)
           h == BootHeader(d)
           p == BootPage(h)
<1>1. /\ f[1] = h /\ BootHeaderLen[d.version] <= Len(f)
      /\ BootHeaderLen[d.version] \in Nat \ {0} /\ Len(f) \in Nat
  BY HeaderInFront
<1>2. h.fmt = "boot" /\ h.version = d.version /\ d.version \in 0 .. 4
  BY DEF BootHeader, BootDirOver
<1>3. p \in Nat \ {0} /\ p = BuiltPage(d)
  BY BuiltPageFacts DEF BootDirOver
<1>4. Begins(f, "boot")
  BY <1>1, <1>2 DEF Begins
<1>5. Starts(h).end <= Len(f)
  <2> DEFINE n == Starts(h).boot_signature
             size == h.size["boot_signature"]
             len == Len(Written(d, "boot_signature"))
  <2>1. Starts(h).end = AlignUp(n + size, p)
    BY DEF Starts
  <2>2. "boot_signature" \in Section
    BY DEF Section
  <2>3. size \in Nat /\ size <= len /\ len \in Nat
    BY <2>2, WrittenFacts, LenProperties
  <2>4. n \in Nat /\ Len(Built5(d)) = n /\ Built5(d) \in Seq(S)
    BY <2>2, BuildKeeps, Cursors
  <2>5. Len(f) = AlignUp(n + len, p)
    BY <1>3, <2>2, <2>4, PutStep, BuildIsPut
  <2> HIDE DEF n, size, len, f, p, h
  <2>6. n + size \in Nat /\ n + len \in Nat /\ n + size <= n + len
    BY <2>3, <2>4
  <2>7. AlignUp(n + size, p) <= AlignUp(n + len, p)
    BY <1>3, <2>6, AlignUpMonotone
  <2> QED
    BY <2>1, <2>5, <2>7
<1>6. h.page \in Nat /\ \A s \in Section : h.size[s] \in Nat
  BY <1>3, WrittenFacts DEF BootHeader
<1>8. h.os \in Nat /\ IsSeq(h.name) /\ IsSeq(h.args) /\ IsSeq(h.extra)
  BY BootTexts DEF BootDirOver
<1> HIDE DEF h
<1>7. /\ Len(f) >= BootHeaderLen[f[1].version] /\ f[1].version \in 0 .. 4
      /\ f[1].page \in Nat /\ \A s \in Section : f[1].size[s] \in Nat
      /\ BootPage(f[1]) > 0
  BY <1>1, <1>2, <1>3, <1>6
<1> QED
  BY <1>1, <1>4, <1>5, <1>7, <1>8 DEF BootReadable

\* Parse reads back every section as it lay in the directory; one that the
\* header version lacks comes back empty.
THEOREM SectionsReadBack ==
  ASSUME NEW S, NEW d, BootDirOver(d, S), NEW s \in Section
  PROVE  SectionIn(BuildBoot(d), s)
           = IF s \in SectionsOf(d.version) THEN d.sec[s] ELSE <<>>
<1> DEFINE f == BuildBoot(d)
           h == BootHeader(d)
           n == Starts(h)[s]
<1>1. f \in Seq(S)
  BY Cursors
<1>2. SectionIn(f, s) = Cells(f, n, h.size[s])
  BY HeaderInFront DEF SectionIn
<1>3. n \in Nat /\ Holds(f, n, Written(d, s)) /\ Written(d, s) \in Seq(S)
  BY BuildKeeps, WrittenFacts DEF Kept
<1> HIDE DEF f, n
<1>4. CASE s \in SectionsOf(d.version)
  <2>1. Written(d, s) = d.sec[s] /\ h.size[s] = Len(d.sec[s])
    BY <1>4, WrittenFacts
  <2> DEFINE t == d.sec[s]
  <2>2. t \in Seq(S) /\ \A i \in 1 .. Len(t) : f[n + i] = t[i]
    BY <1>3, <2>1 DEF Holds
  <2> HIDE DEF t, h
  <2>3. Cells(f, n, Len(t)) = t
    BY <1>1, <1>3, <2>2, CellsFound
  <2> QED
    BY <1>2, <1>4, <2>1, <2>3 DEF f, t, h
<1>5. CASE s \notin SectionsOf(d.version)
  <2>1. h.size[s] = 0
    BY <1>5, WrittenFacts
  <2>2. Cells(f, n, 0) = <<>>
    BY <1>3, SubSeqEmpty DEF Cells
  <2> QED
    BY <1>2, <1>5, <2>1, <2>2 DEF f
<1> QED
  BY <1>4, <1>5 DEF f

-----------------------------------------------------------------------------
(* recovery_dtbo_offset                                                     *)

\* Whole pages are counted as such.
LEMMA PagesCounted ==
  ASSUME NEW p \in Nat \ {0}, NEW k \in Nat
  PROVE  (p * k) \div p = k
<1>1. p * k \in Nat
  BY SMT
<1> DEFINE q == (p * k) \div p
<1>2. q \in Nat /\ p * q <= p * k /\ p * k < p * q + p
  BY <1>1, Division
<1> HIDE DEF q
<1>3. p * k <= p * k /\ p * k < p * k + p
  BY <1>1
<1>4. ASSUME NEW i \in Nat, NEW j \in Nat, i < j PROVE p * i + p <= p * j
  <2>1. PICK l \in Nat : j = i + 1 + l
    BY <1>4, SMT
  <2>2. p * j = p * i + p + p * l /\ p * l \in Nat
    BY <2>1, SMT
  <2> QED
    BY <2>2, SMT
<1>5. CASE q < k
  BY <1>2, <1>4, <1>5, SMT
<1>6. CASE k < q
  BY <1>2, <1>4, <1>6, SMT
<1> QED
  BY <1>2, <1>5, <1>6, SMT DEF q

\* k pages, then n cells, take as many pages as both.
Pages(p, k) == p * k

\* A header that is no longer than a page takes one.
LEMMA OnePage ==
  ASSUME NEW p \in Nat \ {0}, NEW n \in Nat \ {0}, n <= p
  PROVE  AlignUp(n, p) = Pages(p, 1)
<1> DEFINE k == 1
<1>1. k \in Nat /\ p * k = p
  OBVIOUS
<1> HIDE DEF k
<1>2. n <= p * k /\ p * k < n + p
  BY <1>1
<1>3. AlignUp(n, p) = p * k
  BY <1>1, <1>2, AlignUpIs
<1> QED
  BY <1>3 DEF k, Pages

\* Behind k pages, n cells take the pages that they take alone.
LEMMA PagesAfter ==
  ASSUME NEW p \in Nat \ {0}, NEW k \in Nat, NEW m, m = Pages(p, k), NEW n \in Nat
  PROVE  AlignUp(m + n, p) = Pages(p, k + (AlignUp(n, p) \div p))
<1>1. PICK a \in Nat : AlignUp(n, p) = p * a
  BY AlignUpFacts
<1>2. AlignUp(n, p) \div p = a
  BY <1>1, PagesCounted
<1>3. AlignUp(p * k + n, p) = p * k + p * a
  <2>1. AlignUp(p * k + n, p) = p * k + AlignUp(n, p)
    BY AlignUpShift, Zenon
  <2> QED
    BY <1>1, <2>1
<1>4. p * (k + a) = p * k + p * a
  BY SMT
<1> QED
  BY <1>2, <1>3, <1>4 DEF Pages

\* The offset that build states for the overlay is the place where parse looks
\* for it, if the header takes one page; it counts one page for it always.
THEOREM DtboOffsetIsPlace ==
  ASSUME NEW S, NEW d, BootDirOver(d, S), d.version \in {1, 2},
         BootHeader(d).size["recovery_dtbo"] > 0,
         BootHeaderLen[d.version] <= BuiltPage(d)
  PROVE  DtboOffset(d) = Starts(BootHeader(d)).recovery_dtbo
<1> DEFINE h == BootHeader(d)
           p == BootPage(h)
           len(s) == Len(d.sec[s])
<1>1. h.version = d.version /\ p = BuiltPage(d) /\ p \in Nat \ {0}
  BY BuiltPageFacts DEF BootDirOver, BootHeader
<1>2. /\ "kernel" \in SectionsOf(d.version) /\ "ramdisk" \in SectionsOf(d.version)
      /\ "second" \in SectionsOf(d.version) /\ "recovery_dtbo" \in SectionsOf(d.version)
      /\ "kernel" \in Section /\ "ramdisk" \in Section
      /\ "second" \in Section /\ "recovery_dtbo" \in Section
  BY DEF SectionsOf, Section
<1>3. /\ h.size["kernel"] = len("kernel") /\ h.size["ramdisk"] = len("ramdisk")
      /\ h.size["second"] = len("second")
      /\ h.size["recovery_dtbo"] = len("recovery_dtbo")
  BY <1>2 DEF BootHeader
<1>4. len("kernel") \in Nat /\ len("ramdisk") \in Nat /\ len("second") \in Nat
  BY <1>2, LenProperties DEF BootDirOver
<1>5. BootHeaderLen[d.version] \in Nat \ {0}
  BY BootAssumption
<1>6. d.sec.recovery_dtbo # <<>>
  BY <1>3
<1>7. DtboOffset(d) = p * (1 + (AlignUp(len("kernel"), p) \div p)
                             + (AlignUp(len("ramdisk"), p) \div p)
                             + (AlignUp(len("second"), p) \div p))
  BY <1>1, <1>6 DEF DtboOffset
<1>8. Starts(h).recovery_dtbo
        = AlignUp(AlignUp(AlignUp(AlignUp(BootHeaderLen[d.version], p)
              + len("kernel"), p) + len("ramdisk"), p) + len("second"), p)
  BY <1>1, <1>3 DEF Starts
<1> DEFINE pages(s) == AlignUp(len(s), p) \div p
           k1 == 1
           k2 == k1 + pages("kernel")
           k3 == k2 + pages("ramdisk")
           k4 == k3 + pages("second")
           m1 == AlignUp(BootHeaderLen[d.version], p)
           m2 == AlignUp(m1 + len("kernel"), p)
           m3 == AlignUp(m2 + len("ramdisk"), p)
           m4 == AlignUp(m3 + len("second"), p)
<1>9. DtboOffset(d) = Pages(p, k4) /\ Starts(h).recovery_dtbo = m4
  BY <1>7, <1>8 DEF Pages
<1> HIDE DEF h, p, len
<1>10. pages("kernel") \in Nat /\ pages("ramdisk") \in Nat /\ pages("second") \in Nat
  BY <1>1, <1>4, AlignUpFacts, Division
<1> HIDE DEF pages
<1>11. k1 \in Nat /\ k2 \in Nat /\ k3 \in Nat
  BY <1>10
<1>12. m1 = Pages(p, k1)
  BY <1>1, <1>5, OnePage
<1> HIDE DEF k1, m1
<1>13. m2 = Pages(p, k2)
  BY <1>1, <1>4, <1>11, <1>12, PagesAfter DEF pages
<1> HIDE DEF k2, m2
<1>14. m3 = Pages(p, k3)
  BY <1>1, <1>4, <1>11, <1>13, PagesAfter DEF pages
<1> HIDE DEF k3, m3
<1>15. m4 = Pages(p, k4)
  BY <1>1, <1>4, <1>11, <1>14, PagesAfter DEF pages
<1> QED
  BY <1>9, <1>15 DEF h

\* The place behind a section is a number.
LEMMA NextPage ==
  ASSUME NEW n \in Nat, NEW m \in Nat, NEW p \in Nat \ {0}
  PROVE  AlignUp(n + m, p) \in Nat
<1>1. n + m \in Nat
  OBVIOUS
<1> QED
  BY <1>1, AlignUpFacts

\* And so are the places of all sections of an image that is readable.
LEMMA StartsAreNat ==
  ASSUME NEW f, BootReadable(f), NEW s \in Section
  PROVE  Starts(f[1])[s] \in Nat
<1> DEFINE h == f[1]
           p == BootPage(h)
           kernel == AlignUp(BootHeaderLen[h.version], p)
           ramdisk == AlignUp(kernel + h.size["kernel"], p)
           second == AlignUp(ramdisk + h.size["ramdisk"], p)
           overlay == AlignUp(second + h.size["second"], p)
           dtb == AlignUp(overlay + h.size["recovery_dtbo"], p)
           signature == AlignUp(dtb + h.size["dtb"], p)
<1>1. /\ Starts(h).kernel = kernel /\ Starts(h).ramdisk = ramdisk
      /\ Starts(h).second = second /\ Starts(h).recovery_dtbo = overlay
      /\ Starts(h).dtb = dtb /\ Starts(h).boot_signature = signature
  BY DEF Starts
<1>2. /\ h.version \in 0 .. 4 /\ h.page \in Nat /\ p > 0
      /\ \A t \in Section : h.size[t] \in Nat
  BY DEF BootReadable
<1>3. p \in Nat \ {0}
  BY <1>2, BootAssumption DEF BootPage
<1>4. BootHeaderLen[h.version] \in Nat
  BY <1>2, BootAssumption
<1>5. /\ h.size["kernel"] \in Nat /\ h.size["ramdisk"] \in Nat /\ h.size["second"] \in Nat
      /\ h.size["recovery_dtbo"] \in Nat /\ h.size["dtb"] \in Nat
  BY <1>2 DEF Section
<1> HIDE DEF h, p
<1>6. kernel \in Nat
  BY <1>3, <1>4, AlignUpFacts
<1> HIDE DEF kernel
<1>7. ramdisk \in Nat
  BY <1>3, <1>5, <1>6, NextPage
<1> HIDE DEF ramdisk
<1>8. second \in Nat
  BY <1>3, <1>5, <1>7, NextPage
<1> HIDE DEF second
<1>9. overlay \in Nat
  BY <1>3, <1>5, <1>8, NextPage
<1> HIDE DEF overlay
<1>10. dtb \in Nat
  BY <1>3, <1>5, <1>9, NextPage
<1> HIDE DEF dtb
<1>11. signature \in Nat
  BY <1>3, <1>5, <1>10, NextPage
<1> HIDE DEF signature
<1>12. Starts(h)[s] \in Nat
  BY <1>1, <1>6, <1>7, <1>8, <1>9, <1>10, <1>11 DEF Section
<1> QED
  BY <1>12 DEF h

-----------------------------------------------------------------------------
\* The cells of all sections taken together.
LEMMA SectionsTogether ==
  ASSUME NEW img, IsBoot(img), img.version \in 0 .. 4
  PROVE  \E S : BootDirOver(img, S)
<1> DEFINE S == {Zero, BootHeader(img)}
                  \cup UNION {{img.sec[s][i] : i \in 1 .. Len(img.sec[s])} : s \in Section}
<1>1. img.version \in 0 .. 4 /\ img.page \in Nat /\ \A s \in Section : IsSeq(img.sec[s])
  BY DEF IsBoot
<1>2. ASSUME NEW s \in Section PROVE img.sec[s] \in Seq(S)
  <2> DEFINE R == {img.sec[s][i] : i \in 1 .. Len(img.sec[s])}
  <2>1. img.sec[s] \in Seq(R)
    BY <1>1 DEF IsSeq
  <2>2. \A i \in 1 .. Len(img.sec[s]) : img.sec[s][i] \in S
    OBVIOUS
  <2> HIDE DEF R, S
  <2> QED
    BY <2>1, <2>2, InSeq
<1>3. Zero \in S /\ BootHeader(img) \in S
  OBVIOUS
<1> HIDE DEF S
<1>4. BootDirOver(img, S)
  BY <1>1, <1>2, <1>3 DEF BootDirOver
<1> QED
  BY <1>4

\* What BootImage::build writes, BootImage::parse and unpack_boot read, in every
\* field that the version has room for.
THEOREM BootReadsBack ==
  ASSUME KindsApart, NEW d, IsBoot(d), d.type = "boot", d.version \in 0 .. 4
  PROVE  /\ BootReadable(BuildBoot(d)) /\ UnpackBoot(BuildBoot(d)) = SaidImg(d)
         /\ IsSeq(BuildBoot(d)) /\ Begins(BuildBoot(d), "boot")
         /\ BuildBoot(d)[1] = BootHeader(d)
<1> DEFINE f == BuildBoot(d)
           h == BootHeader(d)
           v == d.version
<1>1. PICK S : BootDirOver(d, S)
  BY SectionsTogether
<1>2. f[1] = h /\ f \in Seq(S)
  BY <1>1, HeaderInFront, Cursors
<1>3. BootReadable(f)
  BY <1>1, BuildIsReadable DEF KindsApart
<1>4. \A s \in Section :
        SectionIn(f, s) = IF s \in SectionsOf(v) THEN d.sec[s] ELSE <<>>
  BY <1>1, SectionsReadBack
<1>5. /\ h.version = v /\ h.page = BuiltPage(d) /\ h.os = Packed(OsParsed(d.os))
      /\ v <= 2 => h.name = Field(d.name, NameLen)
  BY DEF BootHeader
<1>6. h.args \o h.extra = Field(d.cmdline, ArgsLen + ExtraLen)
  BY BootTexts
<1>7. OsText(Unpacked(h.os)) = OsKept(d.os)
  BY <1>5 DEF OsKept
<1> HIDE DEF f, h
<1> DEFINE os == OsKept(d.os)
           sec == [s \in Section |-> IF s \in SectionsOf(v) THEN d.sec[s] ELSE <<>>]
           said == [type |-> "boot", version |-> v,
                    page |-> IF v > 2 \/ d.page = 0 THEN DefaultPage ELSE d.page,
                    name |-> IF v > 2 THEN <<>> ELSE Loaded(Field(d.name, NameLen)),
                    cmdline |-> Loaded(Field(d.cmdline, ArgsLen + ExtraLen)),
                    os |-> os, sec |-> sec]
<1>8. UnpackBoot(f) = said
  <2>1. [s \in Section |-> SectionIn(f, s)] = sec
    BY <1>4
  <2>2. (IF v <= 2 THEN h.page ELSE DefaultPage)
          = IF v > 2 \/ d.page = 0 THEN DefaultPage ELSE d.page
    BY <1>5 DEF BuiltPage, IsBoot
  <2>3. (IF v <= 2 THEN Loaded(h.name) ELSE <<>>)
          = IF v > 2 THEN <<>> ELSE Loaded(Field(d.name, NameLen))
    BY <1>5 DEF IsBoot
  <2>4. UnpackBoot(f)
          = [type |-> "boot", version |-> h.version,
             page |-> IF h.version <= 2 THEN h.page ELSE DefaultPage,
             name |-> IF h.version <= 2 THEN Loaded(h.name) ELSE <<>>,
             cmdline |-> Loaded(h.args \o h.extra),
             os |-> OsText(Unpacked(h.os)),
             sec |-> [s \in Section |-> SectionIn(f, s)]]
    BY <1>2 DEF UnpackBoot
  <2> HIDE DEF sec, os
  <2> QED
    BY <1>5, <1>6, <1>7, <2>1, <2>2, <2>3, <2>4 DEF os
<1>9. SaidImg(d) = said
  <2>1. d = [type |-> "boot", version |-> v, page |-> d.page, name |-> d.name,
             cmdline |-> d.cmdline, os |-> d.os, sec |-> d.sec]
    BY DEF IsBoot
  <2>2. SaidImg(d)
          = [[d EXCEPT
              !.page = IF d.version > 2 \/ @ = 0 THEN DefaultPage ELSE @,
              !.name = IF d.version > 2 THEN <<>> ELSE Loaded(Field(@, NameLen)),
              !.cmdline = Loaded(Field(@, ArgsLen + ExtraLen)),
              !.sec = [s \in Section |->
                         IF s \in SectionsOf(d.version) THEN @[s] ELSE <<>>]]
              EXCEPT !.os = OsKept(@)]
    BY DEF SaidImg, CarriedImg
  <2> QED
    BY <2>1, <2>2
<1>10. Begins(f, "boot")
  BY <1>3 DEF BootReadable
<1>11. IsSeq(f)
  BY <1>2, SeqIsSeq
<1> QED
  BY <1>2, <1>3, <1>8, <1>9, <1>10, <1>11 DEF f, h

-----------------------------------------------------------------------------
(* The wrapper                                                              *)

\* What the header of the wrapper declares.
Declared(inner, w) ==
  inner \o (IF w.footer THEN <<Mark>> ELSE <<>>) \o (IF w.padding THEN <<Fill>> ELSE <<>>)

WrapHeader(inner, w) ==
  [fmt |-> "dhtb", digest |-> Declared(inner, w), size |-> Len(Declared(inner, w))]

\* strip_dhtb() finds what wrap_dhtb() declared, and what it wrote behind.
LEMMA WrapIsFound ==
  ASSUME NEW S, NEW inner \in Seq(S), NEW w, KindsApart,
         w.footer \in BOOLEAN, w.padding \in BOOLEAN, IsSeq(w.extra)
  PROVE  LET f == WrapDhtb(inner, w)
             declared == Declared(inner, w)
         IN  /\ Begins(f, "dhtb") /\ Len(f) >= DhtbLen /\ DhtbReadable(f)
             /\ Len(declared) \in Nat /\ f[1].size = Len(declared)
             /\ Cells(f, DhtbLen, f[1].size) = declared
             /\ Cells(f, DhtbLen + f[1].size, Len(f) - (DhtbLen + f[1].size)) = w.extra
<1> DEFINE f == WrapDhtb(inner, w)
           declared == Declared(inner, w)
           extra == w.extra
           h == WrapHeader(inner, w)
           X == {extra[i] : i \in 1 .. Len(extra)}
           T == S \cup X \cup {h, Zero, Mark, Fill}
           head == <<h>> \o Zeros(DhtbLen - 1)
<1>1. h.fmt = "dhtb" /\ h.size = Len(declared) /\ h \notin Byte
  BY DEF KindsApart, WrapHeader
<1>2. f = head \o declared \o extra
  BY DEF WrapDhtb, WrapHeader, Declared
<1>3. h \in T /\ Zero \in T /\ Mark \in T /\ Fill \in T
  OBVIOUS
<1>4. extra \in Seq(T)
  <2>1. extra \in Seq(X)
    BY DEF IsSeq
  <2>2. \A i \in 1 .. Len(extra) : extra[i] \in T
    OBVIOUS
  <2> HIDE DEF X, T, extra
  <2> QED
    BY <2>1, <2>2, InSeq
<1>5. inner \in Seq(T)
  <2>1. \A i \in 1 .. Len(inner) : inner[i] \in T
    BY ElementOfSeq
  <2> HIDE DEF T
  <2> QED
    BY <2>1, InSeq
<1> HIDE DEF T, X, h, extra
<1>6. declared \in Seq(T) /\ Len(declared) \in Nat
  <2> DEFINE a == IF w.footer THEN <<Mark>> ELSE <<>>
             b == IF w.padding THEN <<Fill>> ELSE <<>>
  <2>1. a \in Seq(T) /\ b \in Seq(T)
    BY <1>3, EmptySeq
  <2>2. declared = inner \o a \o b
    BY DEF Declared
  <2> HIDE DEF a, b, declared
  <2>3. declared \in Seq(T)
    BY <1>5, <2>1, <2>2, ThreeParts
  <2> QED
    BY <2>3, LenProperties
<1> HIDE DEF declared
<1>7. head \in Seq(T) /\ Len(head) = DhtbLen /\ head[1] = h
  <2> DEFINE z == Zeros(DhtbLen - 1)
  <2>1. DhtbLen - 1 \in Nat
    BY DhtbAssumption
  <2>2. z \in Seq(T) /\ Len(z) = DhtbLen - 1
    BY <1>3, <2>1, ZerosFacts
  <2>3. <<h>> \in Seq(T) /\ Len(<<h>>) = 1 /\ <<h>>[1] = h
    BY <1>3
  <2> HIDE DEF z
  <2>4. <<h>> \o z \in Seq(T) /\ Len(<<h>> \o z) = 1 + (DhtbLen - 1) /\ (<<h>> \o z)[1] = h
    BY <2>1, <2>2, <2>3, ConcatProperties
  <2> QED
    BY <2>1, <2>4, DhtbAssumption DEF z
<1> HIDE DEF head, f
<1>8. /\ f \in Seq(T) /\ Len(f) = DhtbLen + Len(declared) + Len(extra)
      /\ Len(extra) \in Nat /\ DhtbLen \in Nat \ {0}
      /\ Holds(f, 0, head) /\ Holds(f, DhtbLen, declared)
      /\ Holds(f, DhtbLen + Len(declared), extra)
  <2> DEFINE g == head \o declared \o extra
  <2>1. head \in Seq(T) /\ declared \in Seq(T) /\ extra \in Seq(T)
    BY <1>4, <1>6, <1>7
  <2>2. /\ g \in Seq(T) /\ Len(g) = Len(head) + Len(declared) + Len(extra)
        /\ Len(extra) \in Nat /\ Holds(g, 0, head) /\ Holds(g, Len(head), declared)
        /\ Holds(g, Len(head) + Len(declared), extra)
    BY <2>1, ThreeParts
  <2>3. f = g /\ Len(head) = DhtbLen
    BY <1>2, <1>7
  <2> HIDE DEF g
  <2> QED
    BY <2>2, <2>3, DhtbAssumption
<1>9. f[1] = h
  <2>1. 1 \in 1 .. Len(head) /\ 0 + 1 = 1
    BY <1>7, <1>8
  <2> QED
    BY <2>1, <1>7, <1>8 DEF Holds
<1>10. Len(f) > 0 /\ Len(f) >= DhtbLen /\ Len(f) - (DhtbLen + Len(declared)) = Len(extra)
  BY <1>6, <1>8
<1>11. Begins(f, "dhtb") /\ f[1].size = Len(declared)
  BY <1>1, <1>9, <1>10 DEF Begins, declared
<1>12. Cells(f, DhtbLen, Len(declared)) = declared
  BY <1>6, <1>8, CellsFound DEF Holds
<1>13. Cells(f, DhtbLen + Len(declared), Len(extra)) = extra
  <2>1. DhtbLen + Len(declared) \in Nat
    BY <1>6, <1>8
  <2> QED
    BY <1>4, <1>8, <2>1, CellsFound DEF Holds
<1>14. DhtbReadable(f)
  BY <1>6, <1>8, <1>10, <1>11 DEF DhtbReadable
<1> QED
  BY <1>6, <1>10, <1>11, <1>12, <1>13, <1>14 DEF f, declared, extra

\* What strip_dhtb() takes for footer and padding, by what is declared.
LEMMA StripOfWrap ==
  ASSUME NEW S, NEW inner \in Seq(S), NEW w, KindsApart,
         w.footer \in BOOLEAN, w.padding \in BOOLEAN, IsSeq(w.extra)
  PROVE  LET declared == Declared(inner, w)
             strip == StripDhtb(WrapDhtb(inner, w))
         IN  /\ strip.inner = IF Filled(declared) THEN Cut(declared, 2)
                              ELSE IF EndsWith(declared, <<Mark>>) THEN Cut(declared, 1)
                              ELSE declared
             /\ strip.wrap = [footer |-> Filled(declared) \/ EndsWith(declared, <<Mark>>),
                              padding |-> Filled(declared), extra |-> w.extra]
<1> DEFINE f == WrapDhtb(inner, w)
           declared == Declared(inner, w)
           extra == w.extra
<1>1. /\ Begins(f, "dhtb") /\ Len(f) >= DhtbLen
      /\ Cells(f, DhtbLen, f[1].size) = declared
      /\ Cells(f, DhtbLen + f[1].size, Len(f) - (DhtbLen + f[1].size)) = extra
  BY WrapIsFound
<1> HIDE DEF f, declared, extra
<1>2. /\ StripDhtb(f).inner = IF Filled(declared) THEN Cut(declared, 2)
                              ELSE IF EndsWith(declared, <<Mark>>) THEN Cut(declared, 1)
                              ELSE declared
      /\ StripDhtb(f).wrap = [footer |-> Filled(declared) \/ EndsWith(declared, <<Mark>>),
                              padding |-> Filled(declared), extra |-> extra]
  BY <1>1 DEF StripDhtb
<1> QED
  BY <1>2 DEF f, declared, extra

\* The content of the wrapper lies in front of what is declared, the marks behind.
LEMMA DeclaredFacts ==
  ASSUME NEW inner, IsSeq(inner), NEW w, w.footer \in BOOLEAN, w.padding \in BOOLEAN
  PROVE  /\ IsSeq(Declared(inner, w)) /\ Len(inner) \in Nat
         /\ Holds(Declared(inner, w), 0, inner)
         /\ \E k \in 0 .. 2 :
              /\ Len(Declared(inner, w)) = Len(inner) + k
              /\ w.footer /\ w.padding =>
                   /\ k = 2 /\ Declared(inner, w)[Len(inner) + 1] = Mark
                   /\ Declared(inner, w)[Len(inner) + 2] = Fill
              /\ w.footer /\ ~w.padding =>
                   k = 1 /\ Declared(inner, w)[Len(inner) + 1] = Mark
         /\ ~w.footer /\ ~w.padding => Declared(inner, w) = inner
<1> DEFINE n == Len(inner)
           a == IF w.footer THEN <<Mark>> ELSE <<>>
           b == IF w.padding THEN <<Fill>> ELSE <<>>
           g == inner \o a \o b
           S == {inner[i] : i \in 1 .. n}
           T == S \cup {Mark, Fill}
<1>0. inner \in Seq(T) /\ Mark \in T /\ Fill \in T
  <2>1. inner \in Seq(S)
    BY DEF IsSeq
  <2>2. (\A i \in 1 .. Len(inner) : inner[i] \in T) /\ Mark \in T /\ Fill \in T
    OBVIOUS
  <2> HIDE DEF T, S
  <2> QED
    BY <2>1, <2>2, InSeq
<1> HIDE DEF T, S
<1>1. Declared(inner, w) = g
  BY DEF Declared
<1>2. /\ a \in Seq(T) /\ b \in Seq(T)
      /\ Len(a) = IF w.footer THEN 1 ELSE 0
      /\ Len(b) = IF w.padding THEN 1 ELSE 0
      /\ w.footer => a[1] = Mark
      /\ w.padding => b[1] = Fill
  BY <1>0, EmptySeq
<1>3. a \in Seq(T) /\ b \in Seq(T) /\ inner \in Seq(T)
  BY <1>0, <1>2
<1>8. ~w.footer /\ ~w.padding => g = inner
  BY <1>3, ConcatEmptySeq
<1> HIDE DEF a, b
<1>4. /\ g \in Seq(T) /\ n \in Nat /\ Len(g) = n + Len(a) + Len(b)
      /\ Holds(g, 0, inner) /\ Holds(g, n, a) /\ Holds(g, n + Len(a), b)
  BY <1>3, ThreeParts
<1> HIDE DEF g, n
<1>5. w.footer => g[n + 1] = Mark
  BY <1>2, <1>4 DEF Holds
<1>6. w.footer /\ w.padding => g[n + 2] = Fill
  <2>1. SUFFICES ASSUME w.footer, w.padding PROVE g[n + 2] = Fill
    OBVIOUS
  <2>2. Len(a) = 1 /\ Len(b) = 1 /\ b[1] = Fill /\ n + 1 + 1 = n + 2 /\ 1 \in 1 .. Len(b)
    BY <1>2, <1>4, <2>1
  <2>3. g[n + Len(a) + 1] = b[1]
    BY <1>4, <2>2 DEF Holds
  <2> QED
    BY <2>2, <2>3
<1>7. \E k \in 0 .. 2 :
        /\ Len(g) = n + k
        /\ w.footer /\ w.padding => k = 2 /\ g[n + 1] = Mark /\ g[n + 2] = Fill
        /\ w.footer /\ ~w.padding => k = 1 /\ g[n + 1] = Mark
  <2>1. Len(a) + Len(b) \in 0 .. 2
    BY <1>2
  <2> WITNESS Len(a) + Len(b) \in 0 .. 2
  <2> QED
    BY <1>2, <1>4, <1>5, <1>6
<1>9. IsSeq(g)
  BY <1>4, SeqIsSeq
<1> QED
  BY <1>1, <1>4, <1>7, <1>8, <1>9 DEF n

\* The last cells of a sequence.
LEMMA EndsAre ==
  ASSUME NEW t, IsSeq(t)
  PROVE  /\ Len(t) \in Nat
         /\ EndsWith(t, <<Mark>>) <=> Len(t) >= 1 /\ t[Len(t)] = Mark
         /\ Filled(t) <=> Len(t) >= 2 /\ t[Len(t) - 1] = Mark /\ t[Len(t)] = Fill
<1> DEFINE n == Len(t)
<1>1. n \in Nat
  BY LenProperties DEF IsSeq
<1>2. \A p \in Nat, k \in Nat : IsSeq(Cells(t, p, k))
  BY CellsAreSeq
<1>3. EndsWith(t, <<Mark>>) <=> n >= 1 /\ t[n] = Mark
  <2>1. CASE n >= 1
    <3> DEFINE c == Cells(t, n - 1, 1)
    <3> DEFINE p == n - 1
               one == 1
    <3>1. p \in Nat /\ p + 1 = n /\ one \in Nat /\ one = 1
      BY <1>1, <2>1
    <3> HIDE DEF n, p, one
    <3>2. Len(Cells(t, p, one)) = one /\ \A i \in 1 .. one : Cells(t, p, one)[i] = t[p + i]
      <4>1. p \in Nat /\ one \in Nat
        BY <3>1
      <4> QED
        BY <4>1, CellsAt
    <3>3. IsSeq(Cells(t, p, one))
      <4>1. p \in Nat /\ one \in Nat
        BY <3>1
      <4> QED
        BY <1>2, <4>1, Zenon
    <3>6. c = Cells(t, p, one)
      BY <3>1 DEF p
    <3> HIDE DEF c
    <3>7. Len(c) = 1 /\ c[1] = t[n] /\ IsSeq(c)
      BY <3>1, <3>2, <3>3, <3>6
    <3>4. c = <<Mark>> <=> c[1] = Mark
      <4>1. ASSUME c[1] = Mark PROVE c = <<Mark>>
        <5> DEFINE C == {c[i] : i \in 1 .. Len(c)}
                   m == <<Mark>>
        <5>1. c \in Seq(C)
          BY <3>7 DEF IsSeq
        <5>2. Mark \in C
          BY <3>7, <4>1
        <5> HIDE DEF C
        <5>3. m \in Seq(C) /\ Len(m) = 1 /\ m[1] = Mark
          BY <5>2
        <5> HIDE DEF m
        <5>4. c = m
          BY <3>7, <4>1, <5>1, <5>3, SeqEqual
        <5> QED
          BY <5>4 DEF m
      <4> QED
        BY <4>1
    <3>5. EndsWith(t, <<Mark>>) <=> c = <<Mark>>
      <4> DEFINE m == <<Mark>>
      <4>1. Len(m) = 1
        OBVIOUS
      <4> HIDE DEF m
      <4>2. EndsWith(t, m) <=> n >= 1 /\ Cells(t, n - 1, 1) = m
        BY <4>1 DEF EndsWith, n
      <4> QED
        BY <2>1, <4>2 DEF c, m
    <3> QED
      BY <2>1, <3>4, <3>5, <3>7
  <2>2. CASE ~(n >= 1)
    BY <1>1, <2>2 DEF EndsWith
  <2> QED
    BY <2>1, <2>2
<1>4. Filled(t) <=> n >= 2 /\ t[n - 1] = Mark /\ t[n] = Fill
  <2>1. CASE n >= 2
    <3> DEFINE c == Cells(t, n - 2, 2)
               m == <<Mark, Fill>>
    <3> DEFINE p == n - 2
               two == 2
    <3>1. p \in Nat /\ p + 1 = n - 1 /\ p + 2 = n /\ two \in Nat /\ two = 2
      BY <1>1, <2>1
    <3> HIDE DEF n, p, two
    <3>2. Len(Cells(t, p, two)) = two /\ \A i \in 1 .. two : Cells(t, p, two)[i] = t[p + i]
      <4>1. p \in Nat /\ two \in Nat
        BY <3>1
      <4> QED
        BY <4>1, CellsAt
    <3>3. IsSeq(Cells(t, p, two))
      <4>1. p \in Nat /\ two \in Nat
        BY <3>1
      <4> QED
        BY <1>2, <4>1, Zenon
    <3>6. c = Cells(t, p, two)
      BY <3>1 DEF p
    <3> HIDE DEF c
    <3>7. Len(c) = 2 /\ c[1] = t[n - 1] /\ c[2] = t[n] /\ IsSeq(c)
      BY <3>1, <3>2, <3>3, <3>6
    <3>4. c = m <=> c[1] = Mark /\ c[2] = Fill
      <4>1. ASSUME c[1] = Mark, c[2] = Fill PROVE c = m
        <5> DEFINE C == {c[i] : i \in 1 .. Len(c)}
        <5>1. c \in Seq(C)
          BY <3>7 DEF IsSeq
        <5>2. Mark \in C /\ Fill \in C
          BY <3>7, <4>1
        <5> HIDE DEF C
        <5>3. m \in Seq(C) /\ Len(m) = 2 /\ m[1] = Mark /\ m[2] = Fill
          BY <5>2
        <5> HIDE DEF m
        <5> QED
          BY <3>7, <4>1, <5>1, <5>3, SeqEqual
      <4> QED
        BY <4>1
    <3>5. Filled(t) <=> c = m
      <4>1. Len(m) = 2
        OBVIOUS
      <4>2. Filled(t) <=> EndsWith(t, m)
        BY DEF Filled
      <4> HIDE DEF m
      <4>3. EndsWith(t, m) <=> n >= 2 /\ Cells(t, n - 2, 2) = m
        BY <4>1 DEF EndsWith, n
      <4> QED
        BY <2>1, <4>2, <4>3 DEF c
    <3> QED
      BY <2>1, <3>4, <3>5, <3>7
  <2>2. CASE ~(n >= 2)
    BY <1>1, <2>2 DEF EndsWith, Filled
  <2> QED
    BY <2>1, <2>2
<1> QED
  BY <1>1, <1>3, <1>4

\* An image in a wrapper that repack can make comes out of it as it was put in.
LEMMA WrapAndStrip ==
  ASSUME NEW S, NEW inner \in Seq(S), NEW w, KindsApart,
         w.footer \in BOOLEAN, w.padding \in BOOLEAN, IsSeq(w.extra),
         w.footer \/ (~w.padding /\ ~LikeFooter(inner))
  PROVE  LET strip == StripDhtb(WrapDhtb(inner, w))
         IN  /\ strip.inner = inner
             /\ strip.wrap = [footer |-> w.footer, padding |-> w.padding, extra |-> w.extra]
<1> DEFINE declared == Declared(inner, w)
           n == Len(inner)
           strip == StripDhtb(WrapDhtb(inner, w))
<1>1. IsSeq(inner)
  BY SeqIsSeq
<1>2. /\ strip.inner = IF Filled(declared) THEN Cut(declared, 2)
                       ELSE IF EndsWith(declared, <<Mark>>) THEN Cut(declared, 1)
                       ELSE declared
      /\ strip.wrap = [footer |-> Filled(declared) \/ EndsWith(declared, <<Mark>>),
                       padding |-> Filled(declared), extra |-> w.extra]
  BY StripOfWrap
<1>3. /\ IsSeq(declared) /\ n \in Nat /\ Holds(declared, 0, inner)
      /\ w.footer /\ w.padding =>
           /\ Len(declared) = n + 2 /\ declared[n + 1] = Mark /\ declared[n + 2] = Fill
      /\ w.footer /\ ~w.padding => Len(declared) = n + 1 /\ declared[n + 1] = Mark
  BY <1>1, DeclaredFacts
<1>4. ~w.footer /\ ~w.padding => declared = inner
  BY <1>1, DeclaredFacts
<1> HIDE DEF declared, strip
<1>5. /\ EndsWith(declared, <<Mark>>) <=> Len(declared) >= 1 /\ declared[Len(declared)] = Mark
      /\ Filled(declared) <=> /\ Len(declared) >= 2
                              /\ declared[Len(declared) - 1] = Mark
                              /\ declared[Len(declared)] = Fill
  BY <1>3, EndsAre
<1>6. \A k \in Nat : Len(declared) = n + k => Cut(declared, k) = inner
  <2> SUFFICES ASSUME NEW k \in Nat, Len(declared) = n + k PROVE Cut(declared, k) = inner
    OBVIOUS
  <2>1. Cells(declared, 0, n) = inner
    <3> DEFINE D == {declared[i] : i \in 1 .. Len(declared)}
    <3>1. declared \in Seq(D)
      BY <1>3 DEF IsSeq
    <3>2. \A i \in 1 .. Len(inner) : declared[0 + i] = inner[i]
      BY <1>3 DEF Holds
    <3> HIDE DEF D
    <3>3. inner \in Seq(S \cup D)
      <4>1. \A i \in 1 .. Len(inner) : inner[i] \in S \cup D
        BY ElementOfSeq
      <4> QED
        BY <4>1, InSeq
    <3>4. declared \in Seq(S \cup D)
      <4>1. \A i \in 1 .. Len(declared) : declared[i] \in S \cup D
        BY <3>1, ElementOfSeq
      <4> QED
        BY <3>1, <4>1, InSeq
    <3> QED
      BY <3>2, <3>3, <3>4, CellsFound
  <2>2. Len(declared) - k = 0 + n
    BY <1>3
  <2> QED
    BY <2>1, <2>2 DEF Cells, Cut
<1>7. CASE w.footer /\ w.padding
  <2>1. /\ Len(declared) = n + 2 /\ Len(declared) >= 2
        /\ Len(declared) - 1 = n + 1
    BY <1>3, <1>7
  <2>2. Filled(declared)
    BY <1>3, <1>5, <1>7, <2>1
  <2>3. Cut(declared, 2) = inner
    BY <1>6, <2>1
  <2> QED
    BY <1>2, <1>7, <2>2, <2>3 DEF strip
<1>8. CASE w.footer /\ ~w.padding
  <2>1. Len(declared) = n + 1 /\ Len(declared) >= 1
    BY <1>3, <1>8
  <2>2. EndsWith(declared, <<Mark>>) /\ ~Filled(declared)
    BY <1>3, <1>5, <1>8, <2>1, DhtbAssumption
  <2>3. Cut(declared, 1) = inner
    BY <1>6, <2>1
  <2>4. (Filled(declared) \/ EndsWith(declared, <<Mark>>)) = w.footer
        /\ Filled(declared) = w.padding
    BY <1>8, <2>2 DEF Filled, EndsWith
  <2> QED
    BY <1>2, <2>2, <2>3, <2>4 DEF strip
<1>9. CASE ~w.footer
  <2>1. declared = inner /\ ~Filled(declared) /\ ~EndsWith(declared, <<Mark>>)
    BY <1>4, <1>9 DEF LikeFooter
  <2>2. (Filled(declared) \/ EndsWith(declared, <<Mark>>)) = w.footer
        /\ Filled(declared) = w.padding
    BY <1>9, <2>1 DEF Filled, EndsWith
  <2> QED
    BY <1>2, <2>1, <2>2 DEF strip
<1> QED
  BY <1>7, <1>8, <1>9

\* Whatever the wrapper says, no more than bytes are cut off: the header of the
\* image stays.
LEMMA HeaderStays ==
  ASSUME NEW S, NEW inner \in Seq(S), NEW w, KindsApart,
         w.footer \in BOOLEAN, w.padding \in BOOLEAN, IsSeq(w.extra),
         Len(inner) > 0, inner[1] \notin Byte
  PROVE  StripDhtb(WrapDhtb(inner, w)).inner[1] = inner[1]
<1> DEFINE declared == Declared(inner, w)
           n == Len(declared)
<1>1. IsSeq(inner)
  BY SeqIsSeq
<1>2. StripDhtb(WrapDhtb(inner, w)).inner
        = IF Filled(declared) THEN Cut(declared, 2)
          ELSE IF EndsWith(declared, <<Mark>>) THEN Cut(declared, 1) ELSE declared
  BY StripOfWrap
<1>3. IsSeq(declared) /\ Holds(declared, 0, inner) /\ n \in Nat
  <2>1. IsSeq(declared) /\ Holds(declared, 0, inner)
    BY <1>1, DeclaredFacts
  <2> HIDE DEF declared
  <2> QED
    BY <2>1, LenProperties DEF IsSeq
<1> HIDE DEF declared
<1>4. declared[1] = inner[1] /\ declared[1] # Mark
  <2>1. 1 \in 1 .. Len(inner) /\ 0 + 1 = 1
    BY LenProperties
  <2> QED
    BY <1>3, <2>1, DhtbAssumption DEF Holds
<1>5. ASSUME NEW k \in Nat, n - k >= 1 PROVE Cut(declared, k)[1] = declared[1]
  <2> DEFINE m == n - k
  <2>1. m \in Nat /\ 1 \in 1 .. m /\ 0 + 1 = 1 /\ 0 + m = m
    BY <1>3, <1>5
  <2>2. Cut(declared, k) = SubSeq(declared, 1, m)
    BY DEF Cut
  <2> HIDE DEF m
  <2>3. Cells(declared, 0, m)[1] = declared[1]
    BY <2>1, CellsAt
  <2> QED
    BY <2>1, <2>2, <2>3 DEF Cells
<1>6. CASE Filled(declared)
  <2>1. n >= 2 /\ declared[n - 1] = Mark
    BY <1>3, <1>6, EndsAre
  <2>2. n # 2
    <3> SUFFICES ASSUME n = 2 PROVE FALSE
      OBVIOUS
    <3>1. n - 1 = 1
      OBVIOUS
    <3> QED
      BY <1>4, <2>1, <3>1
  <2>3. n - 2 >= 1
    <3>1. n \in Nat
      BY <1>3
    <3> HIDE DEF n
    <3> QED
      BY <2>1, <2>2, <3>1
  <2> QED
    BY <1>2, <1>4, <1>5, <1>6, <2>3
<1>7. CASE ~Filled(declared) /\ EndsWith(declared, <<Mark>>)
  <2>1. n >= 1 /\ declared[n] = Mark
    BY <1>3, <1>7, EndsAre
  <2>2. n - 1 >= 1
    BY <1>3, <1>4, <2>1
  <2> QED
    BY <1>2, <1>4, <1>5, <1>7, <2>2
<1>8. CASE ~Filled(declared) /\ ~EndsWith(declared, <<Mark>>)
  BY <1>2, <1>4, <1>8
<1> QED
  BY <1>6, <1>7, <1>8

\* What is left of a file when its wrapper is taken off.
LEMMA StrippedIsSeq ==
  ASSUME NEW f, IsSeq(f), DhtbReadable(f)
  PROVE  IsSeq(StripDhtb(f).inner) /\ IsWrap(StripDhtb(f).wrap)
<1>1. CASE ~(Begins(f, "dhtb") /\ Len(f) >= DhtbLen)
  BY <1>1 DEF StripDhtb, IsWrap
<1>2. CASE Begins(f, "dhtb") /\ Len(f) >= DhtbLen
  <2> DEFINE n == Len(f) - (DhtbLen + f[1].size)
             payload == Cells(f, DhtbLen, f[1].size)
             strip == StripDhtb(f)
             extra == Cells(f, DhtbLen + f[1].size, n)
  <2>1. f[1].size \in Nat /\ n \in Nat /\ DhtbLen \in Nat /\ DhtbLen + f[1].size \in Nat
    BY <1>2, DhtbAssumption DEF DhtbReadable
  <2>2. IsSeq(payload) /\ IsSeq(extra)
    BY <2>1, CellsAreSeq
  <2>3. /\ strip.inner = IF Filled(payload) THEN Cut(payload, 2)
                         ELSE IF EndsWith(payload, <<Mark>>) THEN Cut(payload, 1)
                         ELSE payload
        /\ strip.wrap = [footer |-> Filled(payload) \/ EndsWith(payload, <<Mark>>),
                         padding |-> Filled(payload), extra |-> extra]
    BY <1>2 DEF StripDhtb
  <2> HIDE DEF payload, strip, extra, n
  <2>4. IsWrap(strip.wrap)
    BY <2>2, <2>3 DEF IsWrap, Filled, EndsWith
  <2>5. ASSUME NEW k \in Nat, k <= Len(payload) PROVE IsSeq(Cut(payload, k))
    <3> DEFINE S == {payload[i] : i \in 1 .. Len(payload)}
               m == Len(payload) - k
    <3>1. payload \in Seq(S)
      BY <2>2 DEF IsSeq
    <3> HIDE DEF S
    <3>2. Len(payload) \in Nat
      BY <3>1, LenProperties
    <3>3. m \in Nat /\ m <= Len(payload) /\ 1 \in Nat /\ 1 <= 1
      BY <2>5, <3>2
    <3>4. Cut(payload, k) = SubSeq(payload, 1, m)
      BY DEF Cut
    <3> HIDE DEF m
    <3>5. SubSeq(payload, 1, m) \in Seq(S)
      BY <3>1, <3>3, PartOfText
    <3> QED
      BY <3>4, <3>5, SeqIsSeq
  <2>6. /\ Filled(payload) => 2 <= Len(payload)
        /\ EndsWith(payload, <<Mark>>) => 1 <= Len(payload)
    BY <2>2, EndsAre
  <2>7. IsSeq(strip.inner)
    BY <2>2, <2>3, <2>5, <2>6
  <2> QED
    BY <2>4, <2>7 DEF strip
<1> QED
  BY <1>1, <1>2

\* A wrapped image is a sequence of cells.
LEMMA WrappedIsSeq ==
  ASSUME NEW inner, IsSeq(inner), NEW w, IsSeq(w.extra),
         w.footer \in BOOLEAN, w.padding \in BOOLEAN
  PROVE  IsSeq(WrapDhtb(inner, w))
<1> DEFINE declared == Declared(inner, w)
           extra == w.extra
           h == WrapHeader(inner, w)
           n == DhtbLen - 1
           head == <<h>> \o Zeros(n)
           D == {declared[i] : i \in 1 .. Len(declared)}
           X == {extra[i] : i \in 1 .. Len(extra)}
           T == D \cup X \cup {h, Zero}
<1>1. IsSeq(declared)
  BY DeclaredFacts
<1>2. WrapDhtb(inner, w) = head \o declared \o extra
  BY DEF WrapDhtb, WrapHeader, Declared
<1>3. declared \in Seq(D) /\ extra \in Seq(X)
  BY <1>1 DEF IsSeq
<1>4. /\ \A i \in 1 .. Len(declared) : declared[i] \in T
      /\ \A i \in 1 .. Len(extra) : extra[i] \in T
      /\ h \in T /\ Zero \in T
  OBVIOUS
<1> HIDE DEF D, X, T, declared, extra, h
<1>5. declared \in Seq(T) /\ extra \in Seq(T)
  BY <1>3, <1>4, InSeq
<1>6. head \in Seq(T)
  <2>1. n \in Nat
    BY DhtbAssumption
  <2> HIDE DEF n
  <2>2. Zeros(n) \in Seq(T) /\ <<h>> \in Seq(T)
    BY <1>4, <2>1, ZerosFacts
  <2> QED
    BY <2>2, ConcatProperties
<1> HIDE DEF head
<1>7. head \o declared \o extra \in Seq(T)
  BY <1>5, <1>6, ThreeParts
<1> QED
  BY <1>2, <1>7, SeqIsSeq

-----------------------------------------------------------------------------
(* Images of any type                                                       *)

\* What repack builds, of whatever it can build.
LEMMA ImageIsSeq ==
  ASSUME KindsApart, NEW d, IsDir(d), Buildable(d.img)
  PROVE  IsSeq(RepackImage(d.img))
<1> DEFINE img == d.img
<1>1. CASE img.type = "boot"
  <2>1. IsBoot(img) /\ img.version \in 0 .. 4 /\ RepackImage(img) = BuildBoot(img)
    BY <1>1 DEF IsDir, Buildable, RepackImage
  <2> QED
    BY <1>1, <2>1, BootReadsBack
<1>2. CASE img.type = "dtbo"
  <2>1. IsDtbo(img) /\ img.version \in {0, 1} /\ RepackImage(img) = BuildDtbo(img)
    BY <1>2 DEF IsDir, Buildable, RepackImage
  <2> QED
    BY <1>2, <2>1, DtboReadsBack
<1>3. CASE img.type = "dtb"
  <2>1. IsDtb(img) /\ RepackImage(img) = BuildDtb(img)
    BY <1>3 DEF IsDir, RepackImage
  <2> QED
    BY <2>1, DtbIsSeq
<1>4. CASE img.type = "uimage"
  <2>1. IsUImage(img) /\ RepackImage(img) = BuildUImage(img)
    BY <1>4 DEF IsDir, RepackImage
  <2> QED
    BY <1>4, <2>1, UImageReadsBack
<1> QED
  BY <1>1, <1>2, <1>3, <1>4 DEF IsDir

\* And so is what repack writes, wrapped or not.
LEMMA RepackedIsSeq ==
  ASSUME KindsApart, NEW d, IsDir(d), Buildable(d.img)
  PROVE  IsSeq(Repack(d))
<1>1. IsSeq(RepackImage(d.img)) /\ IsWrap(d.wrap)
  BY ImageIsSeq DEF IsDir
<1>2. CASE d.wrap = NoWrap
  BY <1>1, <1>2 DEF Repack
<1>3. CASE d.wrap # NoWrap
  BY <1>1, <1>3, WrappedIsSeq DEF Repack, IsWrap
<1> QED
  BY <1>2, <1>3

\* What unpack records of an image, by its type.
UnpackImg(f) ==
  CASE Detect(f) = "boot"   -> UnpackBoot(f)
    [] Detect(f) = "dtbo"   -> UnpackDtbo(f)
    [] Detect(f) = "dtb"    -> UnpackDtb(f)
    [] Detect(f) = "uimage" -> UnpackUImage(f)

\* The image that repack builds is read as one of its type, and as what the
\* directory says.
LEMMA ImageReadsBack ==
  ASSUME KindsApart, NEW d, IsDir(d), Sane(d)
  PROVE  LET f == RepackImage(d.img)
         IN  /\ Readable(f) /\ Detect(f) = d.img.type
             /\ UnpackImg(f) = SaidImg(d.img)
             /\ Begins(f, f[1].fmt) /\ f[1].fmt # "dhtb"
<1> DEFINE img == d.img
           f == RepackImage(img)
<1>1. CASE img.type = "boot"
  <2>1. IsBoot(img) /\ img.version \in 0 .. 4 /\ f = BuildBoot(img)
    BY <1>1 DEF IsDir, Sane, Buildable, RepackImage
  <2>2. BootReadable(f) /\ UnpackBoot(f) = SaidImg(img) /\ Begins(f, "boot")
    BY <1>1, <2>1, BootReadsBack
  <2> HIDE DEF f
  <2>3. Detect(f) = "boot"
    BY <2>2 DEF Detect
  <2>4. Readable(f) /\ UnpackImg(f) = SaidImg(img)
    BY <2>2, <2>3 DEF Readable, UnpackImg
  <2> QED
    BY <1>1, <2>2, <2>3, <2>4 DEF f, Begins
<1>2. CASE img.type = "dtbo"
  <2>1. IsDtbo(img) /\ img.version \in {0, 1} /\ f = BuildDtbo(img)
    BY <1>2 DEF IsDir, Sane, Buildable, RepackImage
  <2>2. DtboReadable(f) /\ UnpackDtbo(f) = img /\ Begins(f, "dtbo")
    BY <1>2, <2>1, DtboReadsBack
  <2> HIDE DEF f
  <2>3. Detect(f) = "dtbo"
    BY <2>2 DEF Detect, Begins
  <2>4. Readable(f) /\ UnpackImg(f) = SaidImg(img)
    BY <1>2, <2>2, <2>3 DEF Readable, UnpackImg, SaidImg, CarriedImg
  <2> QED
    BY <1>2, <2>2, <2>3, <2>4 DEF f, Begins
<1>3. CASE img.type = "dtb"
  <2>1. IsDtb(img) /\ Ordered(img.blobs) /\ f = BuildDtb(img)
    BY <1>3 DEF IsDir, Sane, RepackImage
  <2>2. DtbReadable(f) /\ UnpackDtb(f) = img /\ Begins(f, "fdt")
    BY <1>3, <2>1, DtbReadsBack
  <2> HIDE DEF f
  <2>3. Detect(f) = "dtb"
    BY <2>2 DEF Detect, Begins
  <2>4. Readable(f) /\ UnpackImg(f) = SaidImg(img)
    BY <1>3, <2>2, <2>3 DEF Readable, UnpackImg, SaidImg, CarriedImg
  <2> QED
    BY <1>3, <2>2, <2>3, <2>4 DEF f, Begins
<1>4. CASE img.type = "uimage"
  <2>1. IsUImage(img) /\ f = BuildUImage(img)
    BY <1>4 DEF IsDir, RepackImage
  <2>2. UImageReadable(f) /\ UnpackUImage(f) = SaidImg(img) /\ Begins(f, "uimage")
    BY <1>4, <2>1, UImageReadsBack
  <2> HIDE DEF f
  <2>3. Detect(f) = "uimage"
    BY <2>2 DEF Detect, Begins
  <2>4. Readable(f) /\ UnpackImg(f) = SaidImg(img)
    BY <2>2, <2>3 DEF Readable, UnpackImg
  <2> QED
    BY <1>4, <2>2, <2>3, <2>4 DEF f, Begins
<1> QED
  BY <1>1, <1>2, <1>3, <1>4 DEF IsDir

\* The wrapper comes off as it was put on.
LEMMA RepackedIsStripped ==
  ASSUME KindsApart, NEW d, IsDir(d), Sane(d)
  PROVE  /\ StripDhtb(Repack(d)).inner = RepackImage(d.img)
         /\ StripDhtb(Repack(d)).wrap = d.wrap
         /\ DhtbReadable(Repack(d))
<1> DEFINE f == RepackImage(d.img)
           w == d.wrap
           g == Repack(d)
<1>1. IsSeq(f) /\ Begins(f, f[1].fmt) /\ f[1].fmt # "dhtb" /\ IsWrap(w)
  BY ImageIsSeq, ImageReadsBack DEF Sane, IsDir
<1>2. CASE w = NoWrap
  <2>1. g = f
    BY <1>2 DEF Repack
  <2> HIDE DEF f, g
  <2>2. ~Begins(g, "dhtb")
    BY <1>1, <2>1 DEF Begins
  <2>3. StripDhtb(g).inner = g /\ StripDhtb(g).wrap = NoWrap /\ DhtbReadable(g)
    BY <2>2 DEF StripDhtb, DhtbReadable
  <2> QED
    BY <1>2, <2>1, <2>3 DEF f, g
<1>3. CASE w # NoWrap
  <2> DEFINE S == {f[i] : i \in 1 .. Len(f)}
             extra == w.extra
  <2>1. /\ w.footer \in BOOLEAN /\ w.padding \in BOOLEAN /\ IsSeq(extra)
        /\ w = [footer |-> w.footer, padding |-> w.padding, extra |-> extra]
    BY <1>1, <1>3 DEF IsWrap
  <2>2. g = WrapDhtb(f, w)
    BY <1>3 DEF Repack
  <2>3. w.footer \/ (~w.padding /\ ~LikeFooter(f))
    BY <1>3 DEF Sane
  <2>4. f \in Seq(S)
    BY <1>1 DEF IsSeq
  <2> HIDE DEF f, w, g, S
  <2>5. DhtbReadable(g)
    BY <2>1, <2>2, <2>4, WrapIsFound
  <2>6. /\ StripDhtb(g).inner = f
        /\ StripDhtb(g).wrap = [footer |-> w.footer, padding |-> w.padding, extra |-> extra]
    BY <2>1, <2>2, <2>3, <2>4, WrapAndStrip
  <2> QED
    BY <2>1, <2>5, <2>6 DEF f, w, g
<1> QED
  BY <1>2, <1>3

\* What repack writes is accepted, and says what the directory said.
THEOREM RepackedReadsBack ==
  ASSUME KindsApart, NEW d, IsDir(d), Sane(d)
  PROVE  /\ Accepted(Repack(d)) /\ Detect(StripDhtb(Repack(d)).inner) = d.img.type
         /\ Unpack(Repack(d)) = Said(d)
<1> DEFINE f == RepackImage(d.img)
           g == Repack(d)
<1>1. StripDhtb(g).inner = f /\ StripDhtb(g).wrap = d.wrap /\ DhtbReadable(g)
  BY RepackedIsStripped
<1>2. Readable(f) /\ Detect(f) = d.img.type /\ UnpackImg(f) = SaidImg(d.img)
  BY ImageReadsBack
<1> HIDE DEF f, g
<1>3. Accepted(g)
  BY <1>1, <1>2 DEF Accepted
<1>4. Unpack(g) = [wrap |-> d.wrap, img |-> SaidImg(d.img)]
  BY <1>1, <1>2 DEF Unpack, UnpackImg
<1>5. Said(d) = [wrap |-> d.wrap, img |-> SaidImg(d.img)]
  <2>1. d = [wrap |-> d.wrap, img |-> d.img]
    BY DEF IsDir
  <2> QED
    BY <2>1 DEF Said
<1> QED
  BY <1>1, <1>2, <1>3, <1>4, <1>5 DEF g

-----------------------------------------------------------------------------
(* What is read of any file                                                 *)

\* Whatever a boot image says, unpack records a version, a page size, texts and
\* sections that the directory can hold.
LEMMA BootUnpacked ==
  ASSUME NEW f, BootReadable(f)
  PROVE  IsBoot(UnpackBoot(f))
<1> DEFINE h == f[1]
           sec == [s \in Section |-> SectionIn(f, s)]
           name == IF h.version <= 2 THEN Loaded(h.name) ELSE <<>>
           page == IF h.version <= 2 THEN h.page ELSE DefaultPage
           cmdline == Loaded(h.args \o h.extra)
           os == OsText(Unpacked(h.os))
<1>1. /\ h.version \in 0 .. 4 /\ h.page \in Nat /\ h.os \in Nat
      /\ IsSeq(h.name) /\ IsSeq(h.args) /\ IsSeq(h.extra)
  BY DEF BootReadable
<1>2. page \in Nat
  BY <1>1, BootAssumption
<1>3. IsText(name)
  <2>1. IsText(Loaded(h.name))
    BY <1>1, LoadedIsText
  <2>2. IsText(<<>>)
    <3>1. IsText(Loaded(<<>>))
      BY NothingIsSeq, LoadedIsText
    <3>2. Loaded(<<>>) = <<>>
      <4>1. DOMAIN <<>> = {}
        OBVIOUS
      <4> QED
        BY <4>1 DEF Loaded, FirstLine, Trim
    <3> QED
      BY <3>1, <3>2
  <2> QED
    BY <2>1, <2>2
<1>4. IsText(cmdline)
  <2> DEFINE a == h.args
             b == h.extra
             A == {a[i] : i \in 1 .. Len(a)}
             B == {b[i] : i \in 1 .. Len(b)}
             T == A \cup B
  <2>1. a \in Seq(A) /\ b \in Seq(B)
    BY <1>1 DEF IsSeq
  <2>2. (\A i \in 1 .. Len(a) : a[i] \in T) /\ \A i \in 1 .. Len(b) : b[i] \in T
    OBVIOUS
  <2> HIDE DEF a, b, A, B, T
  <2>3. a \in Seq(T) /\ b \in Seq(T)
    BY <2>1, <2>2, InSeq
  <2>4. IsSeq(a \o b)
    BY <2>3, ConcatProperties, SeqIsSeq
  <2> QED
    BY <2>4, LoadedIsText DEF a, b
<1>5. IsOs(os)
  BY <1>1, OsTextSound
<1>6. ASSUME NEW s \in Section PROVE IsSeq(SectionIn(f, s))
  <2>1. Starts(f[1])[s] \in Nat /\ f[1].size[s] \in Nat
    BY StartsAreNat DEF BootReadable
  <2> QED
    BY <2>1, CellsAreSeq DEF SectionIn
<1>7. sec = [s \in Section |-> sec[s]] /\ \A s \in Section : IsSeq(sec[s])
  BY <1>6
<1>8. UnpackBoot(f) = [type |-> "boot", version |-> h.version, page |-> page,
                       name |-> name, cmdline |-> cmdline, os |-> os, sec |-> sec]
  BY DEF UnpackBoot
<1> HIDE DEF page, name, cmdline, os, sec, h
<1> DEFINE said == [type |-> "boot", version |-> h.version, page |-> page,
                    name |-> name, cmdline |-> cmdline, os |-> os, sec |-> sec]
<1>9. /\ said.type = "boot" /\ said.version = h.version /\ said.page = page
      /\ said.name = name /\ said.cmdline = cmdline /\ said.os = os /\ said.sec = sec
      /\ said = [type |-> said.type, version |-> said.version, page |-> said.page,
                 name |-> said.name, cmdline |-> said.cmdline, os |-> said.os,
                 sec |-> said.sec]
  OBVIOUS
<1> HIDE DEF said
<1>10. IsBoot(said)
  BY <1>1, <1>2, <1>3, <1>4, <1>5, <1>7, <1>9 DEF IsBoot
<1> QED
  BY <1>8, <1>10 DEF said

\* So it does of a dtbo, each entry inflated or as it is.
LEMMA DtboUnpacked ==
  ASSUME NEW f, DtboReadable(f)
  PROVE  IsDtbo(UnpackDtbo(f))
<1> DEFINE h == f[1]
           n == h.count
           e(i) == [id |-> Row(f, i).id, comp |-> Row(f, i).comp,
                    data |-> IF IsDeflated(h.version, Row(f, i).comp)
                               THEN Inflated(Blob(f, i)) ELSE Blob(f, i)]
           E == [i \in 1 .. n |-> e(i)]
           said == [type |-> "dtbo", version |-> h.version, page |-> h.page,
                    acpio |-> h.acpio, entries |-> E]
<1>1. h.version \in {0, 1} /\ n \in Nat
  BY DEF DtboReadable
<1>2. UnpackDtbo(f) = said
  BY DEF UnpackDtbo
<1>3. ASSUME NEW i \in 1 .. n
      PROVE  IsSeq(e(i).data) /\ e(i) = [id |-> e(i).id, comp |-> e(i).comp, data |-> e(i).data]
  <2>1. /\ Row(f, i).offset \in Nat /\ Row(f, i).size \in Nat
        /\ IsDeflated(h.version, Row(f, i).comp) => Inflatable(Blob(f, i))
    BY <1>3 DEF DtboReadable
  <2>2. IsSeq(Blob(f, i))
    BY <2>1, CellsAreSeq DEF Blob
  <2>3. Inflatable(Blob(f, i)) => IsSeq(Inflated(Blob(f, i)))
    BY NothingIsSeq DEF Inflatable, Inflated
  <2> QED
    BY <2>1, <2>2, <2>3
<1>4. IsSeq(E) /\ Len(E) = n
  <2> DEFINE S == {e(i) : i \in 1 .. n}
  <2>1. \A i \in 1 .. n : e(i) \in S
    OBVIOUS
  <2> HIDE DEF e, S, n
  <2>2. E \in Seq(S) /\ Len(E) = n
    BY <1>1, <2>1
  <2> QED
    BY <2>2, SeqIsSeq
<1>5. \A i \in 1 .. n : E[i] = e(i)
  OBVIOUS
<1> HIDE DEF E, e, n, h
<1>6. /\ said.version = h.version /\ said.entries = E
      /\ said = [type |-> said.type, version |-> said.version, page |-> said.page,
                 acpio |-> said.acpio, entries |-> said.entries]
  OBVIOUS
<1> HIDE DEF said
<1>7. IsDtbo(said)
  BY <1>1, <1>3, <1>4, <1>5, <1>6 DEF IsDtbo
<1> QED
  BY <1>2, <1>7

\* And of a uImage, whose numbers become names.
LEMMA UImageUnpacked ==
  ASSUME NEW f, UImageReadable(f)
  PROVE  IsUImage(UnpackUImage(f))
<1> DEFINE h == f[1]
           name == Loaded(h.name)
           attr == [a \in DOMAIN Named |-> NameOf(a, h.attr[a])]
           data == Cells(f, UImageLen, h.size)
           said == [type |-> "uimage", name |-> name, attr |-> attr, data |-> data]
<1>1. IsText(name)
  BY LoadedIsText DEF UImageReadable
<1>2. IsSeq(data)
  BY CellsAreSeq, UImageAssumption DEF UImageReadable
<1>3. /\ attr = [a \in DOMAIN Named |-> attr[a]]
      /\ \A a \in DOMAIN Named : attr[a] \in Named[a] \cup {Unknown}
  BY DEF NameOf
<1>4. UnpackUImage(f) = said
  BY DEF UnpackUImage
<1> HIDE DEF name, attr, data
<1>5. /\ said.name = name /\ said.attr = attr /\ said.data = data
      /\ said = [type |-> said.type, name |-> said.name, attr |-> said.attr, data |-> said.data]
  OBVIOUS
<1> HIDE DEF said
<1>6. IsUImage(said)
  BY <1>1, <1>2, <1>3, <1>5 DEF IsUImage
<1> QED
  BY <1>4, <1>6

\* An image of one of the types, and a wrapper.
IsImg(img) ==
  \/ img.type = "boot" /\ IsBoot(img)
  \/ img.type = "dtbo" /\ IsDtbo(img)
  \/ img.type = "dtb" /\ IsDtb(img)
  \/ img.type = "uimage" /\ IsUImage(img)

\* An image with a wrapper is a directory.
LEMMA DirOf ==
  ASSUME NEW wrap, IsWrap(wrap), NEW img, IsImg(img)
  PROVE  IsDir([wrap |-> wrap, img |-> img])
<1> DEFINE new == [wrap |-> wrap, img |-> img]
<1>1. new.wrap = wrap /\ new.img = img /\ new = [wrap |-> new.wrap, img |-> new.img]
  OBVIOUS
<1> HIDE DEF new
<1>2. IsDir(new)
  BY <1>1 DEF IsDir, IsImg
<1> QED
  BY <1>2 DEF new

\* Whatever the file: what unpack records of it is a directory.
LEMMA UnpackedSound ==
  ASSUME NEW f, IsSeq(f), Accepted(f)
  PROVE  IsDir(Unpack(f))
<1> DEFINE inner == StripDhtb(f).inner
           wrap == StripDhtb(f).wrap
           d == Unpack(f)
<1>1. IsSeq(inner) /\ IsWrap(wrap) /\ Readable(inner)
  BY StrippedIsSeq DEF Accepted
<1>2. d = [wrap |-> wrap, img |-> UnpackImg(inner)]
  BY DEF Unpack, UnpackImg
<1> HIDE DEF inner, wrap, d
<1> DEFINE img == UnpackImg(inner)
<1>3. CASE Detect(inner) = "boot"
  <2>1. img = UnpackBoot(inner) /\ BootReadable(inner)
    BY <1>1, <1>3 DEF UnpackImg, Readable
  <2>2. IsBoot(img) /\ img.type = "boot"
    BY <2>1, BootUnpacked DEF UnpackBoot
  <2> HIDE DEF img
  <2> QED
    BY <1>1, <1>2, <2>2, DirOf DEF IsImg, img, d
<1>4. CASE Detect(inner) = "dtbo"
  <2>1. img = UnpackDtbo(inner) /\ DtboReadable(inner)
    BY <1>1, <1>4 DEF UnpackImg, Readable
  <2>2. IsDtbo(img) /\ img.type = "dtbo"
    BY <2>1, DtboUnpacked DEF UnpackDtbo
  <2> HIDE DEF img
  <2> QED
    BY <1>1, <1>2, <2>2, DirOf DEF IsImg, img, d
<1>5. CASE Detect(inner) = "dtb"
  <2>1. img = UnpackDtb(inner) /\ DtbReadable(inner)
    BY <1>1, <1>5 DEF UnpackImg, Readable
  <2>2. inner # <<>>
    <3>1. Begins(inner, "fdt")
      BY <1>5 DEF Detect
    <3>2. ~(Len(<<>>) > 0)
      OBVIOUS
    <3> QED
      BY <3>1, <3>2 DEF Begins
  <2>3. IsDtb(img) /\ img.type = "dtb"
    BY <1>1, <2>1, <2>2, DtbUnpacked DEF UnpackDtb
  <2> HIDE DEF img
  <2> QED
    BY <1>1, <1>2, <2>3, DirOf DEF IsImg, img, d
<1>6. CASE Detect(inner) = "uimage"
  <2>1. img = UnpackUImage(inner) /\ UImageReadable(inner)
    BY <1>1, <1>6 DEF UnpackImg, Readable
  <2>2. IsUImage(img) /\ img.type = "uimage"
    BY <2>1, UImageUnpacked DEF UnpackUImage
  <2> HIDE DEF img
  <2> QED
    BY <1>1, <1>2, <2>2, DirOf DEF IsImg, img, d
<1>7. CASE Detect(inner) = "unknown"
  BY <1>1, <1>7 DEF Readable
<1> QED
  BY <1>3, <1>4, <1>5, <1>6, <1>7 DEF Detect, d

-----------------------------------------------------------------------------
(* Edits                                                                    *)

\* An edit of the image leaves a directory if the image is one of its type.
LEMMA EditedImg ==
  ASSUME NEW d, IsDir(d), NEW img, IsImg(img)
  PROVE  IsDir([d EXCEPT !.img = img])
<1>1. [d EXCEPT !.img = img] = [wrap |-> d.wrap, img |-> img] /\ IsWrap(d.wrap)
  BY DEF IsDir
<1> QED
  BY <1>1, DirOf

\* An edit of a boot directory leaves one.
LEMMA EditBootSound ==
  ASSUME dir # Null => IsDir(dir), EditBoot
  PROVE  IsDir(dir')
<1> DEFINE img == dir.img
<1>1. IsDir(dir) /\ img.type = "boot" /\ IsBoot(img)
  BY DEF EditBoot, Is, IsDir
<1>2. /\ img = [type |-> img.type, version |-> img.version, page |-> img.page,
                name |-> img.name, cmdline |-> img.cmdline, os |-> img.os, sec |-> img.sec]
      /\ img.version \in 0 .. 5 /\ img.page \in Nat
      /\ IsText(img.name) /\ IsText(img.cmdline) /\ IsOs(img.os)
      /\ img.sec = [s \in Section |-> img.sec[s]] /\ \A s \in Section : IsSeq(img.sec[s])
  BY <1>1 DEF IsBoot
<1>3. ASSUME NEW version \in 0 .. 5, NEW page \in Nat, NEW name, IsText(name),
             NEW cmdline, IsText(cmdline), NEW os, IsOs(os), NEW sec,
             sec = [s \in Section |-> sec[s]], \A s \in Section : IsSeq(sec[s]),
             NEW new, new = [type |-> "boot", version |-> version, page |-> page,
                             name |-> name, cmdline |-> cmdline, os |-> os, sec |-> sec]
      PROVE  IsDir([dir EXCEPT !.img = new])
  <2>1. IsBoot(new) /\ new.type = "boot"
    BY <1>3 DEF IsBoot
  <2> QED
    BY <1>1, <2>1, EditedImg DEF IsImg
<1>4. ASSUME NEW v \in 0 .. 5, Edit([dir EXCEPT !.img.version = v])
      PROVE  IsDir(dir')
  <2> DEFINE new == [img EXCEPT !.version = v]
  <2>1. new = [type |-> "boot", version |-> v, page |-> img.page, name |-> img.name,
               cmdline |-> img.cmdline, os |-> img.os, sec |-> img.sec]
    BY <1>1, <1>2
  <2> HIDE DEF new
  <2>2. IsDir([dir EXCEPT !.img = new])
    BY <1>2, <1>3, <2>1
  <2> QED
    BY <1>4, <2>2 DEF Edit, new
<1>5. ASSUME NEW p \in Page, Edit([dir EXCEPT !.img.page = p])
      PROVE  IsDir(dir')
  <2> DEFINE new == [img EXCEPT !.page = p]
  <2>1. new = [type |-> "boot", version |-> img.version, page |-> p, name |-> img.name,
               cmdline |-> img.cmdline, os |-> img.os, sec |-> img.sec]
        /\ p \in Nat
    BY <1>1, <1>2, ImagesAssumption
  <2> HIDE DEF new
  <2>2. IsDir([dir EXCEPT !.img = new])
    BY <1>2, <1>3, <2>1
  <2> QED
    BY <1>5, <2>2 DEF Edit, new
<1>6. ASSUME NEW t \in Text, Edit([dir EXCEPT !.img.cmdline = t])
      PROVE  IsDir(dir')
  <2> DEFINE new == [img EXCEPT !.cmdline = t]
  <2>1. new = [type |-> "boot", version |-> img.version, page |-> img.page,
               name |-> img.name, cmdline |-> t, os |-> img.os, sec |-> img.sec]
        /\ IsText(t)
    BY <1>1, <1>2, ImagesAssumption
  <2> HIDE DEF new
  <2>2. IsDir([dir EXCEPT !.img = new])
    BY <1>2, <1>3, <2>1
  <2> QED
    BY <1>6, <2>2 DEF Edit, new
<1>7. ASSUME NEW t \in Text, Edit([dir EXCEPT !.img.name = t])
      PROVE  IsDir(dir')
  <2> DEFINE new == [img EXCEPT !.name = t]
  <2>1. new = [type |-> "boot", version |-> img.version, page |-> img.page,
               name |-> t, cmdline |-> img.cmdline, os |-> img.os, sec |-> img.sec]
        /\ IsText(t)
    BY <1>1, <1>2, ImagesAssumption
  <2> HIDE DEF new
  <2>2. IsDir([dir EXCEPT !.img = new])
    BY <1>2, <1>3, <2>1
  <2> QED
    BY <1>7, <2>2 DEF Edit, new
<1>8. ASSUME NEW o \in Os, Edit([dir EXCEPT !.img.os = o])
      PROVE  IsDir(dir')
  <2> DEFINE new == [img EXCEPT !.os = o]
  <2>1. new = [type |-> "boot", version |-> img.version, page |-> img.page,
               name |-> img.name, cmdline |-> img.cmdline, os |-> o, sec |-> img.sec]
        /\ IsOs(o)
    BY <1>1, <1>2, ImagesAssumption
  <2> HIDE DEF new
  <2>2. IsDir([dir EXCEPT !.img = new])
    BY <1>2, <1>3, <2>1
  <2> QED
    BY <1>8, <2>2 DEF Edit, new
<1>9. ASSUME NEW s \in Section, NEW b \in Data, Edit([dir EXCEPT !.img.sec[s] = b])
      PROVE  IsDir(dir')
  <2> DEFINE sec == [img.sec EXCEPT ![s] = b]
             new == [img EXCEPT !.sec = sec]
  <2>1. new = [type |-> "boot", version |-> img.version, page |-> img.page,
               name |-> img.name, cmdline |-> img.cmdline, os |-> img.os, sec |-> sec]
    BY <1>1, <1>2
  <2>2. IsSeq(b)
    BY ImagesAssumption
  <2>3. sec = [t \in Section |-> IF t = s THEN b ELSE img.sec[t]]
    BY <1>2
  <2>4. [dir EXCEPT !.img.sec[s] = b] = [dir EXCEPT !.img = new]
    <3>1. dir = [wrap |-> dir.wrap, img |-> img]
      BY <1>1 DEF IsDir
    <3> QED
      BY <1>2, <3>1
  <2> HIDE DEF new, sec
  <2>5. sec = [t \in Section |-> sec[t]] /\ \A t \in Section : IsSeq(sec[t])
    BY <1>2, <2>2, <2>3
  <2>6. IsDir([dir EXCEPT !.img = new])
    BY <1>2, <1>3, <2>1, <2>5
  <2> QED
    BY <1>9, <2>4, <2>6 DEF Edit
<1> QED
  BY <1>4, <1>5, <1>6, <1>7, <1>8, <1>9 DEF EditBoot

\* So does one of a dtbo directory: a blob, an entry twice, an entry less.
LEMMA EditDtboSound ==
  ASSUME dir # Null => IsDir(dir), EditDtbo
  PROVE  IsDir(dir')
<1> DEFINE img == dir.img
           t == img.entries
           IsEntry(e) == e = [id |-> e.id, comp |-> e.comp, data |-> e.data] /\ IsSeq(e.data)
<1>1. IsDir(dir) /\ img.type = "dtbo" /\ IsDtbo(img)
  BY DEF EditDtbo, Is, IsDir
<1>2. /\ img = [type |-> img.type, version |-> img.version, page |-> img.page,
                acpio |-> img.acpio, entries |-> t]
      /\ img.version \in 0 .. 2 /\ IsSeq(t) /\ \A i \in 1 .. Len(t) : IsEntry(t[i])
      /\ dir = [wrap |-> dir.wrap, img |-> img]
  BY <1>1 DEF IsDtbo, IsDir
<1> DEFINE S == {t[i] : i \in 1 .. Len(t)}
<1>3. t \in Seq(S) /\ Len(t) \in Nat /\ DOMAIN t = 1 .. Len(t)
  BY <1>2, LenProperties DEF IsSeq
<1>4. \A e \in S : IsEntry(e)
  BY <1>2
<1>5. ASSUME NEW version \in 0 .. 2, NEW acpio, NEW T, NEW u \in Seq(T),
             \A e \in T : IsEntry(e),
             NEW new, new = [type |-> "dtbo", version |-> version, page |-> img.page,
                             acpio |-> acpio, entries |-> u]
      PROVE  IsDir([dir EXCEPT !.img = new])
  <2>1. IsSeq(u) /\ \A i \in 1 .. Len(u) : IsEntry(u[i])
    BY <1>5, SeqIsSeq, ElementOfSeq
  <2>2. /\ new.type = "dtbo" /\ new.version = version /\ new.entries = u
        /\ new = [type |-> new.type, version |-> new.version, page |-> new.page,
                  acpio |-> new.acpio, entries |-> new.entries]
    BY <1>5
  <2>3. IsDtbo(new)
    BY <2>1, <2>2 DEF IsDtbo
  <2> QED
    BY <1>1, <2>2, <2>3, EditedImg DEF IsImg
<1> HIDE DEF S, IsEntry
<1>6. ASSUME NEW v \in 0 .. 2, Edit([dir EXCEPT !.img.version = v])
      PROVE  IsDir(dir')
  <2> DEFINE new == [img EXCEPT !.version = v]
  <2>1. new = [type |-> "dtbo", version |-> v, page |-> img.page,
               acpio |-> img.acpio, entries |-> t]
    BY <1>1, <1>2
  <2> HIDE DEF new
  <2>2. IsDir([dir EXCEPT !.img = new])
    BY <1>3, <1>4, <1>5, <2>1
  <2> QED
    BY <1>6, <2>2 DEF Edit, new
<1>7. ASSUME Edit([dir EXCEPT !.img.acpio = ~@])
      PROVE  IsDir(dir')
  <2> DEFINE new == [img EXCEPT !.acpio = ~@]
  <2>1. new = [type |-> "dtbo", version |-> img.version, page |-> img.page,
               acpio |-> ~img.acpio, entries |-> t]
    BY <1>1, <1>2
  <2> HIDE DEF new
  <2>2. IsDir([dir EXCEPT !.img = new])
    BY <1>2, <1>3, <1>4, <1>5, <2>1
  <2> QED
    BY <1>7, <2>2 DEF Edit, new
<1>8. ASSUME NEW T, NEW u \in Seq(T), \A e \in T : IsEntry(e),
             Edit([dir EXCEPT !.img.entries = u])
      PROVE  IsDir(dir')
  <2> DEFINE new == [img EXCEPT !.entries = u]
  <2>1. new = [type |-> "dtbo", version |-> img.version, page |-> img.page,
               acpio |-> img.acpio, entries |-> u]
    BY <1>1, <1>2
  <2> HIDE DEF new
  <2>2. IsDir([dir EXCEPT !.img = new])
    BY <1>2, <1>5, <1>8, <2>1
  <2> QED
    BY <1>8, <2>2 DEF Edit, new
<1>9. ASSUME NEW i \in DOMAIN t, NEW e, IsEntry(e),
             Edit([dir EXCEPT !.img.entries = [t EXCEPT ![i] = e]])
      PROVE  IsDir(dir')
  <2> DEFINE u == [t EXCEPT ![i] = e]
             T == S \cup {e}
  <2>1. u \in Seq(T)
    <3>1. t \in Seq(T)
      <4>1. \A j \in 1 .. Len(t) : t[j] \in T
        BY <1>3, ElementOfSeq
      <4> HIDE DEF T
      <4> QED
        BY <1>3, <4>1, InSeq
    <3>2. e \in T
      OBVIOUS
    <3> HIDE DEF T
    <3> QED
      BY <1>3, <3>1, <3>2, ExceptSeq
  <2>2. \A x \in T : IsEntry(x)
    BY <1>4, <1>9
  <2> HIDE DEF T, u
  <2> QED
    BY <1>8, <1>9, <2>1, <2>2 DEF u
<1>10. ASSUME NEW i \in DOMAIN t, NEW b \in Data, Edit([dir EXCEPT !.img.entries[i].data = b])
       PROVE  IsDir(dir')
  <2> DEFINE e == [t[i] EXCEPT !.data = b]
  <2>1. IsSeq(b)
    BY ImagesAssumption
  <2>2. IsEntry(e)
    <3>1. t[i] = [id |-> t[i].id, comp |-> t[i].comp, data |-> t[i].data]
      BY <1>2, <1>3 DEF IsEntry
    <3>2. e = [id |-> t[i].id, comp |-> t[i].comp, data |-> b]
      BY <3>1
    <3> HIDE DEF e
    <3> QED
      BY <2>1, <3>2 DEF IsEntry
  <2>3. [dir EXCEPT !.img.entries[i].data = b]
          = [dir EXCEPT !.img.entries = [t EXCEPT ![i] = e]]
    BY <1>2, <1>3
  <2> HIDE DEF e
  <2> QED
    BY <1>9, <1>10, <2>2, <2>3
<1>11. ASSUME NEW i \in DOMAIN t, NEW c \in 0 .. 3, Edit([dir EXCEPT !.img.entries[i].comp = c])
       PROVE  IsDir(dir')
  <2> DEFINE e == [t[i] EXCEPT !.comp = c]
  <2>2. IsEntry(e)
    <3>1. t[i] = [id |-> t[i].id, comp |-> t[i].comp, data |-> t[i].data] /\ IsSeq(t[i].data)
      BY <1>2, <1>3 DEF IsEntry
    <3>2. e = [id |-> t[i].id, comp |-> c, data |-> t[i].data]
      BY <3>1
    <3> HIDE DEF e
    <3> QED
      BY <3>1, <3>2 DEF IsEntry
  <2>3. [dir EXCEPT !.img.entries[i].comp = c]
          = [dir EXCEPT !.img.entries = [t EXCEPT ![i] = e]]
    BY <1>2, <1>3
  <2> HIDE DEF e
  <2> QED
    BY <1>9, <1>11, <2>2, <2>3
<1>12. ASSUME NEW i \in DOMAIN t, Edit([dir EXCEPT !.img.entries = Append(@, @[i])])
       PROVE  IsDir(dir')
  <2>1. Append(t, t[i]) \in Seq(S)
    BY <1>3, ElementOfSeq, AppendProperties
  <2>2. [dir EXCEPT !.img.entries = Append(@, @[i])]
          = [dir EXCEPT !.img.entries = Append(t, t[i])]
    BY <1>2
  <2> QED
    BY <1>4, <1>8, <1>12, <2>1, <2>2
<1>13. ASSUME NEW i \in DOMAIN t,
              Edit([dir EXCEPT !.img.entries
                                 = SubSeq(@, 1, i - 1) \o SubSeq(@, i + 1, Len(@))])
       PROVE  IsDir(dir')
  <2> DEFINE u == SubSeq(t, 1, i - 1)
             v == SubSeq(t, i + 1, Len(t))
  <2>1. u \in Seq(S) /\ v \in Seq(S)
    <3>1. /\ i - 1 \in Nat /\ i - 1 <= Len(t) /\ i + 1 \in Nat /\ 1 <= i + 1
          /\ 1 \in Nat /\ 1 <= 1 /\ Len(t) <= Len(t)
      BY <1>3
    <3> QED
      BY <1>3, <3>1, PartOfText
  <2>2. u \o v \in Seq(S)
    BY <2>1, ConcatProperties
  <2>3. [dir EXCEPT !.img.entries = SubSeq(@, 1, i - 1) \o SubSeq(@, i + 1, Len(@))]
          = [dir EXCEPT !.img.entries = u \o v]
    BY <1>2
  <2> HIDE DEF u, v
  <2> QED
    BY <1>4, <1>8, <1>13, <2>2, <2>3
<1> HIDE DEF t, img
<1> QED
  BY <1>6, <1>7, <1>10, <1>11, <1>12, <1>13 DEF EditDtbo, t, img

\* So does a device tree in place of another, or one more.
LEMMA EditDtbSound ==
  ASSUME dir # Null => IsDir(dir), EditDtb
  PROVE  IsDir(dir')
<1> DEFINE img == dir.img
           t == img.blobs
           S == {t[i] : i \in 1 .. Len(t)}
<1>1. IsDir(dir) /\ img.type = "dtb" /\ IsDtb(img)
  BY DEF EditDtb, Is, IsDir
<1>2. /\ img = [type |-> img.type, blobs |-> t]
      /\ IsSeq(t) /\ t # <<>> /\ \A i \in 1 .. Len(t) : IsSeq(t[i])
      /\ dir = [wrap |-> dir.wrap, img |-> img]
  BY <1>1 DEF IsDtb, IsDir
<1>3. t \in Seq(S) /\ Len(t) \in Nat /\ DOMAIN t = 1 .. Len(t) /\ \A b \in S : IsSeq(b)
  <2>1. t \in Seq(S)
    BY <1>2 DEF IsSeq
  <2>2. \A b \in S : IsSeq(b)
    BY <1>2
  <2> HIDE DEF S, t
  <2> QED
    BY <2>1, <2>2, LenProperties
<1>4. \A b \in Tree : IsSeq(b)
  BY ImagesAssumption
<1>5. ASSUME NEW T, NEW u \in Seq(T), u # <<>>, \A b \in T : IsSeq(b),
             Edit([dir EXCEPT !.img.blobs = u])
      PROVE  IsDir(dir')
  <2> DEFINE new == [img EXCEPT !.blobs = u]
  <2>1. new = [type |-> "dtb", blobs |-> u]
    BY <1>1, <1>2
  <2>2. IsSeq(u) /\ \A i \in 1 .. Len(u) : IsSeq(u[i])
    BY <1>5, SeqIsSeq, ElementOfSeq
  <2> HIDE DEF new
  <2>3. IsDtb(new) /\ new.type = "dtb"
    BY <1>5, <2>1, <2>2 DEF IsDtb
  <2>4. IsDir([dir EXCEPT !.img = new])
    BY <1>1, <2>3, EditedImg DEF IsImg
  <2> QED
    BY <1>5, <2>4 DEF Edit, new
<1> HIDE DEF S
<1> DEFINE T == S \cup Tree
<1>6. t \in Seq(T) /\ \A b \in T : IsSeq(b)
  <2>1. \A j \in 1 .. Len(t) : t[j] \in T
    BY <1>3, ElementOfSeq
  <2>2. \A b \in T : IsSeq(b)
    BY <1>3, <1>4
  <2> HIDE DEF T
  <2> QED
    BY <1>3, <2>1, <2>2, InSeq
<1>7. Tree \subseteq T /\ Len(t) # 0
  BY <1>2, <1>3, EmptySeq
<1> HIDE DEF T
<1>8. ASSUME NEW i \in DOMAIN t, NEW b \in Tree, Edit([dir EXCEPT !.img.blobs[i] = b])
      PROVE  IsDir(dir')
  <2> DEFINE u == [t EXCEPT ![i] = b]
  <2>1. u \in Seq(T) /\ Len(u) = Len(t)
    BY <1>3, <1>6, <1>7, ExceptSeq
  <2>2. u # <<>>
    <3>1. Len(<<>>) = 0
      OBVIOUS
    <3> HIDE DEF u
    <3> QED
      BY <1>7, <2>1, <3>1
  <2>3. [dir EXCEPT !.img.blobs[i] = b] = [dir EXCEPT !.img.blobs = u]
    BY <1>2
  <2> HIDE DEF u
  <2> QED
    BY <1>5, <1>6, <1>8, <2>1, <2>2, <2>3
<1>9. ASSUME NEW b \in Tree, Edit([dir EXCEPT !.img.blobs = Append(@, b)])
      PROVE  IsDir(dir')
  <2> DEFINE u == Append(t, b)
  <2>1. u \in Seq(T) /\ Len(u) = Len(t) + 1
    BY <1>6, <1>7, AppendProperties
  <2>2. u # <<>>
    <3>1. Len(<<>>) = 0
      OBVIOUS
    <3> HIDE DEF u
    <3> QED
      BY <1>3, <2>1, <3>1
  <2>3. [dir EXCEPT !.img.blobs = Append(@, b)] = [dir EXCEPT !.img.blobs = u]
    BY <1>2
  <2> HIDE DEF u
  <2> QED
    BY <1>5, <1>6, <1>9, <2>1, <2>2, <2>3
<1> HIDE DEF t, img
<1> QED
  BY <1>8, <1>9 DEF EditDtb, t, img

\* So does another name, attribute or data.
LEMMA EditUImageSound ==
  ASSUME dir # Null => IsDir(dir), EditUImage
  PROVE  IsDir(dir')
<1> DEFINE img == dir.img
<1>1. IsDir(dir) /\ img.type = "uimage" /\ IsUImage(img)
  BY DEF EditUImage, Is, IsDir
<1>2. /\ img = [type |-> img.type, name |-> img.name, attr |-> img.attr, data |-> img.data]
      /\ IsText(img.name) /\ IsSeq(img.data)
      /\ img.attr = [a \in DOMAIN Named |-> img.attr[a]]
      /\ \A a \in DOMAIN Named : img.attr[a] \in Named[a] \cup {Unknown}
      /\ dir = [wrap |-> dir.wrap, img |-> img]
  BY <1>1 DEF IsUImage, IsDir
<1>3. ASSUME NEW name, IsText(name), NEW data, IsSeq(data),
             NEW attr, attr = [a \in DOMAIN Named |-> attr[a]],
             \A a \in DOMAIN Named : attr[a] \in Named[a] \cup {Unknown},
             NEW new, new = [type |-> "uimage", name |-> name, attr |-> attr, data |-> data]
      PROVE  IsDir([dir EXCEPT !.img = new])
  <2>1. /\ new.type = "uimage" /\ new.name = name /\ new.attr = attr /\ new.data = data
        /\ new = [type |-> new.type, name |-> new.name, attr |-> new.attr, data |-> new.data]
    BY <1>3
  <2>2. IsUImage(new)
    BY <1>3, <2>1 DEF IsUImage
  <2> QED
    BY <1>1, <2>1, <2>2, EditedImg DEF IsImg
<1>4. ASSUME NEW t \in Text, Edit([dir EXCEPT !.img.name = t])
      PROVE  IsDir(dir')
  <2> DEFINE new == [img EXCEPT !.name = t]
  <2>1. new = [type |-> "uimage", name |-> t, attr |-> img.attr, data |-> img.data]
    BY <1>1, <1>2
  <2>2. IsText(t)
    BY ImagesAssumption
  <2> HIDE DEF new
  <2>3. IsDir([dir EXCEPT !.img = new])
    BY <1>2, <1>3, <2>1, <2>2
  <2> QED
    BY <1>4, <2>3 DEF Edit, new
<1>5. ASSUME NEW a \in DOMAIN Named, NEW n \in Named[a] \cup {Unknown},
             Edit([dir EXCEPT !.img.attr[a] = n])
      PROVE  IsDir(dir')
  <2> DEFINE attr == [img.attr EXCEPT ![a] = n]
             new == [img EXCEPT !.attr = attr]
  <2>1. new = [type |-> "uimage", name |-> img.name, attr |-> attr, data |-> img.data]
    BY <1>1, <1>2
  <2>2. attr = [b \in DOMAIN Named |-> IF b = a THEN n ELSE img.attr[b]]
    BY <1>2
  <2>3. [dir EXCEPT !.img.attr[a] = n] = [dir EXCEPT !.img = new]
    BY <1>2
  <2> HIDE DEF new, attr
  <2>4. /\ attr = [b \in DOMAIN Named |-> attr[b]]
        /\ \A b \in DOMAIN Named : attr[b] \in Named[b] \cup {Unknown}
    BY <1>2, <2>2
  <2>5. IsDir([dir EXCEPT !.img = new])
    BY <1>2, <1>3, <2>1, <2>4
  <2> QED
    BY <1>5, <2>3, <2>5 DEF Edit
<1>6. ASSUME NEW b \in Data, Edit([dir EXCEPT !.img.data = b])
      PROVE  IsDir(dir')
  <2> DEFINE new == [img EXCEPT !.data = b]
  <2>1. new = [type |-> "uimage", name |-> img.name, attr |-> img.attr, data |-> b]
    BY <1>1, <1>2
  <2>2. IsSeq(b)
    BY ImagesAssumption
  <2> HIDE DEF new
  <2>3. IsDir([dir EXCEPT !.img = new])
    BY <1>2, <1>3, <2>1, <2>2
  <2> QED
    BY <1>6, <2>3 DEF Edit, new
<1> HIDE DEF img
<1> QED
  BY <1>4, <1>5, <1>6 DEF EditUImage, img

\* So does another wrapper.
LEMMA EditWrapSound ==
  ASSUME dir # Null => IsDir(dir), EditWrap
  PROVE  IsDir(dir')
<1>1. PICK w \in Wraps : Edit([dir EXCEPT !.wrap = w])
  BY DEF EditWrap
<1>2. IsDir(dir) /\ IsWrap(w)
  BY ImagesAssumption DEF EditWrap
<1>3. [dir EXCEPT !.wrap = w] = [wrap |-> w, img |-> dir.img] /\ IsImg(dir.img)
  BY <1>2 DEF IsDir, IsImg
<1>4. IsDir([wrap |-> w, img |-> dir.img])
  BY <1>2, <1>3, DirOf
<1> QED
  BY <1>1, <1>3, <1>4 DEF Edit

-----------------------------------------------------------------------------
(* Repack once more                                                         *)

\* A text that fits its field comes back as it is.
LEMMA TextThatFits ==
  ASSUME NEW t, IsText(t), NEW n \in Nat, Len(t) <= n
  PROVE  Field(t, n) = t /\ Loaded(Field(t, n)) = t
<1> DEFINE S == {t[i] : i \in 1 .. Len(t)}
<1>1. t \in Seq(S) /\ Loaded(t) = t
  BY DEF IsText, IsSeq
<1> HIDE DEF S
<1>2. Len(t) \in Nat
  BY <1>1, LenProperties
<1>3. /\ Field(t, n) \in Seq(S) /\ Len(Field(t, n)) = Len(t)
      /\ \A i \in 1 .. Len(t) : Field(t, n)[i] = t[i]
  BY <1>1, <1>2, FieldFacts
<1>4. Field(t, n) = t
  BY <1>1, <1>3, SeqEqual
<1> QED
  BY <1>1, <1>4

\* BootImage::build looks at a page size, at the header, and at what it writes.
LEMMA BuildOfSame ==
  ASSUME NEW a, NEW b, BootHeader(a) = BootHeader(b), BuiltPage(a) = BuiltPage(b),
         a.version = b.version, \A s \in Section : Written(a, s) = Written(b, s)
  PROVE  BuildBoot(a) = BuildBoot(b)
<1>1. \A s \in {"kernel", "ramdisk", "second", "recovery_dtbo", "dtb", "boot_signature"} :
        Written(a, s) = Written(b, s)
  BY DEF Section
<1> QED
  BY <1>1 DEF BuildBoot

\* What an image carries of a boot directory whose texts fit.
BootKept(d) ==
  [type |-> "boot", version |-> d.version,
   page |-> IF d.version > 2 \/ d.page = 0 THEN DefaultPage ELSE d.page,
   name |-> IF d.version > 2 THEN <<>> ELSE d.name,
   cmdline |-> d.cmdline,
   os |-> OsKept(d.os),
   sec |-> [s \in Section |-> IF s \in SectionsOf(d.version) THEN d.sec[s] ELSE <<>>]]

LEMMA BootCarried ==
  ASSUME NEW d, IsBoot(d), d.type = "boot",
         Len(d.name) <= NameLen, Len(d.cmdline) <= ArgsLen + ExtraLen
  PROVE  SaidImg(d) = BootKept(d)
<1>1. /\ IsText(d.name) /\ IsText(d.cmdline)
      /\ d = [type |-> "boot", version |-> d.version, page |-> d.page, name |-> d.name,
              cmdline |-> d.cmdline, os |-> d.os, sec |-> d.sec]
  BY DEF IsBoot
<1>2. /\ Loaded(Field(d.name, NameLen)) = d.name
      /\ Loaded(Field(d.cmdline, ArgsLen + ExtraLen)) = d.cmdline
  <2>1. NameLen \in Nat /\ ArgsLen + ExtraLen \in Nat
    BY BootAssumption
  <2> QED
    BY <1>1, <2>1, TextThatFits
<1>3. SaidImg(d)
        = [[d EXCEPT
            !.page = IF d.version > 2 \/ @ = 0 THEN DefaultPage ELSE @,
            !.name = IF d.version > 2 THEN <<>> ELSE Loaded(Field(@, NameLen)),
            !.cmdline = Loaded(Field(@, ArgsLen + ExtraLen)),
            !.sec = [s \in Section |->
                       IF s \in SectionsOf(d.version) THEN @[s] ELSE <<>>]]
            EXCEPT !.os = OsKept(@)]
  BY DEF SaidImg, CarriedImg
<1> QED
  BY <1>1, <1>2, <1>3 DEF BootKept

\* Of a boot directory whose texts fit, the defaults that unpack records come to the
\* same image: page size, os version, and the sections a version has not.
LEMMA BootOfCarried ==
  ASSUME NEW d, IsBoot(d), d.type = "boot", d.version \in 0 .. 4,
         Len(d.name) <= NameLen, Len(d.cmdline) <= ArgsLen + ExtraLen,
         d.version = 3 => d.sec.boot_signature = <<>>
  PROVE  BuildBoot(SaidImg(d)) = BuildBoot(d)
<1> DEFINE v == d.version
           page == IF v > 2 \/ d.page = 0 THEN DefaultPage ELSE d.page
           name == IF v > 2 THEN <<>> ELSE d.name
           os == OsKept(d.os)
           sec == [s \in Section |-> IF s \in SectionsOf(v) THEN d.sec[s] ELSE <<>>]
           c == [type |-> "boot", version |-> v, page |-> page, name |-> name,
                 cmdline |-> d.cmdline, os |-> os, sec |-> sec]
<1>1. d.page \in Nat /\ IsOs(d.os)
  BY DEF IsBoot
<1>2. SaidImg(d) = c
  BY BootCarried DEF BootKept
<1>3. /\ c.version = v /\ c.page = page /\ c.name = name /\ c.cmdline = d.cmdline
      /\ c.os = os /\ c.sec = sec
  OBVIOUS
<1>4. \A s \in Section : sec[s] = IF s \in SectionsOf(v) THEN d.sec[s] ELSE <<>>
  OBVIOUS
<1>5. Packed(OsParsed(os)) = Packed(OsParsed(d.os))
  BY <1>1, OsReadsBack
<1> HIDE DEF c, sec, os
<1>6. BuiltPage(c) = BuiltPage(d)
  BY <1>1, <1>3, BootAssumption DEF BuiltPage
<1>7. \A s \in Section : Written(c, s) = Written(d, s)
  BY <1>3, <1>4 DEF Written
<1>8. /\ v <= 2 => /\ sec["kernel"] = d.sec["kernel"] /\ sec["ramdisk"] = d.sec["ramdisk"]
                   /\ sec["second"] = d.sec["second"]
      /\ v \in {1, 2} => sec["recovery_dtbo"] = d.sec["recovery_dtbo"]
      /\ v = 2 => sec["dtb"] = d.sec["dtb"]
  BY <1>4 DEF Section, SectionsOf
<1>9. BootId(c) = BootId(d)
  BY <1>3, <1>8 DEF BootId
<1>10. DtboOffset(c) = DtboOffset(d)
  <2>1. CASE v \in {1, 2}
    BY <1>3, <1>6, <1>8, <2>1 DEF DtboOffset
  <2>2. CASE v \notin {1, 2}
    BY <1>3, <2>2 DEF DtboOffset
  <2> QED
    BY <2>1, <2>2
<1>11. [s \in Section |-> IF s \in SectionsOf(c.version) THEN Len(c.sec[s]) ELSE 0]
         = [s \in Section |-> IF s \in SectionsOf(d.version) THEN Len(d.sec[s]) ELSE 0]
  BY <1>3, <1>4
<1>12. BootHeader(c) = BootHeader(d)
  BY <1>3, <1>5, <1>6, <1>9, <1>10, <1>11 DEF BootHeader
<1> QED
  BY <1>2, <1>3, <1>6, <1>7, <1>12, BuildOfSame

\* So does the number 0 in place of a compression without a name.
LEMMA UImageOfCarried ==
  ASSUME NEW d, IsUImage(d), d.type = "uimage", Len(d.name) <= UImageNameLen
  PROVE  BuildUImage(SaidImg(d)) = BuildUImage(d)
<1> DEFINE c == SaidImg(d)
           attr == [d.attr EXCEPT !.comp = IF @ = Unknown THEN 0 ELSE @]
<1>1. /\ d = [type |-> "uimage", name |-> d.name, attr |-> d.attr, data |-> d.data]
      /\ d.attr = [a \in DOMAIN Named |-> d.attr[a]]
      /\ IsText(d.name)
  BY DEF IsUImage
<1>2. Loaded(Field(d.name, UImageNameLen)) = d.name
  BY <1>1, TextThatFits, UImageAssumption
<1>3. c = [d EXCEPT !.name = Loaded(Field(@, UImageNameLen)),
                    !.attr.comp = IF @ = Unknown THEN 0 ELSE @]
  BY DEF SaidImg, CarriedImg
<1>4. c = [type |-> "uimage", name |-> d.name, attr |-> attr, data |-> d.data]
  BY <1>1, <1>2, <1>3
<1> HIDE DEF c
<1>5. c.name = d.name /\ c.attr = attr /\ c.data = d.data
  BY <1>4
<1>6. ASSUME NEW a \in DOMAIN Named PROVE Lookup(a, attr[a]) = Lookup(a, d.attr[a])
  <2>1. CASE a = "comp" /\ d.attr[a] = Unknown
    <3>1. attr[a] = 0
      BY <1>1, <1>6, <2>1
    <3>2. (0 .. LastNumber["comp"]) \ Named["comp"] = {}
      BY DEF LastNumber, Named
    <3>3. Lookup("comp", Unknown) = 0
      BY <3>2 DEF Lookup
    <3>4. Lookup("comp", 0) = 0
      BY UImageAssumption DEF Lookup
    <3> QED
      BY <2>1, <3>1, <3>3, <3>4
  <2>2. CASE ~(a = "comp" /\ d.attr[a] = Unknown)
    <3>1. attr[a] = d.attr[a]
      BY <1>1, <1>6, <2>2
    <3> QED
      BY <3>1
  <2> QED
    BY <2>1, <2>2
<1>7. [field \in DOMAIN Named |-> Lookup(field, c.attr[field])]
        = [field \in DOMAIN Named |-> Lookup(field, d.attr[field])]
  BY <1>5, <1>6
<1>8. UImageHeader(c) = UImageHeader(d)
  BY <1>5, <1>7 DEF UImageHeader
<1> QED
  BY <1>5, <1>8 DEF BuildUImage, c

\* What an image has lost does not count when it is built again.
LEMMA ImageOfCarried ==
  ASSUME NEW d, IsDir(d), Fits(d)
  PROVE  RepackImage(SaidImg(d.img)) = RepackImage(d.img)
<1> DEFINE img == d.img
           c == SaidImg(img)
<1>1. CASE img.type = "boot"
  <2>1. /\ IsBoot(img) /\ img.version \in 0 .. 4
        /\ Len(img.name) <= NameLen /\ Len(img.cmdline) <= ArgsLen + ExtraLen
        /\ img.version = 3 => img.sec.boot_signature = <<>>
    BY <1>1 DEF IsDir, Fits, Sane, Buildable
  <2>2. BuildBoot(c) = BuildBoot(img)
    BY <1>1, <2>1, BootOfCarried
  <2>3. c.type = "boot"
    BY <1>1, <2>1 DEF SaidImg, CarriedImg, IsBoot
  <2> QED
    BY <1>1, <2>2, <2>3 DEF RepackImage
<1>2. CASE img.type = "uimage"
  <2>1. IsUImage(img) /\ Len(img.name) <= UImageNameLen
    BY <1>2 DEF IsDir, Fits
  <2>2. BuildUImage(c) = BuildUImage(img)
    BY <1>2, <2>1, UImageOfCarried
  <2>3. c.type = "uimage"
    BY <1>2, <2>1 DEF SaidImg, CarriedImg, IsUImage
  <2> QED
    BY <1>2, <2>2, <2>3 DEF RepackImage
<1>3. CASE img.type \in {"dtbo", "dtb"}
  BY <1>3 DEF SaidImg, CarriedImg
<1> QED
  BY <1>1, <1>2, <1>3 DEF IsDir

\* The wrapper is the same.
LEMMA RepackOfCarried ==
  ASSUME NEW d, IsDir(d), Fits(d)
  PROVE  Repack(Said(d)) = Repack(d)
<1> DEFINE c == SaidImg(d.img)
<1>1. d = [wrap |-> d.wrap, img |-> d.img]
  BY DEF IsDir
<1>2. RepackImage(c) = RepackImage(d.img)
  BY ImageOfCarried
<1> HIDE DEF c
<1>3. Said(d) = [wrap |-> d.wrap, img |-> c]
  BY <1>1 DEF Said, c
<1>4. Said(d).wrap = d.wrap /\ Said(d).img = c
  BY <1>3
<1> QED
  BY <1>2, <1>4 DEF Repack

\* And what an image carries fits again.
LEMMA CarriedFits ==
  ASSUME NEW d, IsDir(d), Fits(d)
  PROVE  Fits(Said(d))
<1> DEFINE img == d.img
           c == SaidImg(img)
<1>1. d = [wrap |-> d.wrap, img |-> img]
  BY DEF IsDir
<1>2. RepackImage(c) = RepackImage(img)
  BY ImageOfCarried
<1>3. /\ c.type = img.type
      /\ img.type = "boot" =>
           /\ c.version = img.version /\ Len(c.cmdline) <= ArgsLen + ExtraLen
           /\ Len(c.name) <= NameLen
           /\ c.version = 3 => c.sec.boot_signature = <<>>
      /\ img.type = "dtbo" => c.version = img.version
      /\ img.type = "dtb" => c.blobs = img.blobs
      /\ img.type = "uimage" => Len(c.name) <= UImageNameLen
  <2>1. CASE img.type = "boot"
    <3>1. /\ IsBoot(img) /\ img.version \in 0 .. 4
          /\ Len(img.name) <= NameLen /\ Len(img.cmdline) <= ArgsLen + ExtraLen
      BY <2>1 DEF IsDir, Fits, Sane, Buildable
    <3>2. c = BootKept(img)
      BY <2>1, <3>1, BootCarried
    <3>3. Len(<<>>) <= NameLen
      BY BootAssumption
    <3> HIDE DEF c
    <3>4. /\ c.type = "boot" /\ c.version = img.version /\ c.cmdline = img.cmdline
          /\ c.name = IF img.version > 2 THEN <<>> ELSE img.name
          /\ c.sec["boot_signature"]
               = IF "boot_signature" \in SectionsOf(img.version)
                   THEN img.sec["boot_signature"] ELSE <<>>
      BY <3>2 DEF BootKept, Section
    <3>5. c.version = 3 => c.sec["boot_signature"] = <<>>
      BY <3>4 DEF SectionsOf
    <3> QED
      BY <2>1, <3>1, <3>3, <3>4, <3>5
  <2>2. CASE img.type = "uimage"
    <3>1. /\ IsUImage(img) /\ Len(img.name) <= UImageNameLen
          /\ img = [type |-> img.type, name |-> img.name, attr |-> img.attr,
                    data |-> img.data]
      BY <2>2 DEF IsDir, Fits, IsUImage
    <3>2. Loaded(Field(img.name, UImageNameLen)) = img.name
      BY <3>1, TextThatFits, UImageAssumption DEF IsUImage
    <3>3. c = [img EXCEPT !.name = Loaded(Field(@, UImageNameLen)),
                          !.attr.comp = IF @ = Unknown THEN 0 ELSE @]
      BY <2>2 DEF SaidImg, CarriedImg
    <3>4. c.name = img.name /\ c.type = img.type
      BY <3>1, <3>2, <3>3
    <3> QED
      BY <2>2, <3>1, <3>4
  <2>3. CASE img.type \in {"dtbo", "dtb"}
    BY <2>3 DEF SaidImg, CarriedImg
  <2> QED
    BY <2>1, <2>2, <2>3 DEF IsDir
<1> HIDE DEF c
<1>4. Said(d) = [wrap |-> d.wrap, img |-> c]
  BY <1>1 DEF Said, c
<1> DEFINE e == Said(d)
<1>5. e.wrap = d.wrap /\ e.img = c
  BY <1>4
<1> HIDE DEF e
<1>6. Sane(e)
  BY <1>2, <1>3, <1>5 DEF Fits, Sane, Buildable
<1> QED
  BY <1>3, <1>5, <1>6 DEF Fits, e

-----------------------------------------------------------------------------
(* The rounds                                                               *)

\* The directory is one, the output was built from it, and it is what unpack
\* recorded of the file, from which repack builds an own file again.
IInv ==
  /\ dir # Null => IsDir(dir)
  /\ edits \in 0 .. MaxEdits /\ result \in {"none", "done", "error"}
  /\ out # Null => dir # Null /\ Buildable(dir.img) /\ out = Repack(dir)
  /\ file # Null => dir # Null /\ IsSeq(file) /\ Accepted(file) /\ dir = Unpack(file)
  /\ own => file # Null /\ file = Repack(dir) /\ Fits(dir)

\* A directory is there.
LEMMA DirIsNotNull ==
  ASSUME KindsApart, NEW d, IsDir(d)
  PROVE  d # Null
<1>1. d = [wrap |-> d.wrap, img |-> d.img]
  BY DEF IsDir
<1> QED
  BY <1>1 DEF KindsApart

\* An edit that leaves a directory keeps the invariant.
LEMMA AnyEditIsSound ==
  ASSUME IInv, NEW d, Edit(d), IsDir(dir')
  PROVE  IInv'
<1>1. edits' \in 0 .. MaxEdits
  BY ImagesAssumption DEF IInv, Edit
<1> QED
  BY <1>1 DEF Edit, IInv

\* So does any file at hand, readable or not.
LEMMA UnpackImageStep ==
  ASSUME KindsApart, IInv, UnpackImage
  PROVE  IInv'
<1>1. PICK f \in Files :
        /\ UnpackFile(f)
        /\ IF Accepted(f) THEN own' = FALSE /\ edits' = 0 ELSE UNCHANGED <<own, edits>>
  BY DEF UnpackImage
<1>2. CASE Accepted(f)
  <2>1. IsSeq(f)
    BY ImagesAssumption
  <2>2. IsDir(Unpack(f)) /\ Unpack(f) # Null
    BY <1>2, <2>1, UnpackedSound, DirIsNotNull
  <2>3. 0 \in 0 .. MaxEdits
    BY ImagesAssumption
  <2> QED
    BY <1>1, <1>2, <2>1, <2>2, <2>3 DEF UnpackFile, IInv
<1>3. CASE ~Accepted(f)
  BY <1>1, <1>3 DEF UnpackFile, IInv
<1> QED
  BY <1>2, <1>3

\* What repack wrote of a directory whose texts fit is rebuilt from what unpack
\* records of it.
LEMMA RebuiltFromOutput ==
  ASSUME KindsApart, NEW d, IsDir(d), Fits(d)
  PROVE  LET e == Unpack(Repack(d))
         IN  Fits(e) /\ Repack(e) = Repack(d)
<1>1. Sane(d)
  BY DEF Fits
<1>2. Unpack(Repack(d)) = Said(d)
  BY <1>1, RepackedReadsBack
<1> QED
  BY <1>2, RepackOfCarried, CarriedFits

\* So does what repack made, unpacked over the directory it was made from.
LEMMA UnpackOutputStep ==
  ASSUME KindsApart, IInv, UnpackOutput
  PROVE  IInv'
<1>1. /\ out # Null /\ UnpackFile(out) /\ edits' = edits
      /\ own' = IF Accepted(out) THEN Fits(dir) ELSE own
  BY DEF UnpackOutput
<1>2. IsDir(dir) /\ Buildable(dir.img) /\ out = Repack(dir)
  BY <1>1 DEF IInv
<1>3. IsSeq(out)
  BY <1>2, RepackedIsSeq
<1>4. CASE Accepted(out)
  <2>1. IsDir(Unpack(out)) /\ Unpack(out) # Null
    BY <1>3, <1>4, UnpackedSound, DirIsNotNull
  <2>2. Fits(dir) => Fits(Unpack(out)) /\ Repack(Unpack(out)) = out
    BY <1>2, RebuiltFromOutput
  <2> QED
    BY <1>1, <1>3, <1>4, <2>1, <2>2 DEF UnpackFile, IInv
<1>5. CASE ~Accepted(out)
  BY <1>1, <1>5 DEF UnpackFile, IInv
<1> QED
  BY <1>4, <1>5

\* The inductive invariant of the rounds: any file, any edit, in any order.
THEOREM BuiltFromDir ==
  ASSUME KindsApart
  PROVE  Spec => []IInv
<1>1. Init => IInv
  BY ImagesAssumption DEF Init, IInv
<1>2. IInv /\ [Next]_vars => IInv'
  <2> SUFFICES ASSUME IInv, [Next]_vars PROVE IInv'
    OBVIOUS
  <2>0. dir # Null => IsDir(dir)
    BY DEF IInv
  <2>1. CASE UnpackImage
    BY <2>1, UnpackImageStep
  <2>2. CASE UnpackOutput
    BY <2>2, UnpackOutputStep
  <2>3. CASE RepackDir
    BY <2>3 DEF RepackDir, IInv
  <2>4. CASE EditBoot
    <3>1. (\E d : Edit(d)) /\ IsDir(dir')
      BY <2>0, <2>4, EditBootSound DEF EditBoot
    <3> QED
      BY <3>1, AnyEditIsSound
  <2>5. CASE EditDtbo
    <3>1. (\E d : Edit(d)) /\ IsDir(dir')
      BY <2>0, <2>5, EditDtboSound DEF EditDtbo
    <3> QED
      BY <3>1, AnyEditIsSound
  <2>6. CASE EditDtb
    <3>1. (\E d : Edit(d)) /\ IsDir(dir')
      BY <2>0, <2>6, EditDtbSound DEF EditDtb
    <3> QED
      BY <3>1, AnyEditIsSound
  <2>7. CASE EditUImage
    <3>1. (\E d : Edit(d)) /\ IsDir(dir')
      BY <2>0, <2>7, EditUImageSound DEF EditUImage
    <3> QED
      BY <3>1, AnyEditIsSound
  <2>8. CASE EditWrap
    <3>1. (\E d : Edit(d)) /\ IsDir(dir')
      BY <2>0, <2>8, EditWrapSound DEF EditWrap
    <3> QED
      BY <3>1, AnyEditIsSound
  <2>9. CASE UNCHANGED vars
    BY <2>9 DEF vars, IInv
  <2> QED
    BY <2>1, <2>2, <2>3, <2>4, <2>5, <2>6, <2>7, <2>8, <2>9 DEF Next
<1> QED
  BY <1>1, <1>2, PTL DEF Spec

\* Whatever is unpacked and edited, the directory holds what a manifest and its
\* files can hold.
THEOREM TypeCorrect ==
  ASSUME KindsApart
  PROVE  Spec => []TypeOK
<1>1. IInv => TypeOK
  BY DEF IInv, TypeOK
<1> QED
  BY <1>1, BuiltFromDir, PTL

\* What repack makes of a sane directory, of any type, wrapped or not, passes
\* every check of unpack, and is taken for one of its type.
THEOREM BuiltIsAccepted ==
  ASSUME KindsApart
  PROVE  Spec => []OutputAccepted
<1>1. IInv => OutputAccepted
  <2> SUFFICES ASSUME IInv, out # Null, Sane(dir)
               PROVE  Accepted(out) /\ Detect(StripDhtb(out).inner) = dir.img.type
    BY DEF OutputAccepted
  <2> QED
    BY RepackedReadsBack DEF IInv
<1> QED
  BY <1>1, BuiltFromDir, PTL

\* And says what the directory said: sections, entries, device trees, texts,
\* numbers, attributes and the wrapper, and of the os what fits its fields.
THEOREM BuiltSaysIt ==
  ASSUME KindsApart
  PROVE  Spec => []OutputSaysIt
<1>1. IInv => OutputSaysIt
  <2> DEFINE read == Unpack(out)
             img == dir.img
             c == CarriedImg(img)
  <2> SUFFICES ASSUME IInv, out # Null, Sane(dir)
               PROVE  read = IF Is("boot") /\ ~OsFits(img.os)
                               THEN [Carried(dir) EXCEPT !.img.os = read.img.os]
                               ELSE Carried(dir)
    BY DEF OutputSaysIt
  <2>1. dir # Null /\ IsDir(dir) /\ read = Said(dir)
    BY RepackedReadsBack DEF IInv
  <2>2. dir = [wrap |-> dir.wrap, img |-> img]
    BY <2>1 DEF IsDir
  <2>3. Carried(dir) = [wrap |-> dir.wrap, img |-> c]
    BY <2>2 DEF Carried
  <2>4. read = [wrap |-> dir.wrap, img |-> SaidImg(img)]
    BY <2>1, <2>2 DEF Said
  <2>5. CASE img.type # "boot"
    <3>1. SaidImg(img) = c
      BY <2>5 DEF SaidImg
    <3> QED
      BY <2>3, <2>4, <2>5, <3>1 DEF Is
  <2>6. CASE img.type = "boot"
    <3> DEFINE page == IF img.version > 2 \/ img.page = 0 THEN DefaultPage ELSE img.page
               name == IF img.version > 2 THEN <<>> ELSE Loaded(Field(img.name, NameLen))
               cmdline == Loaded(Field(img.cmdline, ArgsLen + ExtraLen))
               sec == [s \in Section |->
                         IF s \in SectionsOf(img.version) THEN img.sec[s] ELSE <<>>]
               with(os) == [type |-> img.type, version |-> img.version, page |-> page,
                            name |-> name, cmdline |-> cmdline, os |-> os, sec |-> sec]
    <3>1. IsOs(img.os)
      BY <2>1, <2>6 DEF IsDir, IsBoot
    <3>2. c = with(img.os)
      <4>1. img = [type |-> img.type, version |-> img.version, page |-> img.page,
                   name |-> img.name, cmdline |-> img.cmdline, os |-> img.os,
                   sec |-> img.sec]
        BY <2>1, <2>6 DEF IsDir, IsBoot
      <4>2. c = [img EXCEPT
                   !.page = IF img.version > 2 \/ @ = 0 THEN DefaultPage ELSE @,
                   !.name = IF img.version > 2 THEN <<>> ELSE Loaded(Field(@, NameLen)),
                   !.cmdline = Loaded(Field(@, ArgsLen + ExtraLen)),
                   !.sec = [s \in Section |->
                              IF s \in SectionsOf(img.version) THEN @[s] ELSE <<>>]]
        BY <2>6 DEF CarriedImg
      <4> QED
        BY <4>1, <4>2
    <3> HIDE DEF page, name, cmdline, sec, c
    <3>3. SaidImg(img) = with(OsKept(img.os))
      BY <2>6, <3>2 DEF SaidImg, c
    <3>4. CASE OsFits(img.os)
      <4>1. OsKept(img.os) = img.os
        BY <3>1, <3>4, OsReadsBack
      <4> QED
        BY <2>3, <2>4, <3>2, <3>3, <3>4, <4>1
    <3>5. CASE ~OsFits(img.os)
      <4>1. Is("boot")
        BY <2>1, <2>6 DEF Is
      <4>2. read.img.os = OsKept(img.os)
        BY <2>4, <3>3
      <4>3. [Carried(dir) EXCEPT !.img.os = read.img.os]
              = [wrap |-> dir.wrap, img |-> [c EXCEPT !.os = OsKept(img.os)]]
        BY <2>3, <4>2
      <4>4. [c EXCEPT !.os = OsKept(img.os)] = with(OsKept(img.os))
        BY <3>2
      <4> QED
        BY <2>4, <3>3, <3>5, <4>1, <4>3, <4>4
    <3> QED
      BY <3>4, <3>5
  <2> QED
    BY <2>5, <2>6
<1> QED
  BY <1>1, BuiltFromDir, PTL

\* mkbootimg makes of a command line shorter than its first field what build makes.
THEOREM MkBootIsBuild ==
  ASSUME NEW d, IsBoot(d), d.version \in 0 .. 4, Len(d.cmdline) < ArgsLen
  PROVE  MkBoot(d) = BuildBoot(d)
<1> DEFINE t == d.cmdline
           f == BuildBoot(d)
           h == BootHeader(d)
           S == {t[i] : i \in 1 .. Len(t)}
<1>1. CASE d.version > 2
  BY <1>1 DEF MkBoot
<1>2. CASE ~(d.version > 2)
  <2>1. t \in Seq(S)
    BY DEF IsBoot, IsText, IsSeq
  <2>2. ArgsLen \in Nat \ {0} /\ ExtraLen \in Nat /\ Len(t) \in Nat /\ Len(t) < ArgsLen
    BY <2>1, BootAssumption, LenProperties
  <2> HIDE DEF t, S
  <2>3. Field(t, ArgsLen) = Field(t, ArgsLen - 1)
    BY <2>2 DEF Field
  <2>4. ExtraArgs(t) = <<>> /\ SubSeq(t, ArgsLen, Len(t)) = <<>>
    BY <2>1, <2>2 DEF ExtraArgs
  <2>5. /\ h.args = Field(t, ArgsLen - 1)
        /\ h.extra = Field(SubSeq(t, ArgsLen, Len(t)), ExtraLen)
    BY <1>2, <2>3, <2>4 DEF BootHeader, t
  <2>6. PICK T : f[1] = h /\ f \in Seq(T)
    <3>1. PICK T : BootDirOver(d, T)
      BY SectionsTogether
    <3> QED
      BY <3>1, HeaderInFront, Cursors
  <2>7. h = [h EXCEPT !.args = h.args, !.extra = h.extra]
    <3>1. PICK v, p, o, n, a, e, i, w, z :
            h = [fmt |-> "boot", version |-> v, page |-> p, os |-> o, name |-> n,
                 args |-> a, extra |-> e, id |-> i, dtbo_at |-> w, size |-> z]
      BY DEF BootHeader
    <3> HIDE DEF h
    <3> QED
      BY <3>1
  <2>8. MkBoot(d) = [f EXCEPT ![1].args = h.args, ![1].extra = h.extra]
    BY <1>2, <2>5 DEF MkBoot, t
  <2> HIDE DEF f, h
  <2>9. [f EXCEPT ![1].args = h.args, ![1].extra = h.extra] = f
    <3>1. PICK u, e, x, y : u = h /\ e = f /\ x = h.args /\ y = h.extra
      OBVIOUS
    <3>2. e \in Seq(T) /\ e[1] = u /\ u = [u EXCEPT !.args = x, !.extra = y]
      BY <2>6, <2>7, <3>1
    <3>3. PICK n \in Nat : e \in [1 .. n -> T]
      BY <3>2, Z3
    <3>4. [e EXCEPT ![1].args = x, ![1].extra = y] = [e EXCEPT ![1] = u]
      BY <3>2, <3>3
    <3>5. [e EXCEPT ![1] = u] = e
      BY <3>2, <3>3
    <3> QED
      BY <3>1, <3>4, <3>5
  <2> QED
    BY <2>8, <2>9 DEF f
<1> QED
  BY <1>1, <1>2

\* An image that one of the standard tools lays out as the builders here do, or that
\* mkbootimg makes of a command line shorter than the first field, is unpacked to a
\* directory that has room for all it says, and comes back cell for cell when nothing
\* is edited; so does repack's own.
THEOREM Verbatim ==
  ASSUME KindsApart,
         \A f \in Reference : \E d :
           /\ IsDir(d) /\ Fits(d)
           /\ \/ f = Repack(d)
              \/ /\ d.img.type = "boot" /\ d.wrap = NoWrap
                 /\ Len(d.img.cmdline) < ArgsLen /\ f = MkBoot(d.img)
  PROVE  Spec => []UntouchedVerbatim
<1>1. IInv => UntouchedVerbatim
  <2> SUFFICES ASSUME IInv, file # Null, own \/ file \in Reference
               PROVE  Fits(dir) /\ (out # Null => out = file)
    BY DEF UntouchedVerbatim
  <2>1. dir = Unpack(file) /\ (out # Null => out = Repack(dir))
    BY DEF IInv
  <2>2. CASE own
    BY <2>1, <2>2 DEF IInv
  <2>3. CASE file \in Reference
    <3>1. PICK d : /\ IsDir(d) /\ Fits(d)
                   /\ \/ file = Repack(d)
                      \/ /\ d.img.type = "boot" /\ d.wrap = NoWrap
                         /\ Len(d.img.cmdline) < ArgsLen /\ file = MkBoot(d.img)
      BY <2>3
    <3>2. file = Repack(d)
      <4>1. CASE file = Repack(d)
        BY <4>1
      <4>2. CASE /\ d.img.type = "boot" /\ d.wrap = NoWrap
                 /\ Len(d.img.cmdline) < ArgsLen /\ file = MkBoot(d.img)
        <5>1. IsBoot(d.img) /\ d.img.version \in 0 .. 4
          BY <3>1, <4>2 DEF IsDir, Fits, Sane, Buildable
        <5>2. MkBoot(d.img) = BuildBoot(d.img)
          BY <4>2, <5>1, MkBootIsBuild
        <5> QED
          BY <4>2, <5>2 DEF Repack, RepackImage
      <4> QED
        BY <3>1, <4>1, <4>2
    <3>3. Fits(Unpack(file)) /\ Repack(Unpack(file)) = file
      BY <3>1, <3>2, RebuiltFromOutput
    <3> QED
      BY <2>1, <3>3
  <2> QED
    BY <2>2, <2>3
<1> QED
  BY <1>1, BuiltFromDir, PTL

\* An image repack made itself does so without a condition on what is at hand.
THEOREM OwnVerbatim ==
  ASSUME KindsApart
  PROVE  Spec => [](own /\ out # Null => out = file)
<1>1. IInv => (own /\ out # Null => out = file)
  BY DEF IInv
<1> QED
  BY <1>1, BuiltFromDir, PTL

\* The header of a boot image is what the output begins with when the wrapper is
\* taken off, whatever it ends with.
LEMMA OutStripped ==
  ASSUME IInv, KindsApart, out # Null, Is("boot")
  PROVE  /\ StripDhtb(out).inner[1] = BootHeader(dir.img)
         /\ Sane(dir) => StripDhtb(out).inner = BuildBoot(dir.img)
<1> DEFINE img == dir.img
           w == dir.wrap
           f == BuildBoot(img)
           S == {f[i] : i \in 1 .. Len(f)}
<1>1. /\ IsDir(dir) /\ IsBoot(img) /\ IsWrap(w) /\ img.type = "boot"
      /\ img.version \in 0 .. 4 /\ out = Repack(dir) /\ RepackImage(img) = f
  BY DEF IInv, Is, IsDir, Buildable, RepackImage
<1>2. IsSeq(f) /\ Begins(f, "boot") /\ f[1] = BootHeader(img)
  BY <1>1, BootReadsBack
<1>3. f \in Seq(S)
  BY <1>2 DEF IsSeq
<1> HIDE DEF S
<1>4. Sane(dir) => StripDhtb(out).inner = f
  BY <1>1, RepackedIsStripped
<1>5. CASE w = NoWrap
  <2>1. out = f
    BY <1>1, <1>5 DEF Repack
  <2> HIDE DEF f
  <2>2. ~Begins(out, "dhtb")
    BY <1>2, <2>1 DEF Begins
  <2>3. StripDhtb(out).inner = out
    BY <2>2 DEF StripDhtb
  <2> QED
    BY <1>2, <1>4, <2>1, <2>3 DEF f
<1>6. CASE w # NoWrap
  <2>1. w.footer \in BOOLEAN /\ w.padding \in BOOLEAN /\ IsSeq(w.extra)
    BY <1>1, <1>6 DEF IsWrap
  <2>2. out = WrapDhtb(f, w)
    BY <1>1, <1>6 DEF Repack
  <2> HIDE DEF f, w
  <2>3. StripDhtb(out).inner[1] = f[1]
    BY <1>2, <1>3, <2>1, <2>2, HeaderStays DEF Begins
  <2> QED
    BY <1>2, <1>4, <2>3 DEF f
<1> QED
  BY <1>5, <1>6

\* Who follows recovery_dtbo_offset finds the overlay: for images and edits of
\* any size, and whatever the user says of the wrapper.
THEOREM DtboOffsetLeads ==
  ASSUME KindsApart
  PROVE  Spec => []RecoveryDtboFound
<1>1. IInv => RecoveryDtboFound
  <2> SUFFICES ASSUME IInv, out # Null, Is("boot")
               PROVE  LET h == StripDhtb(out).inner[1]
                      IN  h.version \in {1, 2} /\ h.size.recovery_dtbo > 0
                            /\ BootHeaderLen[h.version] <= h.page
                          => h.dtbo_at = Starts(h).recovery_dtbo
    BY DEF RecoveryDtboFound
  <2> DEFINE img == dir.img
             h == BootHeader(img)
  <2>1. StripDhtb(out).inner[1] = h
    BY OutStripped
  <2>2. PICK S : BootDirOver(img, S)
    BY SectionsTogether DEF IInv, Is, IsDir, Buildable
  <2>3. h.version = img.version /\ h.page = BuiltPage(img) /\ h.dtbo_at = DtboOffset(img)
    BY DEF BootHeader
  <2>4. img.version \in {1, 2} /\ h.size["recovery_dtbo"] > 0
          /\ BootHeaderLen[img.version] <= BuiltPage(img)
        => DtboOffset(img) = Starts(h).recovery_dtbo
    BY <2>2, DtboOffsetIsPlace
  <2> HIDE DEF h
  <2> QED
    BY <2>1, <2>3, <2>4
<1> QED
  BY <1>1, BuiltFromDir, PTL

\* The parts of an id.
LEMMA PartsJoined ==
  ASSUME NEW a, NEW b, NEW c, NEW d, NEW e
  PROVE  /\ <<a, b, c>> \o <<>> \o <<>> = <<a, b, c>>
         /\ <<a, b, c>> \o <<d>> \o <<>> = <<a, b, c, d>>
         /\ <<a, b, c>> \o <<d>> \o <<e>> = <<a, b, c, d, e>>
<1> DEFINE S == {a, b, c, d, e}
           abc == <<a, b, c>>
           nil == <<>>
           abcd == <<a, b, c, d>>
           all == <<a, b, c, d, e>>
<1>1. /\ abc \in Seq(S) /\ Len(abc) = 3
      /\ nil \in Seq(S) /\ Len(nil) = 0
      /\ <<d>> \in Seq(S) /\ Len(<<d>>) = 1 /\ <<d>>[1] = d
      /\ <<e>> \in Seq(S) /\ Len(<<e>>) = 1 /\ <<e>>[1] = e
      /\ abcd \in Seq(S) /\ Len(abcd) = 4
      /\ all \in Seq(S) /\ Len(all) = 5
  BY EmptySeq
<1>2. abc \o nil \o nil = abc
  BY <1>1, ConcatEmptySeq
<1>3. abc \o <<d>> = abcd
  <2> DEFINE g == abc \o <<d>>
  <2>1. /\ g \in Seq(S) /\ Len(g) = 3 + 1
        /\ \A i \in 1 .. 3 + 1 : g[i] = IF i <= 3 THEN abc[i] ELSE <<d>>[i - 3]
    BY <1>1, ConcatProperties
  <2> HIDE DEF g
  <2>2. g[1] = a /\ g[2] = b /\ g[3] = c /\ g[4] = d
    BY <1>1, <2>1
  <2>3. \A i \in 1 .. 4 : g[i] = abcd[i]
    BY <2>2
  <2>4. g = abcd
    BY <1>1, <2>1, <2>3, SeqEqual
  <2> QED
    BY <2>4 DEF g
<1>4. abcd \o nil = abcd
  BY <1>1, ConcatEmptySeq
<1>5. abcd \o <<e>> = all
  <2> DEFINE g == abcd \o <<e>>
  <2>1. /\ g \in Seq(S) /\ Len(g) = 4 + 1
        /\ \A i \in 1 .. 4 + 1 : g[i] = IF i <= 4 THEN abcd[i] ELSE <<e>>[i - 4]
    BY <1>1, ConcatProperties
  <2> HIDE DEF g
  <2>2. g[1] = a /\ g[2] = b /\ g[3] = c /\ g[4] = d /\ g[5] = e
    BY <1>1, <2>1
  <2>3. \A i \in 1 .. 5 : g[i] = all[i]
    BY <2>2
  <2>4. g = all
    BY <1>1, <2>1, <2>3, SeqEqual
  <2> QED
    BY <2>4 DEF g
<1> QED
  BY <1>2, <1>3, <1>4, <1>5

\* The id that repack computes is taken over the sections as they are read from
\* the output, in their order, and over no other.
THEOREM IdOfSections ==
  ASSUME KindsApart
  PROVE  Spec => []IdCoversSections
<1>1. IInv => IdCoversSections
  <2> DEFINE img == dir.img
             f == BuildBoot(img)
             order == <<"kernel", "ramdisk", "second", "recovery_dtbo", "dtb">>
             has(v) == {i \in 1 .. 5 : order[i] \in SectionsOf(v)}
  <2> SUFFICES ASSUME IInv, out # Null, Is("boot"), Sane(dir)
               PROVE  LET inner == StripDhtb(out).inner
                      IN  inner[1].version <= 2 =>
                            inner[1].id = [i \in has(inner[1].version) |->
                                             SectionIn(inner, order[i])]
    BY DEF IdCoversSections
  <2>1. StripDhtb(out).inner = f
    BY OutStripped
  <2>2. PICK S : BootDirOver(img, S)
    BY SectionsTogether DEF IInv, Is, IsDir, Buildable
  <2>3. f[1].version = img.version /\ f[1].id = BootId(img)
    <3>1. f[1] = BootHeader(img)
      BY <2>2, HeaderInFront
    <3>2. BootHeader(img).version = img.version /\ BootHeader(img).id = BootId(img)
      BY DEF BootHeader
    <3> QED
      BY <3>1, <3>2
  <2>4. \A s \in Section :
          SectionIn(f, s) = IF s \in SectionsOf(img.version) THEN img.sec[s] ELSE <<>>
    BY <2>2, SectionsReadBack
  <2>5. img.version \in 0 .. 4
    BY <2>2 DEF BootDirOver
  <2> HIDE DEF f
  <2>6. ASSUME img.version = 0
        PROVE  BootId(img) = [i \in has(img.version) |-> SectionIn(f, order[i])]
    <3>1. has(img.version) = 1 .. 3
      BY <2>6 DEF SectionsOf
    <3>2. BootId(img) = <<img.sec.kernel, img.sec.ramdisk, img.sec.second>>
      BY <2>6 DEF BootId
    <3>3. /\ SectionIn(f, order[1]) = img.sec.kernel
          /\ SectionIn(f, order[2]) = img.sec.ramdisk
          /\ SectionIn(f, order[3]) = img.sec.second
      BY <2>4, <2>6 DEF SectionsOf, Section
    <3> QED
      BY <3>1, <3>2, <3>3
  <2>7. ASSUME img.version = 1
        PROVE  BootId(img) = [i \in has(img.version) |-> SectionIn(f, order[i])]
    <3>1. has(img.version) = 1 .. 4
      BY <2>7 DEF SectionsOf
    <3>2. BootId(img) = <<img.sec.kernel, img.sec.ramdisk, img.sec.second,
                          img.sec.recovery_dtbo>>
      BY <2>7, PartsJoined DEF BootId
    <3>3. /\ SectionIn(f, order[1]) = img.sec.kernel
          /\ SectionIn(f, order[2]) = img.sec.ramdisk
          /\ SectionIn(f, order[3]) = img.sec.second
          /\ SectionIn(f, order[4]) = img.sec.recovery_dtbo
      BY <2>4, <2>7 DEF SectionsOf, Section
    <3> QED
      BY <3>1, <3>2, <3>3
  <2>8. ASSUME img.version = 2
        PROVE  BootId(img) = [i \in has(img.version) |-> SectionIn(f, order[i])]
    <3>1. has(img.version) = 1 .. 5
      BY <2>8 DEF SectionsOf
    <3>2. BootId(img) = <<img.sec.kernel, img.sec.ramdisk, img.sec.second,
                          img.sec.recovery_dtbo, img.sec.dtb>>
      BY <2>8, PartsJoined DEF BootId
    <3>3. /\ SectionIn(f, order[1]) = img.sec.kernel
          /\ SectionIn(f, order[2]) = img.sec.ramdisk
          /\ SectionIn(f, order[3]) = img.sec.second
          /\ SectionIn(f, order[4]) = img.sec.recovery_dtbo
          /\ SectionIn(f, order[5]) = img.sec.dtb
      BY <2>4, <2>8 DEF SectionsOf, Section
    <3> QED
      BY <3>1, <3>2, <3>3
  <2> QED
    BY <2>1, <2>3, <2>5, <2>6, <2>7, <2>8
<1> QED
  BY <1>1, BuiltFromDir, PTL

=============================================================================
