------------------------- MODULE BufferManagerProofs -------------------------
(***************************************************************************)
(* For every size of the memory, every number of slots and every sequence  *)
(* of calls: the blocks of a buffer_manager never overlap, its cost is what *)
(* is in its queue, it is a double-ended queue, and when it is empty it     *)
(* takes every block that fits.                                            *)
(***************************************************************************)
EXTENDS BufferDeque, SequenceTheorems, WellFoundedInduction, TLAPS

-----------------------------------------------------------------------------
\* Adding up a sequence.

\* Every set of natural numbers has a least one.
LEMMA LeastElement ==
  ASSUME NEW T, T \subseteq Nat, T # {}
  PROVE  \E x \in T : \A y \in T : x <= y
<1> DEFINE R == OpToRel(<, Nat)
<1>1. \E x \in T : \A y \in T : ~ (<<y, x>> \in R)
  <2>1. IsWellFoundedOn(R, Nat)
    BY NatLessThanWellFounded
  <2> HIDE DEF R
  <2> QED BY <2>1, WFMin
<1>2. \A x, y \in Nat : <<y, x>> \in R <=> y < x
  BY DEF OpToRel
<1> HIDE DEF R
<1>3. PICK x \in T : \A y \in T : ~ (<<y, x>> \in R)
  BY <1>1
<1>4. x \in Nat /\ \A y \in T : y \in Nat /\ ~(y < x)
  BY <1>2, <1>3, Zenon
<1>5. \A y \in T : x <= y
  BY <1>4
<1> QED BY <1>5

\* Counting up from 0 reaches every number.
LEMMA Upwards ==
  ASSUME NEW S, S \subseteq Nat, 0 \in S, \A n \in S : n + 1 \in S
  PROVE  S = Nat
<1> SUFFICES ASSUME Nat \ S # {} PROVE FALSE
  OBVIOUS
<1>1. PICK x \in Nat \ S : \A y \in Nat \ S : x <= y
  BY LeastElement
<1>2. x - 1 \in S
  BY <1>1
<1> QED BY <1>1, <1>2

\* f[i] is the sum of the first i of the n numbers d.
Sums(f, d, n) == f[0] = 0 /\ \A i \in 1 .. n : f[i] = f[i - 1] + d[i]

\* Two sums of the same numbers are the same.
LEMMA SumsAgree ==
  ASSUME NEW n \in Nat, NEW f, NEW g, NEW d, Sums(f, d, n), Sums(g, d, n)
  PROVE  \A i \in 0 .. n : f[i] = g[i]
<1> USE DEF Sums
<1> DEFINE S == {i \in Nat : i <= n => f[i] = g[i]}
<1>1. 0 \in S
  OBVIOUS
<1>2. ASSUME NEW i \in S PROVE i + 1 \in S
  <2>1. CASE i + 1 <= n
    <3>1. f[i] = g[i] /\ i + 1 \in 1 .. n /\ (i + 1) - 1 = i
      BY <2>1
    <3>2. f[i + 1] = f[i] + d[i + 1] /\ g[i + 1] = g[i] + d[i + 1]
      BY <3>1
    <3> QED BY <3>1, <3>2
  <2>2. CASE ~(i + 1 <= n)
    BY <2>2
  <2> QED BY <2>1, <2>2
<1>3. S = Nat
  <2> HIDE DEF S
  <2>1. S \subseteq Nat
    BY DEF S
  <2> QED BY <1>1, <1>2, <2>1, Upwards
<1> QED BY <1>3

\* The blocks there can be: none has more consumed than it holds.
Sound == {b \in BlockType : b.used <= b.size}

\* What is left in a block is a number.
LEMMA LeftInNat == \A b \in Sound : Left(b) \in Nat
  BY DEF Sound, BlockType, Left

\* g[n] is what is left of the first n blocks of q.
Adds(q, g) ==
  /\ g \in [0 .. Len(q) -> Nat] /\ g[0] = 0
  /\ \A i \in 1 .. Len(q) : g[i] = g[i - 1] + Left(q[i])

\* LeftIn adds up what is left in the blocks of a queue.
LEMMA LeftInAdds ==
  ASSUME NEW q \in Seq(Sound)
  PROVE  \E g : Adds(q, g) /\ LeftIn(q) = g[Len(q)]
<1> DEFINE d == [i \in 1 .. Len(q) |-> Left(q[i])]
           S == {n \in Nat : n <= Len(q) => \E g \in [0 .. n -> Nat] : Sums(g, d, n)}
<1>0. Len(q) \in Nat /\ \A i \in 1 .. Len(q) : d[i] \in Nat /\ d[i] = Left(q[i])
  BY LeftInNat
<1> HIDE DEF d
<1>1. 0 \in S
  <2> DEFINE g == [i \in 0 .. 0 |-> 0]
  <2>1. Sums(g, d, 0) /\ g \in [0 .. 0 -> Nat]
    BY DEF Sums
  <2> QED BY <2>1
<1>2. ASSUME NEW n \in S, n + 1 <= Len(q)
      PROVE  \E g \in [0 .. n + 1 -> Nat] : Sums(g, d, n + 1)
  <2>1. n \in Nat /\ n <= Len(q)
    BY <1>0, <1>2
  <2>2. PICK g \in [0 .. n -> Nat] : Sums(g, d, n)
    BY <2>1
  <2> DEFINE h == [i \in 0 .. n + 1 |-> IF i = n + 1 THEN g[n] + d[n + 1] ELSE g[i]]
  <2>3. n + 1 \in 1 .. Len(q) /\ d[n + 1] \in Nat /\ g[n] \in Nat
    BY <1>0, <1>2, <2>1
  <2>4. h \in [0 .. n + 1 -> Nat]
    BY <2>1, <2>3
  <2>5. h[0] = 0
    BY <2>1, <2>2 DEF Sums
  <2>6. ASSUME NEW i \in 1 .. n + 1 PROVE h[i] = h[i - 1] + d[i]
    <3>1. CASE i = n + 1
      BY <2>1, <3>1
    <3>2. CASE i \in 1 .. n
      BY <2>1, <2>2, <3>2 DEF Sums
    <3> QED BY <2>1, <3>1, <3>2
  <2> HIDE DEF h
  <2>7. Sums(h, d, n + 1)
    BY <2>5, <2>6 DEF Sums
  <2> QED BY <2>4, <2>7
<1>3. S = Nat
  <2>1. S \subseteq Nat
    OBVIOUS
  <2>2. ASSUME NEW n \in S PROVE n + 1 \in S
    <3>1. n + 1 \in Nat
      BY <2>1
    <3>2. n + 1 <= Len(q) => \E g \in [0 .. n + 1 -> Nat] : Sums(g, d, n + 1)
      BY <1>2
    <3> QED BY <3>1, <3>2
  <2> HIDE DEF S
  <2> QED BY <1>1, <2>1, <2>2, Upwards
<1>4. PICK k \in [0 .. Len(q) -> Nat] : Sums(k, d, Len(q))
  BY <1>0, <1>3
<1>5. k = [i \in 0 .. Len(q) |-> IF i = 0 THEN 0 ELSE k[i - 1] + Left(q[i])]
  BY <1>0, <1>4 DEF Sums
<1> DEFINE g == CHOOSE f : f = [i \in 0 .. Len(q) |-> IF i = 0 THEN 0 ELSE f[i - 1] + Left(q[i])]
<1>6. g = [i \in 0 .. Len(q) |-> IF i = 0 THEN 0 ELSE g[i - 1] + Left(q[i])]
  BY <1>5
<1>7. LeftIn(q) = g[Len(q)]
  BY DEF LeftIn
<1> HIDE DEF g
<1>8. DOMAIN g = 0 .. Len(q) /\ Sums(g, d, Len(q))
  <2>1. DOMAIN g = 0 .. Len(q)
    BY <1>6
  <2>2. \A i \in 0 .. Len(q) : g[i] = IF i = 0 THEN 0 ELSE g[i - 1] + Left(q[i])
    BY <1>6
  <2> QED BY <1>0, <2>1, <2>2 DEF Sums
<1>9. \A i \in 0 .. Len(q) : k[i] = g[i]
  BY <1>0, <1>4, <1>8, SumsAgree
<1>10. g \in [0 .. Len(q) -> Nat]
  BY <1>4, <1>6, <1>8, <1>9
<1>11. \A i \in 1 .. Len(q) : g[i] = g[i - 1] + Left(q[i])
  BY <1>0, <1>8 DEF Sums
<1> QED BY <1>7, <1>8, <1>10, <1>11 DEF Adds, Sums

\* Nothing is left in no blocks, and never less than nothing.
LEMMA LeftInEmpty == LeftIn(<<>>) = 0
<1>1. <<>> \in Seq(Sound) /\ Len(<<>>) = 0
  OBVIOUS
<1> QED BY <1>1, LeftInAdds DEF Adds

\* So is what is left in a queue of blocks.
LEMMA LeftInType == \A q \in Seq(Sound) : LeftIn(q) \in Nat
<1> SUFFICES ASSUME NEW q \in Seq(Sound) PROVE LeftIn(q) \in Nat
  OBVIOUS
<1>1. PICK g : Adds(q, g) /\ LeftIn(q) = g[Len(q)]
  BY LeftInAdds
<1> QED BY <1>1 DEF Adds

\* A block more at the end, and at the front.
LEMMA LeftInAppend ==
  ASSUME NEW q \in Seq(Sound), NEW b \in Sound
  PROVE  LeftIn(Append(q, b)) = LeftIn(q) + Left(b)
<1> DEFINE r == Append(q, b)
           n == Len(q)
           d == [i \in 1 .. n |-> Left(q[i])]
<1>1. /\ r \in Seq(Sound) /\ n \in Nat /\ Len(r) = n + 1 /\ r[n + 1] = b
      /\ \A i \in 1 .. n : r[i] = q[i]
  OBVIOUS
<1>2. PICK g : Adds(q, g) /\ LeftIn(q) = g[n]
  BY LeftInAdds
<1>3. PICK h : Adds(r, h) /\ LeftIn(r) = h[n + 1]
  BY <1>1, LeftInAdds
<1> HIDE DEF r
<1>4. Sums(g, d, n)
  BY <1>2 DEF Adds, Sums
<1>5. Sums(h, d, n)
  BY <1>1, <1>3 DEF Adds, Sums
<1>6. g[n] = h[n]
  <2> HIDE DEF d
  <2>1. \A i \in 0 .. n : g[i] = h[i]
    BY <1>1, <1>4, <1>5, SumsAgree
  <2> QED BY <1>1, <2>1
<1>7. h[n + 1] = h[n] + Left(b)
  BY <1>1, <1>3 DEF Adds
<1> QED BY <1>2, <1>3, <1>6, <1>7 DEF r

\* A block put in front adds what is left in it.
LEMMA LeftInBefore ==
  ASSUME NEW q \in Seq(Sound), NEW b \in Sound
  PROVE  LeftIn(<<b>> \o q) = LeftIn(q) + Left(b)
<1> DEFINE r == <<b>> \o q
           n == Len(q)
           d == [i \in 1 .. n |-> Left(q[i])]
<1>1. /\ r \in Seq(Sound) /\ n \in Nat /\ Len(r) = n + 1 /\ r[1] = b
      /\ \A i \in 1 .. n : r[i + 1] = q[i]
  OBVIOUS
<1>2. PICK g : Adds(q, g) /\ LeftIn(q) = g[n]
  BY LeftInAdds
<1>3. PICK h : Adds(r, h) /\ LeftIn(r) = h[n + 1]
  BY <1>1, LeftInAdds
<1> HIDE DEF r
<1>0. Left(b) \in Nat /\ \A i \in 1 .. n : Left(q[i]) \in Nat
  BY <1>1, LeftInNat
<1> DEFINE f == [i \in 0 .. n |-> h[i + 1] - Left(b)]
<1>4. h \in [0 .. n + 1 -> Nat] /\ h[0] = 0
  BY <1>1, <1>3 DEF Adds
<1>5. \A i \in 1 .. n + 1 : h[i] = h[i - 1] + Left(r[i])
  BY <1>1, <1>3 DEF Adds
<1>6. \A i \in 1 .. n : f[i] = f[i - 1] + d[i]
  <2> SUFFICES ASSUME NEW i \in 1 .. n PROVE f[i] = f[i - 1] + d[i]
    OBVIOUS
  <2>1. i \in 0 .. n + 1 /\ i + 1 \in 1 .. n + 1 /\ (i + 1) - 1 = i
    BY <1>1
  <2>2. h[i + 1] = h[i] + Left(r[i + 1]) /\ h[i] \in Nat
    BY <1>4, <1>5, <2>1
  <2> QED BY <1>0, <1>1, <2>1, <2>2
<1>7. Sums(g, d, n)
  BY <1>2 DEF Adds, Sums
<1>8. f[0] = 0
  <2>1. h[1] = h[0] + Left(b)
    BY <1>1, <1>5
  <2> QED BY <1>0, <1>1, <1>2, <1>4, <2>1 DEF Adds
<1>9. f[n] = g[n]
  <2> HIDE DEF d, f
  <2>1. Sums(f, d, n)
    BY <1>6, <1>8 DEF Sums
  <2>2. \A i \in 0 .. n : f[i] = g[i]
    BY <1>1, <1>7, <2>1, SumsAgree
  <2> QED BY <1>1, <2>2
<1>10. h[n + 1] \in Nat /\ f[n] = h[n + 1] - Left(b)
  BY <1>1, <1>4
<1> QED BY <1>0, <1>2, <1>3, <1>9, <1>10 DEF r

-----------------------------------------------------------------------------
\* A queue of blocks in a circular piece of z units: the k-th block is at A[k]
\* and F[k] long, the room behind them begins at A[n].
Log(A, k, z) == IF A[k] >= A[0] THEN A[k] ELSE A[k] + z
Laid(A, F, n, z) ==
  /\ \A k \in 0 .. n : A[k] \in 0 .. z
  /\ \A k \in 0 .. n - 1 : F[k] \in Nat \ {0} /\ A[k] + F[k] <= z
  /\ \A k \in 1 .. n, j \in 0 .. n - 1 : j < k => Log(A, j, z) + F[j] <= Log(A, k, z)

\* While the room begins behind the first block nothing is wrapped, and
\* everything is before it; otherwise what is wrapped is before it, and the rest
\* is not before the first block.
LEMMA BeforeRoom ==
  ASSUME NEW n \in Nat, NEW z \in Nat, NEW A, NEW F, Laid(A, F, n, z),
         NEW k \in 0 .. n - 1
  PROVE  \/ A[k] >= A[0] /\ (A[n] >= A[0] => A[k] + F[k] <= A[n])
         \/ A[n] < A[0] /\ A[k] < A[0] /\ A[k] + F[k] <= A[n]
<1>1. /\ A[0] \in 0 .. z /\ A[k] \in 0 .. z /\ A[n] \in 0 .. z
      /\ F[k] \in Nat \ {0} /\ A[k] + F[k] <= z
  BY DEF Laid
<1>2. Log(A, k, z) + F[k] <= Log(A, n, z)
  <2>1. n \in 1 .. n /\ k < n
    OBVIOUS
  <2> QED BY <2>1 DEF Laid
<1> QED BY <1>1, <1>2 DEF Log

\* No two blocks overlap.
LEMMA BlocksApart ==
  ASSUME NEW n \in Nat, NEW z \in Nat, NEW A, NEW F, Laid(A, F, n, z),
         NEW j \in 0 .. n - 1, NEW k \in 0 .. n - 1, j < k
  PROVE  A[j] + F[j] <= A[k] \/ A[k] + F[k] <= A[j]
<1>1. /\ A[0] \in 0 .. z /\ A[n] \in 0 .. z
      /\ A[j] \in 0 .. z /\ F[j] \in Nat \ {0} /\ A[j] + F[j] <= z
      /\ A[k] \in 0 .. z /\ F[k] \in Nat \ {0} /\ A[k] + F[k] <= z
  BY DEF Laid
<1>2. Log(A, j, z) + F[j] <= Log(A, k, z)
  <2>1. k \in 1 .. n
    OBVIOUS
  <2> QED BY <2>1 DEF Laid
<1>3. \/ A[k] >= A[0]
      \/ A[n] < A[0] /\ A[k] < A[0] /\ A[k] + F[k] <= A[n]
  BY BeforeRoom
<1> QED BY <1>1, <1>2, <1>3 DEF Log

\* What is laid is determined by the addresses and sizes.
LEMMA LaidSame ==
  ASSUME NEW n \in Nat, NEW z \in Nat, NEW A, NEW F, NEW B, NEW G, Laid(A, F, n, z),
         \A k \in 0 .. n : B[k] = A[k], \A k \in 0 .. n - 1 : G[k] = F[k]
  PROVE  Laid(B, G, n, z)
<1>1. \A k \in 0 .. n : Log(B, k, z) = Log(A, k, z)
  BY DEF Log
<1> QED BY <1>1 DEF Laid

\* A block more behind the last.
OneBehind(A, F, n, z, B, G, m) ==
  /\ Laid(A, F, n, z)
  /\ m = n + 1 /\ G[n] \in Nat \ {0} /\ B[m] = B[n] + G[n]
  /\ \A k \in 0 .. n - 1 : B[k] = A[k] /\ G[k] = F[k]
  /\ \/ A[n] >= A[0] /\ z - A[n] >= G[n] /\ B[n] = A[n]
     \/ A[n] >= A[0] /\ A[0] > G[n] /\ B[n] = 0
     \/ A[n] < A[0] /\ A[0] - A[n] > G[n] /\ B[n] = A[n]

\* Blocks that lie in the memory without meeting do so with one more behind
\* them (OneBehind says where it may go).
LEMMA LaidBack ==
  ASSUME NEW n \in Nat, NEW z \in Nat, NEW A, NEW F, NEW m, NEW B, NEW G,
         OneBehind(A, F, n, z, B, G, m)
  PROVE  Laid(B, G, m, z)
<1> USE DEF OneBehind
<1> DEFINE fs == G[n]
           a  == B[n]
<1>0. /\ A[0] \in 0 .. z /\ A[n] \in 0 .. z
      /\ B[n] \in 0 .. z /\ G[n] \in Nat \ {0} /\ B[n] + G[n] <= z
      /\ B[n + 1] = B[n] + G[n]
  <2>1. A[0] \in 0 .. z /\ A[n] \in 0 .. z
    BY DEF Laid
  <2> QED BY <2>1
<1>1. ASSUME NEW k \in 0 .. n + 1 PROVE B[k] \in 0 .. z
  <2>1. CASE k \in 0 .. n - 1
    BY <2>1 DEF Laid
  <2>2. CASE k = n
    BY <1>0, <2>2
  <2>3. CASE k = n + 1
    BY <1>0, <2>3
  <2>4. k \in 0 .. n - 1 \/ k = n \/ k = n + 1
    OBVIOUS
  <2> QED BY <2>1, <2>2, <2>3, <2>4, Zenon
<1>2. ASSUME NEW k \in 0 .. n PROVE G[k] \in Nat \ {0} /\ B[k] + G[k] <= z
  <2>1. CASE k \in 0 .. n - 1
    BY <2>1 DEF Laid
  <2> QED BY <1>0, <2>1
<1>3. ASSUME NEW k \in 1 .. n + 1, NEW j \in 0 .. n, j < k
      PROVE  Log(B, j, z) + G[j] <= Log(B, k, z)
  <2>0. B[0] \in 0 .. z /\ B[j] \in 0 .. z /\ B[k] \in 0 .. z /\ G[j] \in Nat \ {0}
    BY <1>1, <1>2
  <2>1. CASE k \in 0 .. n - 1
    <3>1. Log(A, j, z) + F[j] <= Log(A, k, z)
      BY <1>3, <2>1 DEF Laid
    <3>2. j \in 0 .. n - 1 /\ 0 \in 0 .. n - 1
      BY <1>3, <2>1
    <3> QED BY <2>1, <3>1, <3>2 DEF Log
  <2>2. CASE j = n
    <3>1. k = n + 1 /\ B[j] = a /\ B[k] = a + fs /\ G[j] = fs
      BY <1>3, <2>2
    <3>2. CASE n = 0
      BY <1>0, <3>1, <3>2, <2>2 DEF Log
    <3>3. CASE n # 0
      <4>1. B[0] = A[0]
        BY <3>3
      <4> QED BY <1>0, <3>1, <4>1 DEF Log
    <3> QED BY <3>2, <3>3
  <2>3. CASE k \in n .. n + 1 /\ j \in 0 .. n - 1
    <3>1. /\ B[0] = A[0] /\ B[j] = A[j] /\ G[j] = F[j]
          /\ B[k] = a \/ B[k] = a + fs
      BY <2>3
    <3>2. \/ A[j] >= A[0] /\ (A[n] >= A[0] => A[j] + F[j] <= A[n])
          \/ A[n] < A[0] /\ A[j] < A[0] /\ A[j] + F[j] <= A[n]
      BY <2>3, BeforeRoom
    <3>3. A[j] + F[j] <= z
      BY <2>3 DEF Laid
    <3> QED BY <1>0, <2>0, <3>1, <3>2, <3>3 DEF Log
  <2> QED BY <1>3, <2>1, <2>2, <2>3
<1> QED BY <1>1, <1>2, <1>3 DEF Laid

\* A block more before the first.
OneBefore(A, F, n, z, B, G, m) ==
  /\ Laid(A, F, n, z)
  /\ m = n + 1 /\ G[0] \in Nat \ {0}
  /\ \A k \in 0 .. n : B[k + 1] = A[k]
  /\ \A k \in 0 .. n - 1 : G[k + 1] = F[k]
  /\ \/ A[n] >= A[0] /\ A[0] >= G[0] /\ B[0] = A[0] - G[0]
     \/ A[n] >= A[0] /\ z - A[n] > G[0] /\ B[0] = z - G[0]
     \/ A[n] < A[0] /\ A[0] - A[n] > G[0] /\ B[0] = A[0] - G[0]

\* And with one more in front of them.
LEMMA LaidFront ==
  ASSUME NEW n \in Nat, NEW z \in Nat, NEW A, NEW F, NEW m, NEW B, NEW G,
         OneBefore(A, F, n, z, B, G, m)
  PROVE  Laid(B, G, m, z)
<1> USE DEF OneBefore
<1> DEFINE fs == G[0]
           a  == B[0]
<1>0. A[0] \in 0 .. z /\ A[n] \in 0 .. z
  BY DEF Laid
<1>1. ASSUME NEW k \in 1 .. n + 1 PROVE B[k] = A[k - 1] /\ A[k - 1] \in 0 .. z
  <2>1. k - 1 \in 0 .. n /\ (k - 1) + 1 = k
    OBVIOUS
  <2>2. B[(k - 1) + 1] = A[k - 1]
    BY <2>1
  <2> QED BY <2>1, <2>2 DEF Laid
<1>2. ASSUME NEW k \in 1 .. n
      PROVE  G[k] = F[k - 1] /\ F[k - 1] \in Nat \ {0} /\ A[k - 1] + F[k - 1] <= z
  <2>1. k - 1 \in 0 .. n - 1 /\ (k - 1) + 1 = k
    OBVIOUS
  <2>2. G[(k - 1) + 1] = F[k - 1]
    BY <2>1
  <2> QED BY <2>1, <2>2 DEF Laid
<1>3. ASSUME NEW k \in 0 .. n + 1 PROVE B[k] \in 0 .. z
  <2>1. CASE k = 0
    BY <1>0, <2>1
  <2>2. CASE k # 0
    BY <1>1, <2>2
  <2> QED BY <2>1, <2>2
<1>4. ASSUME NEW k \in 0 .. n PROVE G[k] \in Nat \ {0} /\ B[k] + G[k] <= z
  <2>1. CASE k = 0
    BY <1>0, <2>1
  <2>2. CASE k # 0
    <3>1. k \in 1 .. n /\ k \in 1 .. n + 1
      BY <2>2
    <3> QED BY <1>1, <1>2, <3>1
  <2> QED BY <2>1, <2>2
<1>5. ASSUME NEW i \in 0 .. n
      PROVE  /\ A[i] \in 0 .. z
             /\ \/ A[i] >= A[0] /\ (A[n] >= A[0] => A[i] <= A[n])
                \/ A[n] < A[0] /\ A[i] < A[0] /\ A[i] <= A[n]
  <2>1. CASE i = n
    BY <1>0, <2>1
  <2>2. CASE i \in 0 .. n - 1
    <3>1. A[i] \in 0 .. z /\ F[i] \in Nat \ {0}
      BY <2>2 DEF Laid
    <3> QED BY <1>0, <2>2, <3>1, BeforeRoom
  <2> QED BY <2>1, <2>2
<1>6. PICK d \in {0, z} : /\ \A k \in 1 .. n + 1 : Log(B, k, z) = Log(A, k - 1, z) + d
                         /\ \A k \in 1 .. n + 1 : a + fs <= Log(B, k, z)
  <2>1. CASE a = A[0] - fs
    <3>1. ASSUME NEW k \in 1 .. n + 1
          PROVE  Log(B, k, z) = Log(A, k - 1, z) /\ a + fs <= Log(B, k, z)
      <4>1. k - 1 \in 0 .. n
        OBVIOUS
      <4> QED BY <1>0, <1>1, <1>5, <2>1, <4>1 DEF Log
    <3>2. ASSUME NEW k \in 1 .. n + 1 PROVE Log(A, k - 1, z) + 0 = Log(A, k - 1, z)
      BY <1>0, <1>1 DEF Log
    <3> QED BY <3>1, <3>2
  <2>2. CASE A[n] >= A[0] /\ z - A[n] > fs /\ a = z - fs
    <3>1. ASSUME NEW k \in 1 .. n + 1
          PROVE  Log(B, k, z) = Log(A, k - 1, z) + z /\ a + fs <= Log(B, k, z)
      <4>1. k - 1 \in 0 .. n
        OBVIOUS
      <4> QED BY <1>0, <1>1, <1>5, <2>2, <4>1 DEF Log
    <3> QED BY <3>1
  <2> QED BY <2>1, <2>2
<1>7. ASSUME NEW k \in 1 .. n + 1, NEW j \in 0 .. n, j < k
      PROVE  Log(B, j, z) + G[j] <= Log(B, k, z)
  <2>1. CASE j = 0
    <3>1. Log(B, 0, z) = a
      BY <1>3 DEF Log
    <3> QED BY <1>6, <2>1, <3>1
  <2>2. CASE j # 0
    <3>1. /\ j \in 1 .. n + 1 /\ j - 1 \in 0 .. n - 1 /\ k - 1 \in 1 .. n /\ j - 1 < k - 1
          /\ G[j] = F[j - 1] /\ F[j - 1] \in Nat
      BY <1>2, <1>7, <2>2
    <3>2. Log(A, j - 1, z) + F[j - 1] <= Log(A, k - 1, z)
      BY <3>1 DEF Laid
    <3>3. Log(A, j - 1, z) \in Nat /\ Log(A, k - 1, z) \in Nat
      BY <1>5, <3>1 DEF Log
    <3>4. Log(B, j, z) = Log(A, j - 1, z) + d /\ Log(B, k, z) = Log(A, k - 1, z) + d
      BY <1>6, <3>1
    <3> QED BY <3>1, <3>2, <3>3, <3>4
  <2> QED BY <2>1, <2>2
<1> QED BY <1>3, <1>4, <1>7 DEF Laid

\* The last block is taken away.
LEMMA LaidPopBack ==
  ASSUME NEW n \in Nat \ {0}, NEW z \in Nat, NEW A, NEW F, Laid(A, F, n, z),
         NEW m, m = n - 1
  PROVE  Laid(A, F, m, z)
<1>1. \A k \in 0 .. n - 1 : A[k] \in 0 .. z
  BY DEF Laid
<1> QED BY <1>1 DEF Laid

\* The first block is taken away.
FirstGone(A, F, n, z, B, G, m) ==
  /\ Laid(A, F, n, z)
  /\ m = n - 1
  /\ \A k \in 0 .. n - 1 : B[k] = A[k + 1]
  /\ \A k \in 0 .. n - 2 : G[k] = F[k + 1]

\* And with the first one gone.
LEMMA LaidPopFront ==
  ASSUME NEW n \in Nat \ {0}, NEW z \in Nat, NEW A, NEW F, NEW m, NEW B, NEW G,
         FirstGone(A, F, n, z, B, G, m)
  PROVE  Laid(B, G, m, z)
<1> USE DEF FirstGone
<1>1. ASSUME NEW k \in 0 .. n - 1 PROVE B[k] \in 0 .. z
  <2>1. k + 1 \in 0 .. n
    OBVIOUS
  <2> QED BY <2>1 DEF Laid
<1>2. ASSUME NEW k \in 0 .. n - 2 PROVE G[k] \in Nat \ {0} /\ B[k] + G[k] <= z
  <2>1. k \in 0 .. n - 1 /\ k + 1 \in 0 .. n - 1
    OBVIOUS
  <2> QED BY <2>1 DEF Laid
<1>3. /\ A[0] \in 0 .. z /\ A[1] \in 0 .. z /\ F[0] \in Nat \ {0}
      /\ A[1] >= A[0] => A[0] + F[0] <= A[1]
  <2>1. Log(A, 0, z) + F[0] <= Log(A, 1, z) /\ A[0] \in 0 .. z /\ A[1] \in 0 .. z /\ F[0] \in Nat \ {0}
    BY DEF Laid
  <2> QED BY <2>1 DEF Log
\* Seen from the second block the others are as far as before.
<1>4. ASSUME NEW k \in 0 .. n - 1
      PROVE  Log(A, k + 1, z) = Log(B, k, z) + IF A[1] >= A[0] THEN 0 ELSE z
  <2>1. /\ k + 1 \in 1 .. n /\ B[k] = A[k + 1] /\ B[0] = A[1] /\ B[k] \in 0 .. z
    BY <1>1
  <2>2. CASE k = 0
    BY <1>3, <2>1, <2>2 DEF Log
  <2>3. CASE k # 0
    <3>1. Log(A, 1, z) + F[1] <= Log(A, k + 1, z) /\ F[1] \in Nat \ {0}
      <4>1. 1 \in 0 .. n - 1 /\ 1 < k + 1
        BY <2>3
      <4> QED BY <2>1, <4>1 DEF Laid
    <3> QED BY <1>3, <2>1, <3>1 DEF Log
  <2> QED BY <2>2, <2>3
<1>5. ASSUME NEW k \in 1 .. n - 1, NEW j \in 0 .. n - 2, j < k
      PROVE  Log(B, j, z) + G[j] <= Log(B, k, z)
  <2>1. /\ k + 1 \in 1 .. n /\ j + 1 \in 0 .. n - 1 /\ j + 1 < k + 1
        /\ j \in 0 .. n - 1 /\ k \in 0 .. n - 1 /\ 0 \in 0 .. n - 1
    BY <1>5
  <2>2. Log(A, j + 1, z) + F[j + 1] <= Log(A, k + 1, z)
    BY <2>1 DEF Laid
  <2>3. Log(B, j, z) \in Nat /\ Log(B, k, z) \in Nat /\ G[j] \in Nat /\ G[j] = F[j + 1]
    BY <1>1, <1>2, <2>1 DEF Log
  <2> QED BY <1>4, <2>1, <2>2, <2>3
<1> QED BY <1>1, <1>2, <1>5 DEF Laid

-----------------------------------------------------------------------------
\* Arithmetic of the index slots.

\* A remainder of less than twice the divisor.
LEMMA ModTwice ==
  ASSUME NEW n \in Nat \ {0}, NEW x \in 0 .. 2 * n - 1
  PROVE  x % n = IF x < n THEN x ELSE x - n
<1>1. CASE x < n
  BY <1>1
<1>2. CASE x >= n
  <2>1. x % n = (x - n) % n
    OBVIOUS
  <2> QED BY <1>2, <2>1
<1> QED BY <1>1, <1>2

\* The slot k behind i.
LEMMA SlotBehind ==
  ASSUME NEW n \in Nat \ {0}, NEW i \in 0 .. n - 1, NEW k \in 0 .. n - 1
  PROVE  /\ (i + k) % n = IF i + k < n THEN i + k ELSE i + k - n
         /\ (i + k) % n \in 0 .. n - 1
<1> DEFINE x == i + k
<1>1. x \in 0 .. 2 * n - 1
  OBVIOUS
<1> HIDE DEF x
<1>2. x % n = IF x < n THEN x ELSE x - n
  BY <1>1, ModTwice
<1> QED BY <1>2 DEF x

\* The slots next to i.
LEMMA SlotBeside ==
  ASSUME NEW n \in Nat \ {0}, NEW i \in 0 .. n - 1
  PROVE  /\ (i + 1) % n = IF i = n - 1 THEN 0 ELSE i + 1
         /\ (i + n - 1) % n = IF i = 0 THEN n - 1 ELSE i - 1
<1> DEFINE x == i + 1
           y == i + n - 1
<1>1. x \in 0 .. 2 * n - 1 /\ y \in 0 .. 2 * n - 1
  OBVIOUS
<1> HIDE DEF x, y
<1>2. x % n = IF x < n THEN x ELSE x - n
  BY <1>1, ModTwice
<1>3. y % n = IF y < n THEN y ELSE y - n
  BY <1>1, ModTwice
<1> QED BY <1>2, <1>3 DEF x, y

\* The number of blocks from h to t.
LEMMA CountBetween ==
  ASSUME NEW n \in Nat \ {0}, NEW h \in 0 .. n - 1, NEW t \in 0 .. n - 1
  PROVE  (t + n - h) % n = IF t >= h THEN t - h ELSE t + n - h
<1> DEFINE x == t + n - h
<1>1. x \in 0 .. 2 * n - 1
  OBVIOUS
<1> HIDE DEF x
<1>2. x % n = IF x < n THEN x ELSE x - n
  BY <1>1, ModTwice
<1> QED BY <1>2 DEF x

-----------------------------------------------------------------------------
\* What is known of the static mode.

\* What every call in static mode starts from.
StaticOK == Static /\ TypeOK /\ LayoutInv

\* What each block takes in the memory.
Sizes == [k \in 0 .. Count - 1 |-> Full(k)]

\* The addresses of the blocks and of the room behind them, once a push has
\* looked for them.
Addrs == [k \in 0 .. Count |-> IndexNow[(head + k) % slots]]

\* PaddingSize rounds a number up to a number.
LEMMA Paddings == \A s \in Nat : PaddingSize(s) \in Nat
<1> SUFFICES ASSUME NEW s \in Nat PROVE PaddingSize(s) \in Nat
  OBVIOUS
<1> DEFINE x == (s + Word - 1) \div Word
<1>1. x \in Nat
  BY LayoutAssumption
<1> HIDE DEF x
<1>2. x * Word \in Nat
  BY <1>1, LayoutAssumption
<1> QED BY <1>2 DEF PaddingSize, x

\* A block is never of size zero: it has a header.
LEMMA FullSizes == \A s \in Nat : FullSize(s) \in Nat \ {0}
BY Paddings, LayoutAssumption DEF FullSize

\* The ring of slots: how many blocks there are and where they begin and end.
LEMMA StaticTypes ==
  ASSUME StaticOK
  PROVE  /\ area \in Nat \ {0} /\ slots \in Nat \ {0} /\ slots > 1
         /\ head \in 0 .. slots - 1 /\ tail \in 0 .. slots - 1
         /\ DOMAIN index = 0 .. slots - 1 /\ index \in [0 .. slots - 1 -> 0 .. area \cup {NULL}]
         /\ mem \in [0 .. area - 1 -> Sound]
         /\ Count = (IF tail >= head THEN tail - head ELSE tail + slots - head)
         /\ Count \in 0 .. slots - 1
         /\ (head + Count) % slots = tail
<1>1. /\ area \in Nat \ {0} /\ slots \in Nat \ {0} /\ slots > 1
      /\ head \in 0 .. slots - 1 /\ tail \in 0 .. slots - 1
      /\ DOMAIN index = 0 .. slots - 1 /\ index \in [0 .. slots - 1 -> 0 .. area \cup {NULL}]
      /\ mem \in [0 .. area - 1 -> Sound]
  BY DEF StaticOK, TypeOK, Static, Sound
<1>2. Count = (IF tail >= head THEN tail - head ELSE tail + slots - head)
  BY <1>1, CountBetween DEF Count
<1>3. Count \in 0 .. slots - 1
  BY <1>1, <1>2
<1>4. (head + Count) % slots = IF head + Count < slots THEN head + Count ELSE head + Count - slots
  BY <1>1, <1>3, SlotBehind
<1>5. (head + Count) % slots = tail
  BY <1>1, <1>2, <1>4
<1> QED BY <1>1, <1>2, <1>3, <1>5

\* The blocks are laid out as they should be, also where a push begins anew.
LEMMA StaticLaid ==
  ASSUME StaticOK
  PROVE  /\ HeadNow = head /\ TailNow = tail
         /\ IndexNow \in [0 .. slots - 1 -> 0 .. area \cup {NULL}]
         /\ HeadAt = Addrs[0] /\ TailAt = Addrs[Count]
         /\ Laid(Addrs, Sizes, Count, area)
         /\ Count = 0 => Addrs[0] = 0 /\ head = 0
         /\ \A k \in 0 .. Count - 1 : At(k) = Addrs[k] /\ At(k) \in 0 .. area - 1
         /\ \A k \in 0 .. Count : Addrs[k] = IndexNow[(head + k) % slots]
         /\ Count > 0 => ~Fresh
<1>1. /\ area \in Nat \ {0} /\ slots \in Nat \ {0} /\ slots > 1
      /\ head \in 0 .. slots - 1 /\ tail \in 0 .. slots - 1
      /\ index \in [0 .. slots - 1 -> 0 .. area \cup {NULL}]
      /\ mem \in [0 .. area - 1 -> Sound]
      /\ Count \in 0 .. slots - 1
      /\ (head + Count) % slots = tail /\ (head + 0) % slots = head
      /\ \A k \in 0 .. Count : (head + k) % slots \in 0 .. slots - 1
  <2>0. \A k \in 0 .. Count : k \in 0 .. slots - 1
    BY StaticTypes
  <2>1. (head + 0) % slots = head
    <3>1. head \in 0 .. slots - 1 /\ 0 \in 0 .. slots - 1 /\ slots \in Nat \ {0}
      BY StaticTypes
    <3> HIDE DEF Count
    <3>2. (head + 0) % slots = IF head + 0 < slots THEN head + 0 ELSE head + 0 - slots
      BY ONLY <3>1, SlotBehind
    <3> QED BY <3>1, <3>2
  <2>2. \A k \in 0 .. Count : (head + k) % slots \in 0 .. slots - 1
    BY <2>0, StaticTypes, SlotBehind
  <2> QED BY <2>1, <2>2, StaticTypes
<1>2. /\ Count = 0 => head = 0 /\ index[0] \in {NULL, 0}
      /\ Count > 0 => \A k \in 0 .. Count : At(k) # NULL
      /\ \A k \in 0 .. Count - 1 : At(k) \in DOMAIN mem /\ At(k) + Full(k) <= area
      /\ \A k \in 1 .. Count, j \in 0 .. Count - 1 :
           j < k => Logical(j) + Full(j) <= Logical(k)
  BY DEF StaticOK, LayoutInv
<1>3. CASE Count = 0
  <2>1. head = 0 /\ tail = 0 /\ index[0] \in {NULL, 0}
    BY <1>1, <1>2, <1>3
  <2>2. /\ HeadNow = 0 /\ TailNow = 0
        /\ IndexNow \in [0 .. slots - 1 -> 0 .. area \cup {NULL}] /\ IndexNow[0] = 0
    BY <1>1, <2>1 DEF HeadNow, TailNow, IndexNow, Fresh
  <2>3. Addrs = [k \in 0 .. 0 |-> 0]
    BY <1>1, <1>3, <2>1, <2>2 DEF Addrs
  <2>4. Laid(Addrs, Sizes, Count, area)
    BY <1>1, <1>3, <2>3 DEF Laid
  <2> QED BY <1>1, <1>3, <2>1, <2>2, <2>3, <2>4 DEF HeadAt, TailAt
<1>4. CASE Count # 0
  <2>0. At(0) = index[head] /\ At(Count) = index[tail]
    BY <1>1 DEF At
  <2>1. /\ At(0) = index[head] /\ At(Count) = index[tail]
        /\ 0 \in 0 .. Count /\ Count \in 0 .. Count /\ Count > 0
    BY <1>1, <1>4, <2>0
  <2>2. ~Fresh
    BY <1>2, <2>1 DEF Fresh
  <2>3. HeadNow = head /\ TailNow = tail /\ IndexNow = index
    BY <2>2 DEF HeadNow, TailNow, IndexNow
  <2>4. \A k \in 0 .. Count : Addrs[k] = At(k) /\ At(k) \in 0 .. area
    BY <1>1, <1>2, <2>1, <2>3 DEF Addrs, At
  <2>5. ASSUME NEW k \in 0 .. Count - 1
        PROVE  At(k) \in 0 .. area - 1 /\ Sizes[k] = Full(k) /\ Full(k) \in Nat \ {0}
    <3>1. At(k) \in 0 .. area - 1
      BY <1>1, <1>2
    <3>2. mem[At(k)].size \in Nat
      BY <1>1, <3>1 DEF Sound, BlockType
    <3>3. Full(k) \in Nat \ {0}
      BY <3>2, FullSizes DEF Full
    <3> QED BY <3>1, <3>3 DEF Sizes
  <2>6. \A k \in 0 .. Count : Log(Addrs, k, area) = Logical(k)
    BY <2>1, <2>4 DEF Log, Logical
  <2> HIDE DEF Addrs
  <2>7. Laid(Addrs, Sizes, Count, area)
    BY <1>1, <1>2, <2>4, <2>5, <2>6 DEF Laid
  <2>8. HeadAt = Addrs[0] /\ TailAt = Addrs[Count]
    BY <1>1, <2>1, <2>3, <2>4 DEF HeadAt, TailAt
  <2>9. \A k \in 0 .. Count : Addrs[k] = IndexNow[(head + k) % slots]
    BY DEF Addrs
  <2> QED BY <1>1, <1>4, <2>2, <2>3, <2>4, <2>5, <2>7, <2>8, <2>9
<1> QED BY <1>1, <1>3, <1>4

\* Types of the static part of the state.
StaticTyped ==
  /\ area \in Nat /\ slots \in Nat
  /\ index \in [DOMAIN index -> 0 .. area \cup {NULL}]
  /\ Static => /\ slots > 1 /\ DOMAIN index = 0 .. slots - 1
               /\ head \in DOMAIN index /\ tail \in DOMAIN index
  /\ DOMAIN mem = 0 .. area - 1
  /\ mem \in [DOMAIN mem -> Sound]

\* Blocks that are laid out are so in the sense of LayoutInv.
LEMMA LaidIsLayout ==
  ASSUME area' \in Nat \ {0}, mem' \in [0 .. area' - 1 -> Sound],
         Count' \in Nat, Count' = 0 => head' = 0 /\ index'[0] \in {NULL, 0},
         NEW B, NEW G, Laid(B, G, Count', area'),
         \A k \in 0 .. Count' : At(k)' = B[k], \A k \in 0 .. Count' - 1 : Full(k)' = G[k]
  PROVE  LayoutInv'
<1> DEFINE n == Count'
<1> HIDE DEF n
<1>0. /\ n \in Nat
      /\ n = 0 => head' = 0 /\ index'[0] \in {NULL, 0}
      /\ Laid(B, G, n, area')
      /\ \A k \in 0 .. n : At(k)' = B[k]
      /\ \A k \in 0 .. n - 1 : Full(k)' = G[k]
  BY DEF n
<1>1. /\ \A k \in 0 .. n : B[k] \in 0 .. area'
      /\ \A k \in 0 .. n - 1 : G[k] \in Nat \ {0} /\ B[k] + G[k] <= area'
      /\ \A k \in 1 .. n, j \in 0 .. n - 1 :
           j < k => Log(B, j, area') + G[j] <= Log(B, k, area')
  BY <1>0 DEF Laid
<1>2. \A k \in 0 .. n : Logical(k)' = Log(B, k, area')
  BY <1>0 DEF Logical, Log
<1>3. ASSUME NEW k \in 0 .. n PROVE At(k)' # NULL
  <2>1. At(k)' = B[k] /\ B[k] \in 0 .. area'
    BY <1>0, <1>1
  <2> QED BY <2>1 DEF NULL
<1>4. \A k \in 0 .. n - 1 : At(k)' \in DOMAIN mem' /\ At(k)' + Full(k)' <= area'
  <2> SUFFICES ASSUME NEW k \in 0 .. n - 1
               PROVE  At(k)' \in DOMAIN mem' /\ At(k)' + Full(k)' <= area'
    OBVIOUS
  <2>1. k \in 0 .. n
    BY <1>0
  <2>2. /\ B[k] \in 0 .. area' /\ G[k] \in Nat \ {0} /\ B[k] + G[k] <= area'
        /\ At(k)' = B[k] /\ Full(k)' = G[k]
    BY <1>0, <1>1, <2>1
  <2> QED BY <2>2
<1>5. ASSUME NEW k \in 1 .. n, NEW j \in 0 .. n - 1, j < k
      PROVE  Logical(j)' + Full(j)' <= Logical(k)'
  <2>1. k \in 0 .. n /\ j \in 0 .. n
    BY <1>0
  <2> QED BY <1>0, <1>1, <1>2, <1>5, <2>1
<1> QED BY <1>0, <1>3, <1>4, <1>5 DEF LayoutInv, n

\* What happens to the queue and its cost.
Kept == Contents' = Contents /\ cost' = cost
Pushed(q, s) ==
  Contents' = q /\ cost' = [size |-> cost.size + s, number |-> cost.number + 1]

\* A new block has nothing consumed.
LEMMA NewBlock ==
  ASSUME NEW s \in Nat, NEW v \in Payloads
  PROVE  Block(v, s) \in Sound /\ Left(Block(v, s)) = s /\ Block(v, s).size = s
BY DEF Block, Sound, BlockType, Left

\* The queue as a sequence.
LEMMA StaticContents ==
  ASSUME StaticOK
  PROVE  /\ Contents \in Seq(Sound) /\ Len(Contents) = Count
         /\ \A k \in 0 .. Count - 1 : Contents[k + 1] = mem[At(k)]
<1>1. Contents = [k \in 1 .. Count |-> mem[At(k - 1)]]
  BY DEF Contents, StaticOK
<1>2. Count \in Nat
  BY StaticTypes
<1>3. ASSUME NEW k \in 1 .. Count PROVE mem[At(k - 1)] \in Sound
  <2>1. k - 1 \in 0 .. Count - 1
    BY <1>2
  <2>2. At(k - 1) \in 0 .. area - 1
    BY <2>1, StaticLaid
  <2> QED BY <2>2, StaticTypes
<1>4. Contents \in Seq(Sound) /\ Len(Contents) = Count
  BY <1>1, <1>2, <1>3
<1>5. ASSUME NEW k \in 0 .. Count - 1 PROVE Contents[k + 1] = mem[At(k)]
  <2>1. k + 1 \in 1 .. Count /\ (k + 1) - 1 = k
    BY <1>2
  <2> QED BY <1>1, <2>1
<1> QED BY <1>4, <1>5

\* The queue after a step is read off the memory after it.
LEMMA StaticContentsNext ==
  ASSUME Static', NEW m \in Nat, Count' = m, \A k \in 0 .. m - 1 : mem'[At(k)'] \in Sound
  PROVE  /\ Contents' \in Seq(Sound) /\ Len(Contents') = m
         /\ \A k \in 0 .. m - 1 : Contents'[k + 1] = mem'[At(k)']
<1>1. Contents' = [k \in 1 .. m |-> mem'[At(k - 1)']]
  BY DEF Contents
<1>3. ASSUME NEW k \in 1 .. m PROVE mem'[At(k - 1)'] \in Sound
  <2>1. k - 1 \in 0 .. m - 1
    OBVIOUS
  <2> QED BY <2>1
<1>4. Contents' \in Seq(Sound) /\ Len(Contents') = m
  BY <1>1, <1>3
<1>5. ASSUME NEW k \in 0 .. m - 1 PROVE Contents'[k + 1] = mem'[At(k)']
  <2>1. k + 1 \in 1 .. m /\ (k + 1) - 1 = k
    OBVIOUS
  <2> QED BY <1>1, <2>1
<1> QED BY <1>4, <1>5

\* A sequence that is another with one more behind, or before.
LEMMA IsAppend ==
  ASSUME NEW S, NEW q \in Seq(S), NEW b \in S, NEW r \in Seq(S), Len(r) = Len(q) + 1,
         \A k \in 0 .. Len(q) - 1 : r[k + 1] = q[k + 1], r[Len(q) + 1] = b
  PROVE  r = Append(q, b)
<1>1. \A i \in 1 .. Len(r) : r[i] = Append(q, b)[i]
  <2> SUFFICES ASSUME NEW i \in 1 .. Len(r) PROVE r[i] = Append(q, b)[i]
    OBVIOUS
  <2>1. CASE i = Len(q) + 1
    BY <2>1, AppendProperties
  <2>2. CASE i # Len(q) + 1
    <3>1. i - 1 \in 0 .. Len(q) - 1 /\ (i - 1) + 1 = i /\ i \in 1 .. Len(q)
      BY <2>2
    <3>2. r[(i - 1) + 1] = q[(i - 1) + 1]
      BY <3>1
    <3> QED BY <3>1, <3>2, AppendProperties
  <2> QED BY <2>1, <2>2
<1>2. Append(q, b) \in Seq(S) /\ Len(Append(q, b)) = Len(q) + 1
  BY AppendProperties
<1> QED BY <1>1, <1>2, SeqEqual

\* How to see that a sequence is another with one element in front.
LEMMA IsPrepend ==
  ASSUME NEW S, NEW q \in Seq(S), NEW b \in S, NEW r \in Seq(S), Len(r) = Len(q) + 1,
         \A k \in 0 .. Len(q) - 1 : r[(k + 1) + 1] = q[k + 1], r[1] = b
  PROVE  r = <<b>> \o q
<1>1. <<b>> \o q \in Seq(S) /\ Len(<<b>> \o q) = Len(q) + 1
  OBVIOUS
<1>2. (<<b>> \o q)[1] = b /\ \A i \in 1 .. Len(q) : (<<b>> \o q)[i + 1] = q[i]
  OBVIOUS
<1> DEFINE t == <<b>> \o q
<1> HIDE DEF t
<1>3. \A i \in 1 .. Len(r) : r[i] = t[i]
  <2> SUFFICES ASSUME NEW i \in 1 .. Len(r) PROVE r[i] = t[i]
    OBVIOUS
  <2>1. CASE i = 1
    BY <1>2, <2>1 DEF t
  <2>2. CASE i # 1
    <3>1. i - 1 \in 1 .. Len(q) /\ i - 2 \in 0 .. Len(q) - 1 /\ (i - 1) + 1 = i /\ (i - 2) + 1 = i - 1
      BY <2>2
    <3>2. r[((i - 2) + 1) + 1] = q[(i - 2) + 1]
      BY <3>1
    <3>3. t[(i - 1) + 1] = q[i - 1]
      BY <1>2, <3>1 DEF t
    <3> QED BY <3>1, <3>2, <3>3
  <2> QED BY <2>1, <2>2
<1> QED BY <1>1, <1>3, SeqEqual DEF t

\* What begins at x is not touched when the block b is created at a.
Beside(x, a, b) == x + FullSize(mem[x].size) <= a \/ a + FullSize(b.size) <= x

\* Writing the header of a block changes no block that lies beside it.
LEMMA CreateKeeps ==
  ASSUME mem \in [0 .. area - 1 -> Sound], area \in Nat, NEW b \in Sound, NEW a \in 0 .. area - 1
  PROVE  /\ Create(a, b) \in [0 .. area - 1 -> Sound] /\ Create(a, b)[a] = b
         /\ \A x \in 0 .. area - 1 : Beside(x, a, b) => Create(a, b)[x] = mem[x]
<1>1. NoBlock \in Sound /\ \A c \in Sound : [c EXCEPT !.what = Garbage] \in Sound
  BY DEF NoBlock, Sound, BlockType
<1>2. \A c \in Sound : FullSize(c.size) \in Nat \ {0}
  BY FullSizes DEF Sound, BlockType
<1>3. DOMAIN mem = 0 .. area - 1 /\ \A x \in 0 .. area - 1 : mem[x] \in Sound
  OBVIOUS
<1>4. Create(a, b) \in [0 .. area - 1 -> Sound] /\ Create(a, b)[a] = b
  BY <1>1, <1>3 DEF Create
<1>5. ASSUME NEW x \in 0 .. area - 1, Beside(x, a, b)
      PROVE  Create(a, b)[x] = mem[x]
  <2>1. FullSize(mem[x].size) \in Nat \ {0} /\ FullSize(b.size) \in Nat \ {0}
    BY <1>2, <1>3
  <2>2. x # a /\ ~(a < x /\ x < a + FullSize(b.size)) /\ ~(x < a /\ a < x + FullSize(mem[x].size))
    BY <1>5, <2>1 DEF Beside
  <2> QED BY <1>3, <2>2 DEF Create
<1> QED BY <1>4, <1>5

-----------------------------------------------------------------------------
\* Pushes of the static mode.

\* What a refused push leaves: the slots may have been begun anew.
LEMMA StaticNoRoom ==
  ASSUME StaticOK, NoRoom
  PROVE  StaticTyped' /\ LayoutInv' /\ Kept
<1>1. /\ index' = IndexNow /\ head' = head /\ tail' = tail
      /\ area' = area /\ slots' = slots /\ mem' = mem /\ cost' = cost
  BY StaticLaid DEF NoRoom
<1>2. Count' = Count
  BY <1>1 DEF Count
<1>3. \A k \in 0 .. Count : At(k)' = Addrs[k]
  BY <1>1, StaticLaid DEF At
<1>4. \A k \in 0 .. Count - 1 : At(k)' = At(k) /\ Full(k)' = Sizes[k]
  <2>1. ASSUME NEW k \in 0 .. Count - 1 PROVE At(k)' = At(k)
    <3>1. k \in 0 .. Count
      BY StaticTypes
    <3>2. At(k) = Addrs[k]
      BY StaticLaid
    <3> QED BY <1>3, <3>1, <3>2
  <2> QED BY <1>1, <2>1 DEF Full, Sizes
<1>5. StaticTyped'
  BY <1>1, StaticTypes, StaticLaid DEF StaticTyped
<1>6. LayoutInv'
  <2>1. Count = 0 => head' = 0 /\ index'[0] \in {NULL, 0}
    <3>1. Count = 0 => index'[(head + 0) % slots] = 0 /\ head = 0
      BY <1>1, StaticLaid, StaticTypes
    <3>2. (0 + 0) % slots = 0
      BY StaticTypes, SlotBehind
    <3> QED BY <1>1, <3>1, <3>2
  <2>2. Laid(Addrs, Sizes, Count, area)
    BY StaticLaid
  <2>3. Count \in Nat /\ area \in Nat \ {0} /\ mem \in [0 .. area - 1 -> Sound]
    BY StaticTypes
  <2> QED BY <1>1, <1>2, <1>3, <1>4, <2>1, <2>2, <2>3, LaidIsLayout
<1>7. Contents' = Contents
  <2>0. Count \in Nat /\ Static'
    BY <1>1, StaticTypes DEF StaticOK, Static
  <2>1. ASSUME NEW k \in 0 .. Count - 1
        PROVE  mem'[At(k)'] = mem[At(k)] /\ mem[At(k)] \in Sound
    BY <1>1, <1>4, StaticLaid, StaticTypes
  <2>2. /\ Contents' \in Seq(Sound) /\ Len(Contents') = Count
        /\ \A k \in 0 .. Count - 1 : Contents'[k + 1] = mem'[At(k)']
    BY <1>2, <2>0, <2>1, StaticContentsNext
  <2>3. \A i \in 1 .. Count : Contents'[i] = Contents[i]
    <3> SUFFICES ASSUME NEW i \in 1 .. Count PROVE Contents'[i] = Contents[i]
      OBVIOUS
    <3>1. i - 1 \in 0 .. Count - 1 /\ (i - 1) + 1 = i
      BY <2>0
    <3>2. Contents'[(i - 1) + 1] = mem'[At(i - 1)'] /\ Contents[(i - 1) + 1] = mem[At(i - 1)]
      BY <2>2, <3>1, StaticContents
    <3> QED BY <2>1, <3>1, <3>2
  <2> QED BY <2>2, <2>3, StaticContents, SeqEqual
<1> QED BY <1>1, <1>5, <1>6, <1>7 DEF Kept

\* A slot of the queue is not one the push writes.
LEMMA SlotsApart ==
  ASSUME NEW n \in Nat \ {0}, NEW h \in 0 .. n - 1, NEW j \in 0 .. n - 1, NEW k \in 0 .. n - 1,
         j # k
  PROVE  (h + j) % n # (h + k) % n
<1>1. (h + j) % n = IF h + j < n THEN h + j ELSE h + j - n
  BY SlotBehind
<1>2. (h + k) % n = IF h + k < n THEN h + k ELSE h + k - n
  BY SlotBehind
<1> QED BY <1>1, <1>2

\* static_push_back, when there is a slot and room: the block goes behind the
\* others and meets none of them.
LEMMA StaticBackPlaced ==
  ASSUME StaticOK, NEW s \in Nat, NEW v \in Payloads, StaticPushBack(s, v),
         Next1(tail) # head, NEW a, a = PlaceBack(HeadAt, TailAt, FullSize(s)), a # NULL,
         NEW n, n = Count
  PROVE  StaticTyped' /\ LayoutInv' /\ Pushed(Append(Contents, Block(v, s)), s)
<1> DEFINE fs == FullSize(s)
           b  == Block(v, s)
           B  == [k \in 0 .. n + 1 |-> IF k = n THEN a ELSE IF k = n + 1 THEN a + fs ELSE Addrs[k]]
           G  == [k \in 0 .. n |-> IF k = n THEN fs ELSE Sizes[k]]
<1>1. /\ mem' = Create(a, b)
      /\ head' = head /\ tail' = Next1(tail)
      /\ index' = [IndexNow EXCEPT ![tail] = a, ![Next1(tail)] = a + fs]
      /\ cost' = [size |-> cost.size + s, number |-> cost.number + 1]
      /\ area' = area /\ slots' = slots
  BY StaticLaid DEF StaticPushBack, Accepted
<1>2. /\ area \in Nat \ {0} /\ slots \in Nat \ {0} /\ slots > 1
      /\ head \in 0 .. slots - 1 /\ tail \in 0 .. slots - 1
      /\ mem \in [0 .. area - 1 -> Sound]
      /\ Count \in 0 .. slots - 1 /\ fs \in Nat \ {0}
      /\ Count = (IF tail >= head THEN tail - head ELSE tail + slots - head)
      /\ (head + Count) % slots = tail
      /\ Next1(tail) = IF tail = slots - 1 THEN 0 ELSE tail + 1
  BY StaticTypes, FullSizes, SlotBeside DEF Next1
<1>3. n + 1 \in 0 .. slots - 1 /\ Count' = n + 1 /\ (head + (n + 1)) % slots = Next1(tail)
  <2>1. n + 1 \in 0 .. slots - 1
    BY <1>2
  <2>2. Next1(tail) \in 0 .. slots - 1
    BY <1>2
  <2>3. Count' = IF Next1(tail) >= head THEN Next1(tail) - head ELSE Next1(tail) + slots - head
    BY <1>1, <1>2, <2>2, CountBetween DEF Count
  <2>4. (head + (n + 1)) % slots = IF head + (n + 1) < slots THEN head + (n + 1) ELSE head + (n + 1) - slots
    BY <1>2, <2>1, SlotBehind
  <2> QED BY <1>2, <2>1, <2>3, <2>4
<1>4. /\ \A k \in 0 .. n - 1 : Addrs[k] = At(k) /\ At(k) \in 0 .. area - 1 /\ Sizes[k] = Full(k)
      /\ \A k \in 0 .. n : Addrs[k] = IndexNow[(head + k) % slots]
      /\ Laid(Addrs, Sizes, n, area)
      /\ HeadAt = Addrs[0] /\ TailAt = Addrs[n]
      /\ IndexNow \in [0 .. slots - 1 -> 0 .. area \cup {NULL}]
  BY StaticLaid DEF Sizes
<1> HIDE DEF fs, b
<1>5. Addrs[0] \in 0 .. area /\ Addrs[n] \in 0 .. area
  BY <1>2, <1>4 DEF Laid
<1>6. /\ \/ Addrs[n] >= Addrs[0] /\ area - Addrs[n] >= fs /\ a = Addrs[n]
         \/ Addrs[n] >= Addrs[0] /\ Addrs[0] > fs /\ a = 0
         \/ Addrs[n] < Addrs[0] /\ Addrs[0] - Addrs[n] > fs /\ a = Addrs[n]
      /\ a \in 0 .. area
  <2>1. a = PlaceBack(Addrs[0], Addrs[n], fs)
    BY <1>4 DEF fs
  <2> QED BY <1>2, <1>5, <2>1 DEF PlaceBack
<1>7. Laid(B, G, n + 1, area)
  <2>1. /\ \A k \in 0 .. n - 1 : B[k] = Addrs[k] /\ G[k] = Sizes[k]
        /\ B[n] = a /\ B[n + 1] = a + fs /\ G[n] = fs
        /\ n \in Nat
    BY <1>2
  <2> DEFINE m == n + 1
  <2>2. m = n + 1 /\ B[m] = B[n] + G[n] /\ G[n] \in Nat \ {0}
    BY <1>2, <2>1
  <2>3. \/ Addrs[n] >= Addrs[0] /\ area - Addrs[n] >= G[n] /\ B[n] = Addrs[n]
        \/ Addrs[n] >= Addrs[0] /\ Addrs[0] > G[n] /\ B[n] = 0
        \/ Addrs[n] < Addrs[0] /\ Addrs[0] - Addrs[n] > G[n] /\ B[n] = Addrs[n]
    BY <1>6, <2>1
  <2> HIDE DEF B, G, m
  <2>4. OneBehind(Addrs, Sizes, n, area, B, G, m)
    BY <1>4, <2>1, <2>2, <2>3 DEF OneBehind
  <2>5. Laid(B, G, m, area)
    BY <1>2, <2>1, <2>4, LaidBack
  <2> QED BY <2>2, <2>5
<1>8. /\ a + fs <= area /\ a \in 0 .. area - 1
      /\ \A k \in 0 .. n - 1 : At(k) + Full(k) <= a \/ a + fs <= At(k)
  <2>1. n \in 0 .. n /\ B[n] = a /\ G[n] = fs /\ \A k \in 0 .. n - 1 : B[k] = At(k) /\ G[k] = Full(k)
    BY <1>2, <1>4
  <2> HIDE DEF B, G
  <2>2. a + fs <= area
    BY <1>2, <1>7, <2>1 DEF Laid
  <2>3. \A k \in 0 .. n - 1 : At(k) + Full(k) <= a \/ a + fs <= At(k)
    <3> SUFFICES ASSUME NEW k \in 0 .. n - 1 PROVE At(k) + Full(k) <= a \/ a + fs <= At(k)
      OBVIOUS
    <3>1. n + 1 \in Nat /\ k \in 0 .. (n + 1) - 1 /\ n \in 0 .. (n + 1) - 1 /\ k < n
      BY <1>2
    <3> QED BY <1>2, <1>7, <2>1, <3>1, BlocksApart
  <2> QED BY <1>2, <1>6, <2>2, <2>3
<1>9. /\ b \in Sound /\ b.size = s
      /\ mem' \in [0 .. area - 1 -> Sound] /\ mem'[a] = b
      /\ \A k \in 0 .. n - 1 : mem'[At(k)] = mem[At(k)]
  <2>1. b \in Sound /\ b.size = s
    BY NewBlock DEF b
  <2>2. \A k \in 0 .. n - 1 : At(k) \in 0 .. area - 1 /\ Full(k) = FullSize(mem[At(k)].size)
    BY <1>4 DEF Full
  <2>3. mem' \in [0 .. area - 1 -> Sound] /\ mem'[a] = b
    BY <1>1, <1>2, <1>8, <2>1, CreateKeeps
  <2>4. ASSUME NEW k \in 0 .. n - 1 PROVE mem'[At(k)] = mem[At(k)]
    <3>1. At(k) \in 0 .. area - 1 /\ Beside(At(k), a, b)
      BY <1>8, <2>1, <2>2 DEF fs, Beside
    <3>2. Create(a, b)[At(k)] = mem[At(k)]
      <4> DEFINE x == At(k)
      <4> HIDE DEF x
      <4>1. x \in 0 .. area - 1 /\ Beside(x, a, b)
        BY <3>1 DEF x
      <4>2. area \in Nat
        BY <1>2
      <4>3. Create(a, b)[x] = mem[x]
        BY <1>2, <1>8, <2>1, <4>1, <4>2, CreateKeeps
      <4> QED BY <4>3 DEF x
    <3> QED BY <1>1, <3>2
  <2> QED BY <2>1, <2>3, <2>4
<1>10. /\ \A k \in 0 .. n - 1 : At(k)' = At(k)
       /\ At(n)' = a /\ At(n + 1)' = a + fs
  <2>1. ASSUME NEW k \in 0 .. n - 1 PROVE At(k)' = At(k)
    <3>1. k \in 0 .. slots - 1 /\ n \in 0 .. slots - 1 /\ k # n /\ k # n + 1 /\ k \in 0 .. n
      BY <1>2, <1>3
    <3>2. (head + k) % slots \in 0 .. slots - 1
      BY <1>2, <3>1, SlotBehind
    <3>3. (head + k) % slots # (head + n) % slots
      BY <1>2, <3>1, SlotsApart
    <3>4. (head + k) % slots # (head + (n + 1)) % slots
      BY <1>2, <1>3, <3>1, SlotsApart
    <3>5. (head + k) % slots # tail /\ (head + k) % slots # Next1(tail)
      BY <1>2, <1>3, <3>3, <3>4
    <3> QED BY <1>1, <1>4, <3>1, <3>2, <3>5 DEF At
  <2>2. Next1(tail) # tail /\ Next1(tail) \in 0 .. slots - 1
    BY <1>2
  <2>3. index'[tail] = a /\ index'[Next1(tail)] = a + fs
    BY <1>1, <1>2, <1>4, <2>2
  <2>4. At(n)' = index'[(head + n) % slots] /\ At(n + 1)' = index'[(head + (n + 1)) % slots]
    BY <1>1 DEF At
  <2>5. At(n)' = a /\ At(n + 1)' = a + fs
    BY <1>2, <1>3, <2>3, <2>4
  <2> QED BY <2>1, <2>5
<1>11. /\ \A k \in 0 .. n + 1 : At(k)' = B[k]
       /\ \A k \in 0 .. n : Full(k)' = G[k]
  <2>1. ASSUME NEW k \in 0 .. n + 1 PROVE At(k)' = B[k]
    <3>1. CASE k = n
      BY <1>2, <1>10, <3>1
    <3>2. CASE k = n + 1
      BY <1>2, <1>10, <3>2
    <3>3. CASE k \in 0 .. n - 1
      BY <1>2, <1>4, <1>10, <3>3
    <3> QED BY <1>2, <3>1, <3>2, <3>3
  <2>2. ASSUME NEW k \in 0 .. n - 1 PROVE Full(k)' = Full(k)
    BY <1>9, <1>10 DEF Full
  <2>3. Full(n)' = fs
    BY <1>9, <1>10 DEF Full, fs
  <2>4. ASSUME NEW k \in 0 .. n PROVE Full(k)' = G[k]
    <3>1. CASE k = n
      BY <1>2, <2>3, <3>1
    <3>2. CASE k \in 0 .. n - 1
      BY <1>2, <1>4, <2>2, <3>2
    <3> QED BY <1>2, <3>1, <3>2
  <2> QED BY <2>1, <2>4
<1>12. StaticTyped'
  <2>1. a + fs \in 0 .. area /\ Next1(tail) \in 0 .. slots - 1
    BY <1>2, <1>8
  <2>2. index' \in [0 .. slots - 1 -> 0 .. area \cup {NULL}]
    BY <1>1, <1>2, <1>4, <1>6, <2>1
  <2> QED BY <1>1, <1>2, <1>9, <2>1, <2>2 DEF StaticTyped
<1>13. LayoutInv'
  <2>1. Count' \in Nat /\ Count' # 0 /\ Count' = n + 1 /\ Count' - 1 = n
    BY <1>2, <1>3
  <2> HIDE DEF B, G
  <2>2. Laid(B, G, Count', area')
    BY <1>1, <1>3, <1>7
  <2> QED BY <1>1, <1>2, <1>9, <1>11, <2>1, <2>2, LaidIsLayout
<1>14. Contents' = Append(Contents, b)
  <2>1. /\ Contents \in Seq(Sound) /\ Len(Contents) = n /\ n \in Nat
        /\ \A k \in 0 .. n - 1 : Contents[k + 1] = mem[At(k)]
    BY <1>2, StaticContents
  <2>2. \A k \in 0 .. n - 1 : mem'[At(k)'] = mem[At(k)] /\ mem[At(k)] \in Sound
    BY <1>2, <1>4, <1>9, <1>10
  <2>3. mem'[At(n)'] = b /\ b \in Sound
    BY <1>9, <1>10
  <2>4. \A k \in 0 .. (n + 1) - 1 : mem'[At(k)'] \in Sound
    <3> SUFFICES ASSUME NEW k \in 0 .. (n + 1) - 1 PROVE mem'[At(k)'] \in Sound
      OBVIOUS
    <3>1. k = n \/ k \in 0 .. n - 1
      BY <2>1
    <3> QED BY <2>2, <2>3, <3>1
  <2>5. /\ Contents' \in Seq(Sound) /\ Len(Contents') = n + 1
        /\ \A k \in 0 .. (n + 1) - 1 : Contents'[k + 1] = mem'[At(k)']
    <3>1. Static' /\ n + 1 \in Nat
      BY <1>1, <2>1 DEF StaticOK, Static
    <3> QED BY <1>3, <2>4, <3>1, StaticContentsNext
  <2>6. \A k \in 0 .. n - 1 : Contents'[k + 1] = Contents[k + 1]
    BY <2>1, <2>2, <2>5
  <2>7. Contents'[n + 1] = b
    BY <2>1, <2>3, <2>5
  <2> QED BY <2>1, <2>3, <2>5, <2>6, <2>7, IsAppend
<1> QED BY <1>1, <1>12, <1>13, <1>14 DEF Pushed, b

\* The slots counted from the slot before, and from the slot behind.
Shifted(n, h, p, k, j) ==
  /\ h \in 0 .. n - 1 /\ p = IF h = 0 THEN n - 1 ELSE h - 1
  /\ k \in 0 .. n - 1 /\ j \in 0 .. n - 1 /\ j = k + 1

\* Counting from a slot earlier is counting one less.
LEMMA SlotShift ==
  ASSUME NEW n \in Nat \ {0}, NEW h, NEW p, NEW k, NEW j, Shifted(n, h, p, k, j)
  PROVE  (p + j) % n = (h + k) % n
<1> USE DEF Shifted
<1>0. p \in 0 .. n - 1
  OBVIOUS
<1>1. (p + j) % n = IF p + j < n THEN p + j ELSE p + j - n
  BY <1>0, SlotBehind
<1>2. (h + k) % n = IF h + k < n THEN h + k ELSE h + k - n
  BY SlotBehind
<1> QED BY <1>0, <1>1, <1>2

\* static_push_front, when there is a slot and room: the block goes in front of
\* the others and meets none of them.
LEMMA StaticFrontPlaced ==
  ASSUME StaticOK, NEW s \in Nat, NEW v \in Payloads, StaticPushFront(s, v),
         Next1(tail) # head, NEW a, a = PlaceFront(HeadAt, TailAt, FullSize(s)), a # NULL,
         NEW n, n = Count
  PROVE  StaticTyped' /\ LayoutInv' /\ Pushed(<<Block(v, s)>> \o Contents, s)
<1> DEFINE fs == FullSize(s)
           b  == Block(v, s)
           B  == [k \in 0 .. n + 1 |-> IF k = 0 THEN a ELSE Addrs[k - 1]]
           G  == [k \in 0 .. n |-> IF k = 0 THEN fs ELSE Sizes[k - 1]]
<1>1. /\ mem' = Create(a, b)
      /\ head' = Prev1(head) /\ tail' = tail
      /\ index' = [IndexNow EXCEPT ![Prev1(head)] = a]
      /\ cost' = [size |-> cost.size + s, number |-> cost.number + 1]
      /\ area' = area /\ slots' = slots
  BY StaticLaid DEF StaticPushFront, Accepted
<1>2. /\ area \in Nat \ {0} /\ slots \in Nat \ {0} /\ slots > 1
      /\ head \in 0 .. slots - 1 /\ tail \in 0 .. slots - 1
      /\ mem \in [0 .. area - 1 -> Sound]
      /\ Count \in 0 .. slots - 1 /\ fs \in Nat \ {0}
      /\ Count = (IF tail >= head THEN tail - head ELSE tail + slots - head)
      /\ (head + Count) % slots = tail
      /\ Next1(tail) = IF tail = slots - 1 THEN 0 ELSE tail + 1
      /\ Prev1(head) = IF head = 0 THEN slots - 1 ELSE head - 1
  BY StaticTypes, FullSizes, SlotBeside DEF Next1, Prev1
<1>3. /\ n + 1 \in 0 .. slots - 1 /\ Count' = n + 1
      /\ Prev1(head) \in 0 .. slots - 1 /\ (Prev1(head) + 0) % slots = Prev1(head)
  <2>1. n + 1 \in 0 .. slots - 1
    BY <1>2
  <2>2. Prev1(head) \in 0 .. slots - 1
    BY <1>2
  <2>3. Count' = IF tail >= Prev1(head) THEN tail - Prev1(head) ELSE tail + slots - Prev1(head)
    BY <1>1, <1>2, <2>2, CountBetween DEF Count
  <2> DEFINE p == Prev1(head)
  <2>4. p \in 0 .. slots - 1 /\ 0 \in 0 .. slots - 1 /\ slots \in Nat \ {0}
    BY <1>2, <2>2
  <2> HIDE DEF p
  <2>5. (p + 0) % slots = IF p + 0 < slots THEN p + 0 ELSE p + 0 - slots
    BY ONLY <2>4, SlotBehind
  <2>6. (p + 0) % slots = p
    BY <2>4, <2>5
  <2> QED BY <1>2, <2>1, <2>2, <2>3, <2>6 DEF p
<1>4. /\ \A k \in 0 .. n - 1 : Addrs[k] = At(k) /\ At(k) \in 0 .. area - 1 /\ Sizes[k] = Full(k)
      /\ \A k \in 0 .. n : Addrs[k] = IndexNow[(head + k) % slots]
      /\ Laid(Addrs, Sizes, n, area)
      /\ HeadAt = Addrs[0] /\ TailAt = Addrs[n]
      /\ IndexNow \in [0 .. slots - 1 -> 0 .. area \cup {NULL}]
  BY StaticLaid DEF Sizes
<1> HIDE DEF fs, b
<1>5. Addrs[0] \in 0 .. area /\ Addrs[n] \in 0 .. area
  BY <1>2, <1>4 DEF Laid
<1>6. /\ \/ Addrs[n] >= Addrs[0] /\ Addrs[0] >= fs /\ a = Addrs[0] - fs
         \/ Addrs[n] >= Addrs[0] /\ area - Addrs[n] > fs /\ a = area - fs
         \/ Addrs[n] < Addrs[0] /\ Addrs[0] - Addrs[n] > fs /\ a = Addrs[0] - fs
      /\ a \in 0 .. area
  <2> DEFINE h == Addrs[0]
             t == Addrs[n]
  <2>1. a = PlaceFront(h, t, fs) /\ h \in 0 .. area /\ t \in 0 .. area
    BY <1>4, <1>5 DEF fs
  <2> HIDE DEF h, t
  <2>2. \/ t >= h /\ h >= fs /\ a = h - fs
        \/ t >= h /\ area - t > fs /\ a = area - fs
        \/ t < h /\ h - t > fs /\ a = h - fs
    BY <1>2, <2>1 DEF PlaceFront
  <2>3. a \in 0 .. area
    BY <1>2, <2>1, <2>2
  <2> QED BY <2>2, <2>3 DEF h, t
<1>7. Laid(B, G, n + 1, area)
  <2>1. /\ \A k \in 0 .. n : B[k + 1] = Addrs[k]
        /\ \A k \in 0 .. n - 1 : G[k + 1] = Sizes[k]
        /\ B[0] = a /\ G[0] = fs /\ n \in Nat
    BY <1>2
  <2> DEFINE m == n + 1
  <2>2. m = n + 1 /\ G[0] \in Nat \ {0}
    BY <1>2, <2>1
  <2>3. \/ Addrs[n] >= Addrs[0] /\ Addrs[0] >= G[0] /\ B[0] = Addrs[0] - G[0]
        \/ Addrs[n] >= Addrs[0] /\ area - Addrs[n] > G[0] /\ B[0] = area - G[0]
        \/ Addrs[n] < Addrs[0] /\ Addrs[0] - Addrs[n] > G[0] /\ B[0] = Addrs[0] - G[0]
    BY <1>6, <2>1
  <2> HIDE DEF B, G, m
  <2>4. OneBefore(Addrs, Sizes, n, area, B, G, m)
    BY <1>4, <2>1, <2>2, <2>3 DEF OneBefore
  <2>5. Laid(B, G, m, area)
    BY <1>2, <2>1, <2>4, LaidFront
  <2> QED BY <2>2, <2>5
<1>8. /\ a + fs <= area /\ a \in 0 .. area - 1
      /\ \A k \in 0 .. n - 1 : At(k) + Full(k) <= a \/ a + fs <= At(k)
  <2>1. /\ B[0] = a /\ G[0] = fs
        /\ \A k \in 0 .. n - 1 : B[k + 1] = At(k) /\ G[k + 1] = Full(k)
    BY <1>2, <1>4
  <2> HIDE DEF B, G
  <2>2. a + fs <= area
    BY <1>2, <1>7, <2>1 DEF Laid
  <2>3. \A k \in 0 .. n - 1 : At(k) + Full(k) <= a \/ a + fs <= At(k)
    <3> SUFFICES ASSUME NEW k \in 0 .. n - 1 PROVE At(k) + Full(k) <= a \/ a + fs <= At(k)
      OBVIOUS
    <3> DEFINE i == k + 1
    <3>1. n + 1 \in Nat /\ i \in 0 .. (n + 1) - 1 /\ 0 \in 0 .. (n + 1) - 1 /\ 0 < i
      BY <1>2
    <3>2. B[i] = At(k) /\ G[i] = Full(k)
      BY <2>1
    <3> HIDE DEF i
    <3>3. B[0] + G[0] <= B[i] \/ B[i] + G[i] <= B[0]
      BY <1>2, <1>7, <3>1, BlocksApart
    <3> QED BY <2>1, <3>2, <3>3
  <2> QED BY <1>2, <1>6, <2>2, <2>3
<1>9. /\ b \in Sound /\ b.size = s
      /\ mem' \in [0 .. area - 1 -> Sound] /\ mem'[a] = b
      /\ \A k \in 0 .. n - 1 : mem'[At(k)] = mem[At(k)]
  <2>1. b \in Sound /\ b.size = s
    BY NewBlock DEF b
  <2>2. \A k \in 0 .. n - 1 : At(k) \in 0 .. area - 1 /\ Full(k) = FullSize(mem[At(k)].size)
    BY <1>4 DEF Full
  <2>3. mem' \in [0 .. area - 1 -> Sound] /\ mem'[a] = b
    BY <1>1, <1>2, <1>8, <2>1, CreateKeeps
  <2>4. ASSUME NEW k \in 0 .. n - 1 PROVE mem'[At(k)] = mem[At(k)]
    <3>1. At(k) \in 0 .. area - 1 /\ Beside(At(k), a, b)
      BY <1>8, <2>1, <2>2 DEF fs, Beside
    <3> DEFINE x == At(k)
    <3> HIDE DEF x
    <3>2. x \in 0 .. area - 1 /\ Beside(x, a, b)
      BY <3>1 DEF x
    <3>3. area \in Nat
      BY <1>2
    <3>4. Create(a, b)[x] = mem[x]
      BY <1>2, <1>8, <2>1, <3>2, <3>3, CreateKeeps
    <3> QED BY <1>1, <3>4 DEF x
  <2> QED BY <2>1, <2>3, <2>4
<1>10. /\ \A k \in 0 .. n - 1 : At(k + 1)' = At(k)
       /\ At(n + 1)' = Addrs[n] /\ At(0)' = a
  <2>1. ASSUME NEW k \in 0 .. n PROVE At(k + 1)' = Addrs[k]
    <3>1. k \in 0 .. slots - 1 /\ k + 1 \in 0 .. slots - 1
      BY <1>2, <1>3
    <3> DEFINE p == Prev1(head)
               j == k + 1
    <3>2. p \in 0 .. slots - 1 /\ p = (IF head = 0 THEN slots - 1 ELSE head - 1)
      BY <1>2
    <3>3. head' = p /\ slots' = slots /\ index' = [IndexNow EXCEPT ![p] = a]
      BY <1>1
    <3>4. j = k + 1 /\ j \in 0 .. slots - 1
      BY <3>1
    <3> HIDE DEF p, j
    <3>5. (p + j) % slots = (head + k) % slots
      <4>1. Shifted(slots, head, p, k, j)
        BY <1>2, <3>1, <3>2, <3>4 DEF Shifted
      <4>2. slots \in Nat \ {0}
        BY <1>2
      <4> QED BY ONLY <4>1, <4>2, SlotShift
    <3>6. (head + k) % slots \in 0 .. slots - 1
      BY <1>2, <3>1, SlotBehind
    <3>7. (p + j) % slots # (p + 0) % slots
      <4>1. slots \in Nat \ {0} /\ p \in 0 .. slots - 1 /\ j \in 0 .. slots - 1 /\ 0 \in 0 .. slots - 1 /\ j # 0
        BY <1>2, <3>1, <3>2, <3>4
      <4> QED BY ONLY <4>1, SlotsApart
    <3>8. (p + 0) % slots = p
      BY <1>3 DEF p
    <3>9. At(j)' = IndexNow[(head + k) % slots]
      <4>1. At(j)' = index'[(p + j) % slots]
        BY <3>3, <3>4 DEF At, j
      <4> QED BY <1>4, <3>3, <3>5, <3>6, <3>7, <3>8, <4>1
    <3> QED BY <1>4, <3>9 DEF j
  <2>2. At(0)' = a
    <3>1. At(0)' = index'[(Prev1(head) + 0) % slots]
      BY <1>1 DEF At
    <3> QED BY <1>1, <1>3, <1>4, <3>1
  <2>3. n \in 0 .. n /\ \A k \in 0 .. n - 1 : k \in 0 .. n
    BY <1>2
  <2> QED BY <1>4, <2>1, <2>2, <2>3
<1>11. /\ \A k \in 0 .. n + 1 : At(k)' = B[k]
       /\ \A k \in 0 .. n : Full(k)' = G[k]
  <2>1. ASSUME NEW k \in 0 .. n + 1 PROVE At(k)' = B[k]
    <3>1. CASE k = 0
      BY <1>2, <1>10, <3>1
    <3>2. CASE k = n + 1
      <4>1. k # 0 /\ k - 1 = n
        BY <1>2, <3>2
      <4>2. B[k] = Addrs[n]
        BY <4>1
      <4> QED BY <1>10, <3>2, <4>2
    <3>3. CASE k \in 1 .. n
      <4>1. k - 1 \in 0 .. n - 1 /\ (k - 1) + 1 = k
        BY <1>2, <3>3
      <4>2. At((k - 1) + 1)' = At(k - 1)
        BY <1>10, <4>1, Zenon
      <4>3. B[k] = Addrs[k - 1] /\ Addrs[k - 1] = At(k - 1)
        BY <1>2, <1>4, <3>3, <4>1
      <4> QED BY <4>1, <4>2, <4>3
    <3> QED BY <1>2, <3>1, <3>2, <3>3
  <2>2. ASSUME NEW k \in 0 .. n - 1 PROVE Full(k + 1)' = Full(k)
    BY <1>9, <1>10 DEF Full
  <2>3. Full(0)' = fs
    BY <1>9, <1>10 DEF Full, fs
  <2>4. ASSUME NEW k \in 0 .. n PROVE Full(k)' = G[k]
    <3>1. CASE k = 0
      BY <1>2, <2>3, <3>1
    <3>2. CASE k # 0
      <4>1. k - 1 \in 0 .. n - 1 /\ (k - 1) + 1 = k
        BY <1>2, <3>2
      <4>2. Full((k - 1) + 1)' = Full(k - 1)
        BY <2>2, <4>1
      <4>3. G[k] = Sizes[k - 1] /\ Sizes[k - 1] = Full(k - 1)
        BY <1>2, <1>4, <3>2, <4>1
      <4> QED BY <4>1, <4>2, <4>3
    <3> QED BY <1>2, <3>1, <3>2
  <2> QED BY <2>1, <2>4
<1>12. StaticTyped'
  <2>1. index' \in [0 .. slots - 1 -> 0 .. area \cup {NULL}]
    BY <1>1, <1>2, <1>3, <1>4, <1>6
  <2> QED BY <1>1, <1>2, <1>3, <1>9, <2>1 DEF StaticTyped
<1>13. LayoutInv'
  <2>1. Count' \in Nat /\ Count' # 0 /\ Count' = n + 1 /\ Count' - 1 = n
    BY <1>2, <1>3
  <2> HIDE DEF B, G
  <2>2. Laid(B, G, Count', area')
    BY <1>1, <1>3, <1>7
  <2> QED BY <1>1, <1>2, <1>9, <1>11, <2>1, <2>2, LaidIsLayout
<1>14. Contents' = <<b>> \o Contents
  <2>1. /\ Contents \in Seq(Sound) /\ Len(Contents) = n /\ n \in Nat
        /\ \A k \in 0 .. n - 1 : Contents[k + 1] = mem[At(k)]
    BY <1>2, StaticContents
  <2>2. \A k \in 0 .. n - 1 : mem'[At(k + 1)'] = mem[At(k)] /\ mem[At(k)] \in Sound
    BY <1>2, <1>4, <1>9, <1>10
  <2>3. mem'[At(0)'] = b /\ b \in Sound
    BY <1>9, <1>10
  <2>4. \A k \in 0 .. (n + 1) - 1 : mem'[At(k)'] \in Sound
    <3> SUFFICES ASSUME NEW k \in 0 .. (n + 1) - 1 PROVE mem'[At(k)'] \in Sound
      OBVIOUS
    <3>1. CASE k = 0
      BY <2>3, <3>1
    <3>2. CASE k # 0
      <4>1. k - 1 \in 0 .. n - 1 /\ (k - 1) + 1 = k
        BY <2>1, <3>2
      <4>2. mem'[At((k - 1) + 1)'] \in Sound
        BY <2>2, <4>1
      <4> QED BY <4>1, <4>2
    <3> QED BY <3>1, <3>2
  <2>5. /\ Contents' \in Seq(Sound) /\ Len(Contents') = n + 1
        /\ \A k \in 0 .. (n + 1) - 1 : Contents'[k + 1] = mem'[At(k)']
    <3>1. Static' /\ n + 1 \in Nat
      BY <1>1, <2>1 DEF StaticOK, Static
    <3> QED BY <1>3, <2>4, <3>1, StaticContentsNext
  <2>6. ASSUME NEW k \in 0 .. n - 1 PROVE Contents'[(k + 1) + 1] = Contents[k + 1]
    <3>1. k + 1 \in 0 .. (n + 1) - 1
      BY <2>1
    <3>2. Contents'[(k + 1) + 1] = mem'[At(k + 1)']
      BY <2>5, <3>1
    <3> QED BY <2>1, <2>2, <3>2
  <2>7. Contents'[1] = b
    <3>1. 0 \in 0 .. (n + 1) - 1
      BY <2>1
    <3>2. Contents'[0 + 1] = mem'[At(0)']
      BY <2>5, <3>1
    <3> QED BY <2>3, <3>2
  <2> QED BY <2>1, <2>3, <2>5, <2>6, <2>7, IsPrepend
<1> QED BY <1>1, <1>12, <1>13, <1>14 DEF Pushed, b

-----------------------------------------------------------------------------
\* Pops of the static mode.

\* The queue after a step, block for block.
LEMMA ContentsAre ==
  ASSUME Static', NEW r \in Seq(Sound), Count' = Len(r),
         \A k \in 0 .. Len(r) - 1 : mem'[At(k)'] = r[k + 1]
  PROVE  Contents' = r
<1> DEFINE m == Len(r)
<1>0. m \in Nat
  OBVIOUS
<1>1. \A k \in 0 .. m - 1 : mem'[At(k)'] \in Sound
  <2> SUFFICES ASSUME NEW k \in 0 .. m - 1 PROVE mem'[At(k)'] \in Sound
    OBVIOUS
  <2>1. k + 1 \in 1 .. Len(r)
    BY <1>0
  <2> QED BY <2>1
<1>2. /\ Contents' \in Seq(Sound) /\ Len(Contents') = m
      /\ \A k \in 0 .. m - 1 : Contents'[k + 1] = mem'[At(k)']
  <2>1. Count' = m
    OBVIOUS
  <2> HIDE DEF m
  <2> QED BY <1>0, <1>1, <2>1, StaticContentsNext
<1>3. \A i \in 1 .. m : Contents'[i] = r[i]
  <2> SUFFICES ASSUME NEW i \in 1 .. m PROVE Contents'[i] = r[i]
    OBVIOUS
  <2>1. i - 1 \in 0 .. m - 1 /\ (i - 1) + 1 = i
    BY <1>0
  <2>2. Contents'[(i - 1) + 1] = mem'[At(i - 1)'] /\ mem'[At(i - 1)'] = r[(i - 1) + 1]
    BY <1>2, <2>1
  <2> QED BY <2>1, <2>2
<1> QED BY <1>2, <1>3, SeqEqual

\* The queue without the block at one end.
ButLast  == [i \in 1 .. Count - 1 |-> mem[At(i - 1)]]
ButFirst == [i \in 1 .. Count - 1 |-> mem[At(i)]]

\* The queue by its ends.
LEMMA StaticEnds ==
  ASSUME StaticOK, NEW n \in Nat \ {0}, n = Count
  PROVE  /\ ButLast \in Seq(Sound) /\ Len(ButLast) = n - 1
         /\ ButFirst \in Seq(Sound) /\ Len(ButFirst) = n - 1
         /\ mem[At(n - 1)] \in Sound /\ mem[At(0)] \in Sound
         /\ Contents = Append(ButLast, mem[At(n - 1)])
         /\ Contents = <<mem[At(0)]>> \o ButFirst
         /\ \A k \in 0 .. n - 2 : ButLast[k + 1] = mem[At(k)] /\ ButFirst[k + 1] = mem[At(k + 1)]
<1>0. /\ Contents \in Seq(Sound) /\ Len(Contents) = n
      /\ \A k \in 0 .. n - 1 : Contents[k + 1] = mem[At(k)] /\ mem[At(k)] \in Sound
  BY StaticContents, StaticLaid, StaticTypes
<1>1. /\ ButLast = [i \in 1 .. n - 1 |-> mem[At(i - 1)]]
      /\ ButFirst = [i \in 1 .. n - 1 |-> mem[At(i)]]
  BY DEF ButLast, ButFirst
<1>2. \A i \in 1 .. n - 1 : mem[At(i - 1)] \in Sound /\ mem[At(i)] \in Sound
  <2> SUFFICES ASSUME NEW i \in 1 .. n - 1
               PROVE  mem[At(i - 1)] \in Sound /\ mem[At(i)] \in Sound
    OBVIOUS
  <2>1. i - 1 \in 0 .. n - 1 /\ i \in 0 .. n - 1
    OBVIOUS
  <2> QED BY <1>0, <2>1
<1>3. /\ ButLast \in Seq(Sound) /\ Len(ButLast) = n - 1
      /\ ButFirst \in Seq(Sound) /\ Len(ButFirst) = n - 1
  BY <1>1, <1>2
<1>4. ASSUME NEW k \in 0 .. n - 2
      PROVE  ButLast[k + 1] = mem[At(k)] /\ ButFirst[k + 1] = mem[At(k + 1)]
  <2>1. k + 1 \in 1 .. n - 1 /\ (k + 1) - 1 = k
    OBVIOUS
  <2> QED BY <1>1, <2>1
<1>5. mem[At(n - 1)] \in Sound /\ mem[At(0)] \in Sound
  <2>1. n - 1 \in 0 .. n - 1 /\ 0 \in 0 .. n - 1
    OBVIOUS
  <2> QED BY <1>0, <2>1
<1>6. Contents = Append(ButLast, mem[At(n - 1)])
  <2> DEFINE q == ButLast
             b == mem[At(n - 1)]
  <2>1. q \in Seq(Sound) /\ b \in Sound /\ Len(Contents) = Len(q) + 1 /\ Len(q) = n - 1
    BY <1>0, <1>3, <1>5
  <2>2. \A k \in 0 .. Len(q) - 1 : Contents[k + 1] = q[k + 1]
    <3> SUFFICES ASSUME NEW k \in 0 .. Len(q) - 1 PROVE Contents[k + 1] = q[k + 1]
      OBVIOUS
    <3>1. k \in 0 .. n - 1 /\ k \in 0 .. n - 2
      BY <2>1
    <3> QED BY <1>0, <1>4, <3>1
  <2>3. Contents[Len(q) + 1] = b
    <3>1. n - 1 \in 0 .. n - 1
      OBVIOUS
    <3>2. Contents[(n - 1) + 1] = mem[At(n - 1)]
      BY <1>0, <3>1
    <3> QED BY <2>1, <3>2
  <2> HIDE DEF q, b
  <2>4. Contents = Append(q, b)
    BY <1>0, <2>1, <2>2, <2>3, IsAppend
  <2> QED BY <2>4 DEF q, b
<1>7. Contents = <<mem[At(0)]>> \o ButFirst
  <2> DEFINE q == ButFirst
             b == mem[At(0)]
  <2>1. q \in Seq(Sound) /\ b \in Sound /\ Len(Contents) = Len(q) + 1 /\ Len(q) = n - 1
    BY <1>0, <1>3, <1>5
  <2>2. \A k \in 0 .. Len(q) - 1 : Contents[(k + 1) + 1] = q[k + 1]
    <3> SUFFICES ASSUME NEW k \in 0 .. Len(q) - 1 PROVE Contents[(k + 1) + 1] = q[k + 1]
      OBVIOUS
    <3>1. k + 1 \in 0 .. n - 1 /\ k \in 0 .. n - 2
      BY <2>1
    <3>2. Contents[(k + 1) + 1] = mem[At(k + 1)]
      BY <1>0, <3>1
    <3> QED BY <1>4, <3>1, <3>2
  <2>3. Contents[1] = b
    <3>1. Contents[0 + 1] = mem[At(0)]
      BY <1>0
    <3> QED BY <3>1
  <2> HIDE DEF q, b
  <2>4. Contents = <<b>> \o q
    BY <1>0, <2>1, <2>2, <2>3, IsPrepend
  <2> QED BY <2>4 DEF q, b
<1> QED BY <1>3, <1>4, <1>5, <1>6, <1>7

\* A queue that is not empty: where its blocks are.
LEMMA StaticFilled ==
  ASSUME StaticOK, NEW n \in Nat \ {0}, n = Count
  PROVE  /\ \A k \in 0 .. n : At(k) = Addrs[k] /\ At(k) \in 0 .. area
         /\ \A k \in 0 .. n - 1 : At(k) \in 0 .. area - 1 /\ Full(k) = Sizes[k]
         /\ \A j \in 0 .. n - 1, k \in 0 .. n - 1 : j # k => At(j) # At(k)
         /\ Laid(Addrs, Sizes, n, area)
<1>1. /\ Laid(Addrs, Sizes, n, area) /\ area \in Nat
      /\ IndexNow = index
      /\ \A k \in 0 .. n - 1 : At(k) \in 0 .. area - 1 /\ Full(k) = Sizes[k]
      /\ \A k \in 0 .. n : Addrs[k] = IndexNow[(head + k) % slots]
  <2>1. ~Fresh
    BY StaticLaid
  <2>2. IndexNow = index
    BY <2>1 DEF IndexNow
  <2> QED BY <2>2, StaticLaid, StaticTypes DEF Sizes
<1>2. \A k \in 0 .. n : At(k) = Addrs[k] /\ At(k) \in 0 .. area
  BY <1>1 DEF At, Laid
<1>3. ASSUME NEW j \in 0 .. n - 1, NEW k \in 0 .. n - 1, j < k PROVE At(j) # At(k)
  <2>1. /\ j \in 0 .. n /\ k \in 0 .. n
        /\ Addrs[j] + Sizes[j] <= Addrs[k] \/ Addrs[k] + Sizes[k] <= Addrs[j]
    BY <1>1, <1>3, BlocksApart
  <2>2. Sizes[j] \in Nat \ {0} /\ Sizes[k] \in Nat \ {0}
    BY <1>1 DEF Laid
  <2> QED BY <1>2, <2>1, <2>2
<1>4. \A j \in 0 .. n - 1, k \in 0 .. n - 1 : j # k => At(j) # At(k)
  <2> SUFFICES ASSUME NEW j \in 0 .. n - 1, NEW k \in 0 .. n - 1, j # k PROVE At(j) # At(k)
    OBVIOUS
  <2>1. j < k \/ k < j
    OBVIOUS
  <2> QED BY <1>3, <2>1
<1> QED BY <1>1, <1>2, <1>4

\* A block is consumed in part: it keeps its place.
LEMMA StaticUsed ==
  ASSUME StaticOK, NEW n \in Nat \ {0}, n = Count, NEW i \in 0 .. n - 1,
         NEW c \in Sound, c.size = mem[At(i)].size,
         mem' = [mem EXCEPT ![At(i)] = c], UNCHANGED <<area, slots, index, head, tail>>
  PROVE  /\ StaticTyped' /\ LayoutInv' /\ Static' /\ Count' = n /\ mem'[At(i)'] = c
         /\ \A k \in 0 .. n - 1 : k # i => mem'[At(k)'] = mem[At(k)]
<1>1. /\ area \in Nat \ {0} /\ slots \in Nat \ {0} /\ slots > 1
      /\ head \in 0 .. slots - 1 /\ tail \in 0 .. slots - 1
      /\ index \in [0 .. slots - 1 -> 0 .. area \cup {NULL}]
      /\ mem \in [0 .. area - 1 -> Sound]
  BY StaticTypes
<1>2. /\ \A k \in 0 .. n : At(k) = Addrs[k]
      /\ \A k \in 0 .. n - 1 : At(k) \in 0 .. area - 1 /\ Full(k) = Sizes[k]
      /\ \A k \in 0 .. n - 1 : k # i => At(k) # At(i)
      /\ Laid(Addrs, Sizes, n, area)
  BY StaticFilled
<1>3. /\ \A k \in 0 .. n : At(k)' = At(k)
      /\ mem' \in [0 .. area - 1 -> Sound] /\ mem'[At(i)'] = c
      /\ \A k \in 0 .. n - 1 : k # i => mem'[At(k)'] = mem[At(k)]
  <2>1. \A k \in 0 .. n : At(k)' = At(k)
    BY DEF At
  <2>2. At(i) \in 0 .. area - 1 /\ i \in 0 .. n /\ \A k \in 0 .. n - 1 : k \in 0 .. n
    BY <1>2
  <2>3. mem' \in [0 .. area - 1 -> Sound] /\ mem'[At(i)] = c
    BY <1>1, <2>2
  <2>4. \A k \in 0 .. n - 1 : k # i => mem'[At(k)] = mem[At(k)]
    BY <1>1, <1>2
  <2> QED BY <2>1, <2>2, <2>3, <2>4
<1>4. \A k \in 0 .. n - 1 : Full(k)' = Full(k)
  <2> SUFFICES ASSUME NEW k \in 0 .. n - 1 PROVE Full(k)' = Full(k)
    OBVIOUS
  <2>1. mem'[At(k)'].size = mem[At(k)].size
    BY <1>3
  <2> QED BY <2>1 DEF Full, FullSize
<1>5. StaticTyped'
  BY <1>1, <1>3 DEF StaticTyped
<1>6. Count' = n /\ Static'
  BY <1>1 DEF Count, Static, StaticOK
<1>7. LayoutInv'
  <2>1. /\ Count' \in Nat /\ area' \in Nat \ {0} /\ mem' \in [0 .. area' - 1 -> Sound]
        /\ Count' # 0 /\ Laid(Addrs, Sizes, Count', area')
        /\ \A k \in 0 .. Count' : At(k)' = Addrs[k]
        /\ \A k \in 0 .. Count' - 1 : Full(k)' = Sizes[k]
    BY <1>1, <1>2, <1>3, <1>4, <1>6
  <2> QED BY <2>1, LaidIsLayout
<1> QED BY <1>3, <1>5, <1>6, <1>7

\* The last block is gone: the next begins at the start of the memory.
LEMMA StaticEmptied ==
  ASSUME StaticOK, area' = area, slots' = slots, head' = 0, tail' = 0,
         NEW ix \in [0 .. slots - 1 -> 0 .. area \cup {NULL}], index' = [ix EXCEPT ![0] = 0],
         mem' \in [0 .. area - 1 -> Sound]
  PROVE  StaticTyped' /\ LayoutInv' /\ Contents' = <<>>
<1>1. area \in Nat \ {0} /\ slots \in Nat \ {0} /\ slots > 1 /\ 0 \in 0 .. slots - 1
  BY StaticTypes
<1>2. Count' = 0 /\ (0 + 0) % slots = 0
  <2>1. Count' = (0 + slots - 0) % slots
    BY DEF Count
  <2>2. (0 + slots - 0) % slots = IF 0 >= 0 THEN 0 - 0 ELSE 0 + slots - 0
    BY ONLY <1>1, CountBetween
  <2>3. (0 + 0) % slots = IF 0 + 0 < slots THEN 0 + 0 ELSE 0 + 0 - slots
    BY ONLY <1>1, SlotBehind
  <2> QED BY <1>1, <2>1, <2>2, <2>3
<1>3. index'[0] = 0 /\ index' \in [0 .. slots - 1 -> 0 .. area \cup {NULL}]
  BY <1>1
<1>4. At(0)' = 0
  BY <1>2, <1>3 DEF At
<1>5. Static' /\ StaticTyped'
  BY <1>1, <1>3 DEF StaticTyped, Static
<1>6. LayoutInv'
  <2> DEFINE B == [k \in 0 .. 0 |-> 0]
             G == <<>>
  <2>1. Laid(B, G, 0, area')
    BY <1>1 DEF Laid
  <2>2. \A k \in 0 .. 0 : At(k)' = B[k]
    BY <1>4
  <2> HIDE DEF B, G
  <2> QED BY <1>1, <1>2, <1>3, <2>1, <2>2, LaidIsLayout
<1>7. Contents' = <<>>
  <2> DEFINE r == <<>>
  <2>1. r \in Seq(Sound) /\ Len(r) = 0
    OBVIOUS
  <2> HIDE DEF r
  <2>2. \A k \in 0 .. Len(r) - 1 : mem'[At(k)'] = r[k + 1]
    BY <2>1
  <2>3. Static' /\ Count' = Len(r)
    BY <1>2, <1>5, <2>1
  <2>4. Contents' = r
    BY ONLY <2>1, <2>2, <2>3, ContentsAre
  <2> QED BY <2>4 DEF r
<1> QED BY <1>5, <1>6, <1>7

\* What a pop does to the slots.
Moved(now) == index' = now[1] /\ head' = now[2] /\ tail' = now[3]

\* Types of the static mode after a step, from those of its variables.
LEMMA TypedNow ==
  ASSUME area' \in Nat \ {0}, slots' \in Nat, slots' > 1,
         head' \in 0 .. slots' - 1, tail' \in 0 .. slots' - 1,
         index' \in [0 .. slots' - 1 -> 0 .. area' \cup {NULL}],
         mem' \in [0 .. area' - 1 -> Sound]
  PROVE  StaticTyped' /\ Static'
<1>1. area' > 0 /\ area' \in Nat /\ DOMAIN mem' = 0 .. area' - 1 /\ DOMAIN index' = 0 .. slots' - 1
  OBVIOUS
<1> QED BY <1>1 DEF StaticTyped, Static

\* The last block is taken away.
LEMMA StaticBackGone ==
  ASSUME StaticOK, NEW n \in Nat \ {0}, n = Count,
         NEW now, now = Rewound([index EXCEPT ![tail] = NULL], head, Prev1(tail)),
         area' = area, slots' = slots, mem' = [mem EXCEPT ![At(n - 1)] = NoBlock],
         Moved(now)
  PROVE  /\ StaticTyped' /\ LayoutInv' /\ Contents' = ButLast
         /\ now[2] = now[3] <=> ButLast = <<>>
<1>1. /\ area \in Nat \ {0} /\ slots \in Nat \ {0} /\ slots > 1
      /\ head \in 0 .. slots - 1 /\ tail \in 0 .. slots - 1
      /\ index \in [0 .. slots - 1 -> 0 .. area \cup {NULL}]
      /\ mem \in [0 .. area - 1 -> Sound]
      /\ n \in 0 .. slots - 1
      /\ n = (IF tail >= head THEN tail - head ELSE tail + slots - head)
      /\ (head + n) % slots = tail
      /\ Prev1(tail) = IF tail = 0 THEN slots - 1 ELSE tail - 1
  BY StaticTypes, SlotBeside DEF Prev1
<1>2. /\ \A k \in 0 .. n : At(k) = Addrs[k]
      /\ \A k \in 0 .. n - 1 : At(k) \in 0 .. area - 1 /\ Full(k) = Sizes[k]
      /\ \A j \in 0 .. n - 1, k \in 0 .. n - 1 : j # k => At(j) # At(k)
      /\ Laid(Addrs, Sizes, n, area)
  BY StaticFilled
<1>3. NoBlock \in Sound
  BY DEF NoBlock, Sound, BlockType
<1>4. /\ ButLast \in Seq(Sound) /\ Len(ButLast) = n - 1
      /\ \A k \in 0 .. n - 2 : ButLast[k + 1] = mem[At(k)]
  BY StaticEnds
<1>5. mem' \in [0 .. area - 1 -> Sound] /\ \A k \in 0 .. n - 2 : mem'[At(k)] = mem[At(k)]
  <2>1. n - 1 \in 0 .. n - 1 /\ \A k \in 0 .. n - 2 : k \in 0 .. n - 1 /\ k # n - 1
    OBVIOUS
  <2>2. At(n - 1) \in 0 .. area - 1 /\ \A k \in 0 .. n - 2 : At(k) \in 0 .. area - 1 /\ At(k) # At(n - 1)
    BY <1>2, <2>1
  <2> QED BY <1>1, <1>3, <2>2
<1>6. DEFINE ix == [index EXCEPT ![tail] = NULL]
<1>7. ix \in [0 .. slots - 1 -> 0 .. area \cup {NULL}] /\ \A i \in 0 .. slots - 1 : i # tail => ix[i] = index[i]
  BY <1>1
<1> HIDE DEF ix
<1>8. Prev1(tail) = head <=> n = 1
  BY <1>1
<1>9. CASE n = 1
  <2>1. now = <<[ix EXCEPT ![0] = 0], 0, 0>>
    BY <1>8, <1>9 DEF Rewound, ix
  <2>2. StaticTyped' /\ LayoutInv' /\ Contents' = <<>>
    <3>0. Moved(now)
      OBVIOUS
    <3>1. index' = [ix EXCEPT ![0] = 0] /\ head' = 0 /\ tail' = 0
      BY ONLY <2>1, <3>0 DEF Moved
    <3> QED BY <1>5, <1>7, <3>1, StaticEmptied
  <2>3. ButLast = <<>>
    BY <1>4, <1>9
  <2> QED BY <2>1, <2>2, <2>3
<1>10. CASE n # 1
  <2>1. now = <<ix, head, Prev1(tail)>>
    BY <1>8, <1>10 DEF Rewound, ix
  <2>2. index' = ix /\ head' = head /\ tail' = Prev1(tail) /\ Prev1(tail) \in 0 .. slots - 1
    <3>1. Moved(now)
      OBVIOUS
    <3>2. index' = ix /\ head' = head /\ tail' = Prev1(tail)
      BY ONLY <2>1, <3>1 DEF Moved
    <3> QED BY <1>1, <3>2
  <2>3. Count' = n - 1
    <3> DEFINE p == Prev1(tail)
    <3>1. /\ p \in 0 .. slots - 1 /\ head \in 0 .. slots - 1 /\ slots \in Nat \ {0}
          /\ p = (IF tail = 0 THEN slots - 1 ELSE tail - 1)
          /\ Count' = (p + slots - head) % slots
          /\ n = (IF tail >= head THEN tail - head ELSE tail + slots - head)
          /\ tail \in 0 .. slots - 1 /\ n # 0 /\ n # 1
      BY <1>1, <1>10, <2>2 DEF Count
    <3> HIDE DEF p
    <3>2. (p + slots - head) % slots = IF p >= head THEN p - head ELSE p + slots - head
      BY ONLY <3>1, CountBetween
    <3> QED BY ONLY <3>1, <3>2
  <2>4. ASSUME NEW k \in 0 .. n - 1 PROVE At(k)' = At(k)
    <3>1. k \in 0 .. slots - 1 /\ k # n
      BY <1>1
    <3>2. (head + k) % slots \in 0 .. slots - 1
      BY <1>1, <3>1, SlotBehind
    <3>3. (head + k) % slots # (head + n) % slots
      BY <1>1, <3>1, SlotsApart
    <3> QED BY <1>1, <1>7, <2>2, <3>2, <3>3 DEF At
  <2>5. ASSUME NEW k \in 0 .. n - 2 PROVE mem'[At(k)'] = mem[At(k)] /\ Full(k)' = Full(k)
    <3>1. k \in 0 .. n - 1
      OBVIOUS
    <3>2. mem'[At(k)'] = mem[At(k)]
      BY <1>5, <2>4, <3>1
    <3> QED BY <3>2 DEF Full, FullSize
  <2>6. StaticTyped' /\ Static'
    <3>1. index' \in [0 .. slots - 1 -> 0 .. area \cup {NULL}] /\ mem' \in [0 .. area - 1 -> Sound]
      BY <1>5, <1>7, <2>2
    <3>2. /\ area' \in Nat \ {0} /\ slots' \in Nat /\ slots' > 1
          /\ head' \in 0 .. slots' - 1 /\ tail' \in 0 .. slots' - 1
          /\ index' \in [0 .. slots' - 1 -> 0 .. area' \cup {NULL}]
          /\ mem' \in [0 .. area' - 1 -> Sound]
      BY <1>1, <2>2, <3>1
    <3> QED BY ONLY <3>2, TypedNow
  <2>7. LayoutInv'
    <3> DEFINE m == n - 1
    <3>1. m \in Nat /\ m # 0 /\ m = n - 1 /\ Count' = m /\ m - 1 = n - 2
      BY <1>10, <2>3
    <3>2. /\ \A k \in 0 .. m : At(k)' = Addrs[k]
          /\ \A k \in 0 .. m - 1 : Full(k)' = Sizes[k]
      BY <1>2, <2>4, <2>5
    <3> HIDE DEF m
    <3>3. Laid(Addrs, Sizes, m, area)
      BY <1>1, <1>2, <3>1, LaidPopBack
    <3>4. /\ area' \in Nat \ {0} /\ mem' \in [0 .. area' - 1 -> Sound]
          /\ Count' \in Nat /\ Count' # 0
          /\ Laid(Addrs, Sizes, Count', area')
          /\ \A k \in 0 .. Count' : At(k)' = Addrs[k]
          /\ \A k \in 0 .. Count' - 1 : Full(k)' = Sizes[k]
      BY <1>1, <1>5, <3>1, <3>2, <3>3
    <3> QED BY <3>4, LaidIsLayout
  <2>8. Contents' = ButLast
    <3> DEFINE r == ButLast
    <3>1. r \in Seq(Sound) /\ Count' = Len(r) /\ Len(r) - 1 = n - 2
      BY <1>4, <2>3
    <3>2. \A k \in 0 .. Len(r) - 1 : mem'[At(k)'] = r[k + 1]
      BY <1>4, <2>5, <3>1
    <3> HIDE DEF r
    <3>3. Contents' = r
      BY <2>6, <3>1, <3>2, ContentsAre
    <3> QED BY <3>3 DEF r
  <2>9. ButLast # <<>> /\ now[2] # now[3]
    BY <1>4, <1>8, <1>10, <2>1
  <2> QED BY <2>6, <2>7, <2>8, <2>9
<1> QED BY <1>9, <1>10

\* The first block is taken away.
LEMMA StaticFrontGone ==
  ASSUME StaticOK, NEW n \in Nat \ {0}, n = Count,
         NEW now, now = Rewound([index EXCEPT ![head] = NULL], Next1(head), tail),
         area' = area, slots' = slots, mem' = [mem EXCEPT ![At(0)] = NoBlock],
         Moved(now)
  PROVE  /\ StaticTyped' /\ LayoutInv' /\ Contents' = ButFirst
         /\ now[2] = now[3] <=> ButFirst = <<>>
<1>1. /\ area \in Nat \ {0} /\ slots \in Nat \ {0} /\ slots > 1
      /\ head \in 0 .. slots - 1 /\ tail \in 0 .. slots - 1
      /\ index \in [0 .. slots - 1 -> 0 .. area \cup {NULL}]
      /\ mem \in [0 .. area - 1 -> Sound]
      /\ n \in 0 .. slots - 1
      /\ n = (IF tail >= head THEN tail - head ELSE tail + slots - head)
      /\ (head + n) % slots = tail
      /\ Next1(head) = IF head = slots - 1 THEN 0 ELSE head + 1
  BY StaticTypes, SlotBeside DEF Next1
<1>2. /\ \A k \in 0 .. n : At(k) = Addrs[k]
      /\ \A k \in 0 .. n - 1 : At(k) \in 0 .. area - 1 /\ Full(k) = Sizes[k]
      /\ \A j \in 0 .. n - 1, k \in 0 .. n - 1 : j # k => At(j) # At(k)
      /\ Laid(Addrs, Sizes, n, area)
  BY StaticFilled
<1>3. NoBlock \in Sound
  BY DEF NoBlock, Sound, BlockType
<1>4. /\ ButFirst \in Seq(Sound) /\ Len(ButFirst) = n - 1
      /\ \A k \in 0 .. n - 2 : ButFirst[k + 1] = mem[At(k + 1)]
  BY StaticEnds
<1>5. mem' \in [0 .. area - 1 -> Sound] /\ \A k \in 0 .. n - 2 : mem'[At(k + 1)] = mem[At(k + 1)]
  <2>1. 0 \in 0 .. n - 1 /\ \A k \in 0 .. n - 2 : k + 1 \in 0 .. n - 1 /\ k + 1 # 0
    OBVIOUS
  <2>2. At(0) \in 0 .. area - 1
        /\ \A k \in 0 .. n - 2 : At(k + 1) \in 0 .. area - 1 /\ At(k + 1) # At(0)
    BY <1>2, <2>1
  <2> QED BY <1>1, <1>3, <2>2
<1>6. DEFINE ix == [index EXCEPT ![head] = NULL]
<1>7. ix \in [0 .. slots - 1 -> 0 .. area \cup {NULL}] /\ \A i \in 0 .. slots - 1 : i # head => ix[i] = index[i]
  BY <1>1
<1> HIDE DEF ix
<1>8. Next1(head) = tail <=> n = 1
  BY <1>1
<1>9. CASE n = 1
  <2>1. now = <<[ix EXCEPT ![0] = 0], 0, 0>>
    BY <1>8, <1>9 DEF Rewound, ix
  <2>2. StaticTyped' /\ LayoutInv' /\ Contents' = <<>>
    <3>0. Moved(now)
      OBVIOUS
    <3>1. index' = [ix EXCEPT ![0] = 0] /\ head' = 0 /\ tail' = 0
      BY ONLY <2>1, <3>0 DEF Moved
    <3> QED BY <1>5, <1>7, <3>1, StaticEmptied
  <2>3. ButFirst = <<>>
    BY <1>4, <1>9
  <2> QED BY <2>1, <2>2, <2>3
<1>10. CASE n # 1
  <2>1. now = <<ix, Next1(head), tail>>
    BY <1>8, <1>10 DEF Rewound, ix
  <2> DEFINE p == Next1(head)
  <2>2. index' = ix /\ head' = p /\ tail' = tail /\ p \in 0 .. slots - 1
    <3>1. Moved(now)
      OBVIOUS
    <3>2. index' = ix /\ head' = p /\ tail' = tail
      BY ONLY <2>1, <3>1 DEF Moved
    <3> QED BY <1>1, <3>2
  <2>3. Count' = n - 1
    <3>1. /\ p \in 0 .. slots - 1 /\ tail \in 0 .. slots - 1 /\ slots \in Nat \ {0}
          /\ p = (IF head = slots - 1 THEN 0 ELSE head + 1)
          /\ Count' = (tail + slots - p) % slots
          /\ n = (IF tail >= head THEN tail - head ELSE tail + slots - head)
          /\ head \in 0 .. slots - 1 /\ n # 0 /\ n # 1
      BY <1>1, <1>10, <2>2 DEF Count
    <3> HIDE DEF p
    <3>2. (tail + slots - p) % slots = IF tail >= p THEN tail - p ELSE tail + slots - p
      BY ONLY <3>1, CountBetween
    <3> QED BY ONLY <3>1, <3>2
  <2>4. ASSUME NEW k \in 0 .. n - 1, NEW j, j = k + 1 PROVE At(k)' = At(j)
    <3>1. k \in 0 .. slots - 1 /\ j \in 0 .. slots - 1 /\ j # 0 /\ 0 \in 0 .. slots - 1
      BY <1>1, <2>4
    <3>2. p \in 0 .. slots - 1 /\ head = IF p = 0 THEN slots - 1 ELSE p - 1
      BY <1>1
    <3> HIDE DEF p
    <3>3. (head + j) % slots = (p + k) % slots
      <4>1. Shifted(slots, p, head, k, j)
        BY <1>1, <2>4, <3>1, <3>2 DEF Shifted
      <4>2. slots \in Nat \ {0}
        BY <1>1
      <4> QED BY ONLY <4>1, <4>2, SlotShift
    <3>4. (head + j) % slots \in 0 .. slots - 1
      BY <1>1, <3>1, SlotBehind
    <3>5. (head + j) % slots # head
      <4>1. (head + j) % slots = IF head + j < slots THEN head + j ELSE head + j - slots
        BY <1>1, <3>1, SlotBehind
      <4>2. head \in 0 .. slots - 1 /\ slots \in Nat
        BY <1>1
      <4> QED BY ONLY <3>1, <4>1, <4>2
    <3>6. At(k)' = ix[(p + k) % slots] /\ At(j) = index[(head + j) % slots]
      BY <2>2 DEF At
    <3> QED BY <1>7, <3>3, <3>4, <3>5, <3>6
  <2> HIDE DEF p
  <2>5. ASSUME NEW k \in 0 .. n - 2 PROVE mem'[At(k)'] = mem[At(k + 1)] /\ Full(k)' = Full(k + 1)
    <3>1. k \in 0 .. n - 1
      OBVIOUS
    <3>2. At(k)' = At(k + 1)
      BY <2>4, <3>1
    <3>3. mem'[At(k)'] = mem[At(k + 1)]
      BY <1>5, <3>2
    <3> QED BY <3>3 DEF Full, FullSize
  <2>6. StaticTyped' /\ Static'
    <3>1. index' \in [0 .. slots - 1 -> 0 .. area \cup {NULL}] /\ mem' \in [0 .. area - 1 -> Sound]
      BY <1>5, <1>7, <2>2
    <3>2. /\ area' \in Nat \ {0} /\ slots' \in Nat /\ slots' > 1
          /\ head' \in 0 .. slots' - 1 /\ tail' \in 0 .. slots' - 1
          /\ index' \in [0 .. slots' - 1 -> 0 .. area' \cup {NULL}]
          /\ mem' \in [0 .. area' - 1 -> Sound]
      BY <1>1, <2>2, <3>1
    <3> QED BY ONLY <3>2, TypedNow
  <2>7. LayoutInv'
    <3> DEFINE m == n - 1
               B == [k \in 0 .. n - 1 |-> Addrs[k + 1]]
               G == [k \in 0 .. n - 2 |-> Sizes[k + 1]]
    <3>1. m \in Nat /\ m # 0 /\ m = n - 1 /\ Count' = m /\ m - 1 = n - 2
      BY <1>10, <2>3
    <3>2. /\ \A k \in 0 .. n - 1 : B[k] = Addrs[k + 1]
          /\ \A k \in 0 .. n - 2 : G[k] = Sizes[k + 1]
      OBVIOUS
    <3> HIDE DEF m, B, G
    <3>3. ASSUME NEW k \in 0 .. m PROVE At(k)' = B[k]
      <4>1. k \in 0 .. n - 1 /\ k + 1 \in 0 .. n
        BY <3>1
      <4>2. At(k)' = At(k + 1) /\ At(k + 1) = Addrs[k + 1]
        BY <1>2, <2>4, <4>1
      <4> QED BY <3>2, <4>1, <4>2
    <3>4. ASSUME NEW k \in 0 .. m - 1 PROVE Full(k)' = G[k]
      <4>1. k \in 0 .. n - 2 /\ k + 1 \in 0 .. n - 1
        BY <3>1
      <4>2. Full(k)' = Full(k + 1) /\ Full(k + 1) = Sizes[k + 1]
        BY <1>2, <2>5, <4>1
      <4> QED BY <3>2, <4>1, <4>2
    <3>5. FirstGone(Addrs, Sizes, n, area, B, G, m)
      BY <1>2, <3>1, <3>2 DEF FirstGone
    <3>6. Laid(B, G, m, area)
      <4>1. n \in Nat \ {0} /\ area \in Nat
        BY <1>1
      <4> QED BY ONLY <3>5, <4>1, LaidPopFront
    <3>7. /\ area' \in Nat \ {0} /\ mem' \in [0 .. area' - 1 -> Sound]
          /\ Count' \in Nat /\ Count' # 0
          /\ Laid(B, G, Count', area')
          /\ \A k \in 0 .. Count' : At(k)' = B[k]
          /\ \A k \in 0 .. Count' - 1 : Full(k)' = G[k]
      BY <1>1, <1>5, <3>1, <3>3, <3>4, <3>6
    <3> QED BY <3>7, LaidIsLayout
  <2>8. Contents' = ButFirst
    <3> DEFINE r == ButFirst
    <3>1. r \in Seq(Sound) /\ Count' = Len(r) /\ Len(r) - 1 = n - 2
      BY <1>4, <2>3
    <3>2. \A k \in 0 .. Len(r) - 1 : mem'[At(k)'] = r[k + 1]
      BY <1>4, <2>5, <3>1
    <3> HIDE DEF r
    <3>3. Contents' = r
      BY <2>6, <3>1, <3>2, ContentsAre
    <3> QED BY <3>3 DEF r
  <2>9. ButFirst # <<>> /\ now[2] # now[3]
    BY <1>4, <1>8, <1>10, <2>1
  <2> QED BY <2>6, <2>7, <2>8, <2>9
<1> QED BY <1>9, <1>10

\* What a pop does to the queue: others is what is there without the block b,
\* back what is there with what is left of b.
Popped(b, others, back, u, free) ==
  LET gone == free /\ Left(b) = Eaten(b, u)
  IN  /\ Contents' = IF gone THEN others ELSE back
      /\ cost' = CostAfter(b, u, gone, gone /\ others = <<>>)
\* The last block b of a queue with q before it has had u bytes taken.
PoppedBack(q, b, u, free) ==
  /\ q \in Seq(Sound) /\ b \in Sound /\ Contents = Append(q, b)
  /\ Popped(b, q, Append(q, Pop(b, u)), u, free)
\* The first block b of a queue with q behind it has had u bytes taken.
PoppedFront(q, b, u, free) ==
  /\ q \in Seq(Sound) /\ b \in Sound /\ Contents = <<b>> \o q
  /\ Popped(b, q, <<Pop(b, u)>> \o q, u, free)

\* Taking bytes from a block takes no more than it has left.
LEMMA PopSound ==
  ASSUME NEW b \in Sound, NEW u \in Nat
  PROVE  /\ Pop(b, u) \in Sound /\ Pop(b, u).size = b.size
         /\ Eaten(b, u) \in Nat /\ Eaten(b, u) <= Left(b)
         /\ Left(Pop(b, u)) = Left(b) - Eaten(b, u)
BY DEF Sound, BlockType, Pop, Eaten, Left

\* static_pop_back takes from the last block and moves no other.
LEMMA StaticPopBackDone ==
  ASSUME StaticOK, head # tail, NEW u \in Nat, NEW free \in BOOLEAN, StaticPopBack(u, free)
  PROVE  /\ StaticTyped' /\ LayoutInv'
         /\ \E q, b : PoppedBack(q, b, u, free)
<1> DEFINE now == Rewound([index EXCEPT ![tail] = NULL], head, Prev1(tail))
<1>1. PICK n \in Nat \ {0} : n = Count /\ index[Prev1(tail)] = At(n - 1)
  <2>1. /\ slots \in Nat \ {0} /\ head \in 0 .. slots - 1 /\ tail \in 0 .. slots - 1
        /\ Count = (IF tail >= head THEN tail - head ELSE tail + slots - head)
        /\ Count \in 0 .. slots - 1
        /\ Prev1(tail) = IF tail = 0 THEN slots - 1 ELSE tail - 1
    BY StaticTypes, SlotBeside DEF Prev1
  <2>2. Count \in Nat \ {0}
    BY <2>1
  <2> DEFINE m == Count - 1
  <2>3. m \in 0 .. slots - 1 /\ m = Count - 1
    BY <2>1, <2>2
  <2> HIDE DEF m
  <2>4. (head + m) % slots = IF head + m < slots THEN head + m ELSE head + m - slots
    BY <2>1, <2>3, SlotBehind
  <2>5. (head + m) % slots = Prev1(tail)
    BY <2>1, <2>2, <2>3, <2>4
  <2>6. At(m) = index[Prev1(tail)]
    BY <2>5 DEF At
  <2> QED BY <2>2, <2>3, <2>6
<1> DEFINE b == mem[At(n - 1)]
           q == ButLast
           gone == free /\ Left(b) = Eaten(b, u)
<1>2. q \in Seq(Sound) /\ b \in Sound /\ Contents = Append(q, b)
  BY <1>1, StaticEnds
<1>3. /\ mem' = [mem EXCEPT ![At(n - 1)] = IF gone THEN NoBlock ELSE Pop(b, u)]
      /\ area' = area /\ slots' = slots
  BY <1>1 DEF StaticPopBack, StaticPop
<1>4. CASE gone
  <2>1. Moved(now) /\ cost' = CostAfter(b, u, gone, now[2] = now[3])
    BY <1>1, <1>4 DEF StaticPopBack, StaticPop, Moved
  <2>2. mem' = [mem EXCEPT ![At(n - 1)] = NoBlock]
    BY <1>3, <1>4
  <2>3. n = Count /\ now = Rewound([index EXCEPT ![tail] = NULL], head, Prev1(tail))
    BY <1>1
  <2> HIDE DEF now, gone, b, q
  <2>4. /\ StaticTyped' /\ LayoutInv' /\ Contents' = ButLast
        /\ now[2] = now[3] <=> ButLast = <<>>
    BY <1>3, <2>1, <2>2, <2>3, StaticBackGone
  <2>5. cost' = CostAfter(b, u, gone, gone /\ q = <<>>)
    <3>1. (now[2] = now[3]) <=> (gone /\ q = <<>>)
      BY <1>4, <2>4 DEF q
    <3> QED BY <2>1, <3>1 DEF CostAfter
  <2>6. Popped(b, q, Append(q, Pop(b, u)), u, free)
    BY <1>4, <2>4, <2>5 DEF Popped, gone, q
  <2> QED BY <1>2, <2>4, <2>6 DEF PoppedBack
<1>5. CASE ~gone
  <2>1. /\ UNCHANGED <<area, slots, index, head, tail>>
        /\ cost' = CostAfter(b, u, gone, head = tail)
    BY <1>1, <1>5 DEF StaticPopBack, StaticPop
  <2> DEFINE i == n - 1
             c == Pop(b, u)
  <2>2. c \in Sound /\ c.size = mem[At(i)].size /\ i \in 0 .. n - 1
    <3>1. b \in Sound /\ b = mem[At(i)] /\ i \in 0 .. n - 1
      BY <1>2
    <3> HIDE DEF b, q
    <3>2. c \in Sound /\ c.size = b.size
      BY <3>1, PopSound
    <3> HIDE DEF c
    <3> QED BY <3>1, <3>2
  <2>3. mem' = [mem EXCEPT ![At(i)] = c]
    BY <1>3, <1>5
  <2> HIDE DEF c, gone, b, q
  <2>4. /\ StaticTyped' /\ LayoutInv' /\ Static' /\ Count' = n /\ mem'[At(i)'] = c
        /\ \A k \in 0 .. n - 1 : k # i => mem'[At(k)'] = mem[At(k)]
    <3> HIDE DEF i
    <3> QED BY <1>1, <2>1, <2>2, <2>3, StaticUsed
  <2> DEFINE r == Append(q, c)
  <2>5. /\ q \in Seq(Sound) /\ Len(q) = n - 1
        /\ \A k \in 0 .. n - 2 : q[k + 1] = mem[At(k)]
    BY <1>1, StaticEnds DEF q
  <2>6. r \in Seq(Sound) /\ Len(r) = n /\ r[n] = c /\ \A j \in 1 .. n - 1 : r[j] = q[j]
    BY <2>2, <2>5
  <2> HIDE DEF r
  <2>7. ASSUME NEW k \in 0 .. n - 1 PROVE mem'[At(k)'] = r[k + 1]
    <3>1. CASE k = n - 1
      BY <2>4, <2>6, <3>1
    <3>2. CASE k # n - 1
      <4>1. k \in 0 .. n - 2 /\ k + 1 \in 1 .. n - 1
        BY <3>2
      <4>2. mem'[At(k)'] = mem[At(k)]
        BY <2>4, <3>2
      <4> QED BY <2>5, <2>6, <4>1, <4>2
    <3> QED BY <3>1, <3>2
  <2>8. Contents' = r
    <3>1. Count' = Len(r) /\ \A k \in 0 .. Len(r) - 1 : mem'[At(k)'] = r[k + 1]
      BY <2>4, <2>6, <2>7
    <3> QED BY <2>4, <2>6, <3>1, ContentsAre
  <2>9. cost' = CostAfter(b, u, gone, gone /\ q = <<>>)
    BY <1>5, <2>1 DEF CostAfter
  <2>10. Popped(b, q, Append(q, Pop(b, u)), u, free)
    BY <1>5, <2>8, <2>9 DEF Popped, gone, r, c
  <2> QED BY <1>2, <2>4, <2>10 DEF PoppedBack
<1> QED BY <1>4, <1>5

\* static_pop_front takes from the first block and moves no other.
LEMMA StaticPopFrontDone ==
  ASSUME StaticOK, head # tail, NEW u \in Nat, NEW free \in BOOLEAN, StaticPopFront(u, free)
  PROVE  /\ StaticTyped' /\ LayoutInv'
         /\ \E q, b : PoppedFront(q, b, u, free)
<1> DEFINE now == Rewound([index EXCEPT ![head] = NULL], Next1(head), tail)
<1>1. PICK n \in Nat \ {0} : n = Count /\ index[head] = At(0)
  <2>1. /\ slots \in Nat \ {0} /\ head \in 0 .. slots - 1 /\ tail \in 0 .. slots - 1
        /\ Count = (IF tail >= head THEN tail - head ELSE tail + slots - head)
        /\ Count \in 0 .. slots - 1 /\ 0 \in 0 .. slots - 1
    BY StaticTypes
  <2>2. Count \in Nat \ {0}
    BY <2>1
  <2>3. (head + 0) % slots = IF head + 0 < slots THEN head + 0 ELSE head + 0 - slots
    <3> HIDE DEF now
    <3> QED BY ONLY <2>1, SlotBehind
  <2>4. (head + 0) % slots = head
    BY <2>1, <2>3
  <2>5. At(0) = index[head]
    BY <2>4 DEF At
  <2> QED BY <2>2, <2>5
<1> DEFINE b == mem[At(0)]
           q == ButFirst
           gone == free /\ Left(b) = Eaten(b, u)
<1>2. q \in Seq(Sound) /\ b \in Sound /\ Contents = <<b>> \o q
  BY <1>1, StaticEnds
<1>3. /\ mem' = [mem EXCEPT ![At(0)] = IF gone THEN NoBlock ELSE Pop(b, u)]
      /\ area' = area /\ slots' = slots
  BY <1>1 DEF StaticPopFront, StaticPop
<1>4. CASE gone
  <2>1. Moved(now) /\ cost' = CostAfter(b, u, gone, now[2] = now[3])
    BY <1>1, <1>4 DEF StaticPopFront, StaticPop, Moved
  <2>2. mem' = [mem EXCEPT ![At(0)] = NoBlock]
    BY <1>3, <1>4
  <2>3. n = Count /\ now = Rewound([index EXCEPT ![head] = NULL], Next1(head), tail)
    BY <1>1
  <2> HIDE DEF now, gone, b, q
  <2>4. /\ StaticTyped' /\ LayoutInv' /\ Contents' = ButFirst
        /\ now[2] = now[3] <=> ButFirst = <<>>
    BY <1>3, <2>1, <2>2, <2>3, StaticFrontGone
  <2>5. cost' = CostAfter(b, u, gone, gone /\ q = <<>>)
    <3>1. (now[2] = now[3]) <=> (gone /\ q = <<>>)
      BY <1>4, <2>4 DEF q
    <3> QED BY <2>1, <3>1 DEF CostAfter
  <2>6. Popped(b, q, <<Pop(b, u)>> \o q, u, free)
    BY <1>4, <2>4, <2>5 DEF Popped, gone, q
  <2> QED BY <1>2, <2>4, <2>6 DEF PoppedFront
<1>5. CASE ~gone
  <2>1. /\ UNCHANGED <<area, slots, index, head, tail>>
        /\ cost' = CostAfter(b, u, gone, head = tail)
    BY <1>1, <1>5 DEF StaticPopFront, StaticPop
  <2> DEFINE i == 0
             c == Pop(b, u)
  <2>2. c \in Sound /\ c.size = mem[At(i)].size /\ i \in 0 .. n - 1
    <3>1. b \in Sound /\ b = mem[At(i)] /\ i \in 0 .. n - 1
      BY <1>2
    <3> HIDE DEF b, q
    <3>2. c \in Sound /\ c.size = b.size
      BY <3>1, PopSound
    <3> HIDE DEF c
    <3> QED BY <3>1, <3>2
  <2>3. mem' = [mem EXCEPT ![At(i)] = c]
    BY <1>3, <1>5
  <2> HIDE DEF c, gone, b, q
  <2>4. /\ StaticTyped' /\ LayoutInv' /\ Static' /\ Count' = n /\ mem'[At(i)'] = c
        /\ \A k \in 0 .. n - 1 : k # i => mem'[At(k)'] = mem[At(k)]
    <3> HIDE DEF i
    <3> QED BY <1>1, <2>1, <2>2, <2>3, StaticUsed
  <2> DEFINE r == <<c>> \o q
  <2>5. /\ q \in Seq(Sound) /\ Len(q) = n - 1
        /\ \A k \in 0 .. n - 2 : q[k + 1] = mem[At(k + 1)]
    BY <1>1, StaticEnds DEF q
  <2>6. r \in Seq(Sound) /\ Len(r) = n /\ r[1] = c /\ \A j \in 1 .. n - 1 : r[j + 1] = q[j]
    BY <2>2, <2>5
  <2> HIDE DEF r
  <2>7. ASSUME NEW k \in 0 .. n - 1 PROVE mem'[At(k)'] = r[k + 1]
    <3>1. CASE k = 0
      BY <2>4, <2>6, <3>1
    <3>2. CASE k # 0
      <4>1. k - 1 \in 0 .. n - 2 /\ (k - 1) + 1 = k /\ k \in 1 .. n - 1
        BY <3>2
      <4>2. mem'[At(k)'] = mem[At(k)]
        BY <2>4, <3>2
      <4>3. q[(k - 1) + 1] = mem[At((k - 1) + 1)]
        BY <2>5, <4>1
      <4>4. r[k + 1] = q[k]
        BY <2>6, <4>1
      <4> QED BY <4>1, <4>2, <4>3, <4>4
    <3> QED BY <3>1, <3>2
  <2>8. Contents' = r
    <3>1. Count' = Len(r) /\ \A k \in 0 .. Len(r) - 1 : mem'[At(k)'] = r[k + 1]
      BY <2>4, <2>6, <2>7
    <3> QED BY <2>4, <2>6, <3>1, ContentsAre
  <2>9. cost' = CostAfter(b, u, gone, gone /\ q = <<>>)
    BY <1>5, <2>1 DEF CostAfter
  <2>10. Popped(b, q, <<Pop(b, u)>> \o q, u, free)
    BY <1>5, <2>8, <2>9 DEF Popped, gone, r, c
  <2> QED BY <1>2, <2>4, <2>10 DEF PoppedFront
<1> QED BY <1>4, <1>5

-----------------------------------------------------------------------------
\* The inductive invariant, and what each call does to the queue and its cost.

\* TypeOK and LayoutInv are not enough for the cost: it is kept from call to
\* call, and a pop subtracts what it believes to be in the block.
IInv == TypeOK /\ LayoutInv /\ CostExact

\* What a call may answer.
Codes == {"OK", "FALSE", "BUFF_LIMIT", "NO_DATA", "MALLOC"}

\* Types after a step, by the part of the state.
LEMMA TypeNext ==
  ASSUME TypeOK, StaticTyped', list' \in Seq(Sound), limit' \in PairType, cost' \in PairType,
         ret' \in Codes
  PROVE  TypeOK'
<1>1. list' \in Seq(BlockType) /\ \A i \in DOMAIN list' : list'[i].used <= list'[i].size
  BY DEF Sound
<1>2. mem' \in [DOMAIN mem' -> BlockType] /\ \A a \in DOMAIN mem' : mem'[a].used <= mem'[a].size
  BY DEF StaticTyped, Sound
<1> QED BY <1>1, <1>2 DEF TypeOK, StaticTyped, Codes

\* Types before it.
LEMMA TypeNow ==
  ASSUME TypeOK
  PROVE  /\ StaticTyped /\ list \in Seq(Sound) /\ limit \in PairType /\ cost \in PairType
         /\ cost.size \in Nat /\ cost.number \in Nat
<1>1. list \in Seq(Sound)
  <2>1. list \in Seq(BlockType) /\ \A i \in 1 .. Len(list) : list[i].used <= list[i].size
    BY DEF TypeOK
  <2>2. \A i \in 1 .. Len(list) : list[i] \in Sound
    BY <2>1 DEF Sound
  <2> QED BY <2>1, <2>2
<1>2. mem \in [DOMAIN mem -> Sound]
  <2>1. mem \in [DOMAIN mem -> BlockType] /\ \A a \in DOMAIN mem : mem[a].used <= mem[a].size
    BY DEF TypeOK
  <2> QED BY <2>1 DEF Sound
<1> QED BY <1>1, <1>2 DEF TypeOK, StaticTyped, PairType

\* The queue of either mode is a sequence of blocks.
LEMMA ContentsSound ==
  ASSUME IInv
  PROVE  Contents \in Seq(Sound) /\ (~Static => Contents = list)
<1>1. CASE Static
  BY <1>1, StaticContents DEF IInv, StaticOK
<1>2. CASE ~Static
  BY <1>2, TypeNow DEF IInv, Contents
<1> QED BY <1>1, <1>2

\* The cost follows the queue.
LEMMA KeptCost ==
  ASSUME CostExact, Kept
  PROVE  CostExact'
<1>1. LeftIn(Contents)' = LeftIn(Contents')
  OBVIOUS
<1> QED BY <1>1 DEF CostExact, Kept

\* The cost after a push.
LEMMA PushedCost ==
  ASSUME IInv, NEW s \in Nat, NEW b \in Sound, Left(b) = s, NEW q,
         q = Append(Contents, b) \/ q = <<b>> \o Contents, Pushed(q, s)
  PROVE  CostExact' /\ cost' \in PairType
<1> DEFINE p == Contents
<1>1. p \in Seq(Sound) /\ cost = [size |-> LeftIn(p), number |-> Len(p)]
  BY ContentsSound DEF IInv, CostExact
<1> HIDE DEF p
<1>2. LeftIn(q) = LeftIn(p) + s /\ Len(q) = Len(p) + 1 /\ LeftIn(p) \in Nat /\ Len(p) \in Nat
  <2>1. Len(Append(p, b)) = Len(p) + 1 /\ Len(<<b>> \o p) = Len(p) + 1 /\ Len(p) \in Nat
    BY <1>1
  <2>2. LeftIn(Append(p, b)) = LeftIn(p) + s
    BY <1>1, LeftInAppend
  <2>3. LeftIn(<<b>> \o p) = LeftIn(p) + s
    BY <1>1, LeftInBefore
  <2>4. q = Append(p, b) \/ q = <<b>> \o p
    BY DEF p
  <2> QED BY <1>1, <2>1, <2>2, <2>3, <2>4, LeftInType
<1>3. Contents' = q /\ cost' = [size |-> LeftIn(q), number |-> Len(q)]
  BY <1>1, <1>2 DEF Pushed
<1> QED BY <1>2, <1>3 DEF CostExact, PairType

\* The cost after a pop: a block that is used up takes its number with it, and
\* the last one all of the cost.
LEMMA PoppedCost ==
  ASSUME IInv, NEW u \in Nat, NEW free \in BOOLEAN, NEW q, NEW b,
         PoppedBack(q, b, u, free) \/ PoppedFront(q, b, u, free)
  PROVE  CostExact' /\ cost' \in PairType
<1> DEFINE gone == free /\ Left(b) = Eaten(b, u)
           c    == Pop(b, u)
           p    == Contents
           r    == Contents'
           x    == LeftIn(q)
           n    == Len(q)
<1>1. q \in Seq(Sound) /\ b \in Sound
  BY DEF PoppedBack, PoppedFront
<1>2. /\ p = Append(q, b) \/ p = <<b>> \o q
      /\ r = IF gone THEN q ELSE r
      /\ gone \/ r = Append(q, c) \/ r = <<c>> \o q
      /\ cost' = CostAfter(b, u, gone, gone /\ q = <<>>)
  BY DEF PoppedBack, PoppedFront, Popped
<1>3. cost = [size |-> LeftIn(p), number |-> Len(p)]
  BY DEF IInv, CostExact
<1>4. c \in Sound /\ Eaten(b, u) \in Nat /\ Eaten(b, u) <= Left(b) /\ Left(c) = Left(b) - Eaten(b, u)
  BY <1>1, PopSound
<1>5. x \in Nat /\ n \in Nat /\ Left(b) \in Nat
  BY <1>1, LeftInType, LeftInNat
<1>6. LeftIn(p) = x + Left(b) /\ Len(p) = n + 1
  <2> HIDE DEF p, gone, c, r
  <2>1. LeftIn(Append(q, b)) = x + Left(b) /\ LeftIn(<<b>> \o q) = x + Left(b)
    BY <1>1, LeftInAppend, LeftInBefore
  <2>2. Len(Append(q, b)) = n + 1 /\ Len(<<b>> \o q) = n + 1
    BY <1>1
  <2> QED BY <1>2, <2>1, <2>2
<1>7. /\ gone => LeftIn(r) = x /\ Len(r) = n
      /\ ~gone => LeftIn(r) = x + Left(b) - Eaten(b, u) /\ Len(r) = n + 1
  <2> HIDE DEF p, gone, c, r
  <2>1. LeftIn(Append(q, c)) = x + Left(c) /\ LeftIn(<<c>> \o q) = x + Left(c)
    BY <1>1, <1>4, LeftInAppend, LeftInBefore
  <2>2. Len(Append(q, c)) = n + 1 /\ Len(<<c>> \o q) = n + 1
    BY <1>1
  <2>3. gone => r = q
    BY <1>2
  <2>4. x + Left(c) = x + Left(b) - Eaten(b, u)
    BY <1>4, <1>5
  <2> QED BY <1>2, <2>1, <2>2, <2>3, <2>4
<1>8. q = <<>> => x = 0 /\ n = 0
  BY LeftInEmpty
<1>9. cost' = [size |-> LeftIn(r), number |-> Len(r)] /\ LeftIn(r) \in Nat /\ Len(r) \in Nat
  <2>1. gone => Left(b) = Eaten(b, u)
    OBVIOUS
  <2> HIDE DEF p, gone, c, r, x, n
  <2>2. cost.size = x + Left(b) /\ cost.number = n + 1
    BY <1>3, <1>6
  <2>3. CASE gone /\ q = <<>>
    <3>1. cost' = NoLimit
      BY <1>2, <2>3 DEF CostAfter
    <3> QED BY <1>7, <1>8, <2>3, <3>1 DEF NoLimit
  <2>4. CASE gone /\ q # <<>>
    <3>1. cost' = [size |-> x, number |-> n]
      BY <1>2, <1>4, <1>5, <2>1, <2>2, <2>4 DEF CostAfter
    <3> QED BY <1>5, <1>7, <2>4, <3>1
  <2>5. CASE ~gone
    <3>1. cost' = [size |-> x + Left(b) - Eaten(b, u), number |-> n + 1]
      BY <1>2, <1>4, <1>5, <2>2, <2>5 DEF CostAfter
    <3> QED BY <1>4, <1>5, <1>7, <2>5, <3>1
  <2> QED BY <2>3, <2>4, <2>5
<1> QED BY <1>9 DEF CostExact, PairType

-----------------------------------------------------------------------------
\* The calls.

\* What the blocks and the queue are does not depend on anything else.
LEMMA PlaceKept ==
  ASSUME UNCHANGED place
  PROVE  /\ LayoutInv => LayoutInv'
         /\ StaticTyped => StaticTyped'
         /\ Static' = Static
         /\ UNCHANGED list => Contents' = Contents
BY DEF place, LayoutInv, StaticTyped, Static, Count, At, Full, Logical, Contents

\* A refused call changes nothing but its answer.
LEMMA RefuseDone ==
  ASSUME IInv, NEW code \in Codes, Refuse(code)
  PROVE  TypeOK' /\ LayoutInv' /\ Kept
<1>1. UNCHANGED place /\ UNCHANGED list /\ limit' = limit /\ cost' = cost /\ ret' = code
  BY DEF Refuse
<1>2. StaticTyped' /\ LayoutInv' /\ Kept
  BY <1>1, PlaceKept, TypeNow DEF IInv, Kept
<1>3. list' \in Seq(Sound) /\ limit' \in PairType /\ cost' \in PairType /\ ret' \in Codes
  BY <1>1, TypeNow DEF IInv
<1> QED BY <1>2, <1>3, TypeNext DEF IInv

\* A push either changes nothing the caller sees or puts its block at its end.
LEMMA DynamicPushDone ==
  ASSUME IInv, ~Static, NEW s \in Nat, NEW q \in Seq(Sound), DynamicPush(s, q)
  PROVE  TypeOK' /\ LayoutInv' /\ (Kept \/ Pushed(q, s))
<1>1. CASE Refuse("MALLOC")
  <2>1. "MALLOC" \in Codes
    BY DEF Codes
  <2> QED BY <1>1, <2>1, RefuseDone
<1>2. CASE list' = q /\ Accepted(s) /\ UNCHANGED place
  <2>1. StaticTyped' /\ LayoutInv' /\ ~Static'
    BY <1>2, PlaceKept, TypeNow DEF IInv
  <2>2. /\ list' \in Seq(Sound) /\ limit' \in PairType /\ ret' \in Codes
        /\ cost' = [size |-> cost.size + s, number |-> cost.number + 1]
    BY <1>2, TypeNow DEF IInv, Accepted, Codes
  <2>3. cost' \in PairType
    BY <2>2, TypeNow DEF IInv, PairType
  <2>4. Contents' = q
    BY <1>2, <2>1 DEF Contents
  <2> QED BY <2>1, <2>2, <2>3, <2>4, TypeNext DEF IInv, Pushed
<1> QED BY <1>1, <1>2 DEF DynamicPush

\* Neither does a push that finds no room.
LEMMA NoRoomDone ==
  ASSUME IInv, Static, NoRoom
  PROVE  TypeOK' /\ LayoutInv' /\ Kept
<1>1. StaticTyped' /\ LayoutInv' /\ Kept
  BY StaticNoRoom DEF IInv, StaticOK
<1>2. list' \in Seq(Sound) /\ limit' \in PairType /\ cost' \in PairType /\ ret' \in Codes
  BY TypeNow DEF IInv, NoRoom, Codes
<1> QED BY <1>1, <1>2, TypeNext DEF IInv

\* push_back, in either mode.
LEMMA PushBackDone ==
  ASSUME IInv, NEW s \in Lengths, NEW v \in Payloads, PushBack(s, v)
  PROVE  TypeOK' /\ LayoutInv' /\ (Kept \/ Pushed(Append(Contents, Block(v, s)), s))
<1>1. s \in Nat /\ Block(v, s) \in Sound /\ "BUFF_LIMIT" \in Codes
  BY CallerAssumption, NewBlock DEF Codes
<1>2. CASE OverLimit(s)
  BY <1>1, <1>2, RefuseDone DEF PushBack
<1>3. CASE ~OverLimit(s) /\ Static
  <2> DEFINE a == PlaceBack(HeadAt, TailAt, FullSize(s))
  <2>0. StaticPushBack(s, v) /\ StaticOK
    BY <1>3 DEF PushBack, IInv, StaticOK
  <2>1. CASE Next1(tail) = head
    <3>1. Refuse("BUFF_LIMIT")
      BY <2>0, <2>1 DEF StaticPushBack
    <3> QED BY <1>1, <3>1, RefuseDone
  <2>2. CASE Next1(tail) # head /\ a = NULL
    <3>1. NoRoom
      BY <2>0, <2>2 DEF StaticPushBack
    <3> QED BY <1>3, <3>1, NoRoomDone
  <2>3. CASE Next1(tail) # head /\ a # NULL
    <3>1. StaticTyped' /\ LayoutInv' /\ Pushed(Append(Contents, Block(v, s)), s)
      BY <1>1, <2>0, <2>3, StaticBackPlaced
    <3>2. list' = list /\ limit' = limit /\ ret' = "OK"
      BY <2>0, <2>3 DEF StaticPushBack, Accepted
    <3>3. cost' \in PairType
      BY <1>1, <3>1, TypeNow DEF IInv, PairType, Pushed
    <3>4. list' \in Seq(Sound) /\ limit' \in PairType /\ ret' \in Codes
      BY <3>2, TypeNow DEF IInv, Codes
    <3> QED BY <3>1, <3>3, <3>4, TypeNext DEF IInv
  <2> QED BY <2>1, <2>2, <2>3
<1>4. CASE ~OverLimit(s) /\ ~Static
  <2>1. DynamicPush(s, Append(list, Block(v, s))) /\ Contents = list
    BY <1>4, ContentsSound DEF PushBack
  <2>2. Append(list, Block(v, s)) \in Seq(Sound)
    BY <1>1, TypeNow DEF IInv
  <2> QED BY <1>1, <1>4, <2>1, <2>2, DynamicPushDone
<1> QED BY <1>2, <1>3, <1>4

\* push_front, in either mode.
LEMMA PushFrontDone ==
  ASSUME IInv, NEW s \in Lengths, NEW v \in Payloads, PushFront(s, v)
  PROVE  TypeOK' /\ LayoutInv' /\ (Kept \/ Pushed(<<Block(v, s)>> \o Contents, s))
<1>1. s \in Nat /\ Block(v, s) \in Sound /\ "BUFF_LIMIT" \in Codes
  BY CallerAssumption, NewBlock DEF Codes
<1>2. CASE OverLimit(s)
  BY <1>1, <1>2, RefuseDone DEF PushFront
<1>3. CASE ~OverLimit(s) /\ Static
  <2> DEFINE a == PlaceFront(HeadAt, TailAt, FullSize(s))
  <2>0. StaticPushFront(s, v) /\ StaticOK
    BY <1>3 DEF PushFront, IInv, StaticOK
  <2>1. CASE Next1(tail) = head
    <3>1. Refuse("BUFF_LIMIT")
      BY <2>0, <2>1 DEF StaticPushFront
    <3> QED BY <1>1, <3>1, RefuseDone
  <2>2. CASE Next1(tail) # head /\ a = NULL
    <3>1. NoRoom
      BY <2>0, <2>2 DEF StaticPushFront
    <3> QED BY <1>3, <3>1, NoRoomDone
  <2>3. CASE Next1(tail) # head /\ a # NULL
    <3>1. StaticTyped' /\ LayoutInv' /\ Pushed(<<Block(v, s)>> \o Contents, s)
      BY <1>1, <2>0, <2>3, StaticFrontPlaced
    <3>2. list' = list /\ limit' = limit /\ ret' = "OK"
      BY <2>0, <2>3 DEF StaticPushFront, Accepted
    <3>3. cost' \in PairType
      BY <1>1, <3>1, TypeNow DEF IInv, PairType, Pushed
    <3>4. list' \in Seq(Sound) /\ limit' \in PairType /\ ret' \in Codes
      BY <3>2, TypeNow DEF IInv, Codes
    <3> QED BY <3>1, <3>3, <3>4, TypeNext DEF IInv
  <2> QED BY <2>1, <2>2, <2>3
<1>4. CASE ~OverLimit(s) /\ ~Static
  <2>1. DynamicPush(s, <<Block(v, s)>> \o list) /\ Contents = list
    BY <1>4, ContentsSound DEF PushFront
  <2>2. <<Block(v, s)>> \o list \in Seq(Sound)
    BY <1>1, TypeNow DEF IInv
  <2> QED BY <1>1, <1>4, <2>1, <2>2, DynamicPushDone
<1> QED BY <1>2, <1>3, <1>4

\* A pop either changes nothing or consumes from the block at its end.
LEMMA PopBackDone ==
  ASSUME IInv, NEW u \in PopSizes, NEW free \in BOOLEAN, PopBack(u, free)
  PROVE  /\ TypeOK' /\ LayoutInv'
         /\ Kept \/ \E q, b : PoppedBack(q, b, u, free)
<1>1. u \in Nat /\ "NO_DATA" \in Codes
  BY CallerAssumption DEF Codes
<1>2. CASE Empty
  BY <1>1, <1>2, RefuseDone DEF PopBack
<1>3. CASE ~Empty /\ Static
  <2>1. StaticPopBack(u, free) /\ StaticOK /\ head # tail
    BY <1>3 DEF PopBack, IInv, StaticOK, Empty
  <2>2. /\ StaticTyped' /\ LayoutInv'
        /\ \E q, b : PoppedBack(q, b, u, free)
    BY <1>1, <2>1, StaticPopBackDone
  <2>3. cost' \in PairType
    BY <1>1, <2>2, PoppedCost
  <2>4. list' = list /\ limit' = limit /\ ret' = "OK"
    BY <2>1 DEF StaticPopBack, StaticPop
  <2>5. list' \in Seq(Sound) /\ limit' \in PairType /\ ret' \in Codes
    BY <2>4, TypeNow DEF IInv, Codes
  <2> QED BY <2>2, <2>3, <2>5, TypeNext DEF IInv
<1>4. CASE ~Empty /\ ~Static
  <2> DEFINE q == SubSeq(list, 1, Len(list) - 1)
             b == list[Len(list)]
  <2>1. DynamicPop(b, u, free, q, Append(q, Pop(b, u))) /\ list # <<>>
    BY <1>4 DEF PopBack, Empty
  <2>2. q \in Seq(Sound) /\ b \in Sound /\ list = Append(q, b) /\ list \in Seq(Sound)
    <3>1. list \in Seq(Sound) /\ Len(list) \in Nat \ {0}
      BY <2>1, TypeNow DEF IInv
    <3>2. /\ q \in Seq(Sound) /\ Len(q) = Len(list) - 1 /\ b \in Sound
          /\ \A i \in 1 .. Len(list) - 1 : q[i] = list[i]
      <4> DEFINE m == Len(list) - 1
      <4>1. m \in Nat /\ m <= Len(list) /\ Len(list) \in 1 .. Len(list)
        BY <3>1
      <4> HIDE DEF m
      <4>2. SubSeq(list, 1, m) \in Seq(Sound) /\ Len(SubSeq(list, 1, m)) = m
            /\ \A i \in 1 .. m : SubSeq(list, 1, m)[i] = list[i]
        BY <3>1, <4>1, SubSeqProperties
      <4> QED BY <3>1, <4>1, <4>2 DEF m
    <3> HIDE DEF q
    <3>3. \A k \in 0 .. Len(q) - 1 : list[k + 1] = q[k + 1]
      BY <3>1, <3>2
    <3>4. list[Len(q) + 1] = b
      BY <3>1, <3>2
    <3> HIDE DEF b
    <3> QED BY <3>1, <3>2, <3>3, <3>4, IsAppend
  <2> HIDE DEF q, b
  <2>3. /\ UNCHANGED place /\ limit' = limit /\ ret' = "OK"
        /\ list' = IF free /\ Left(b) = Eaten(b, u) THEN q ELSE Append(q, Pop(b, u))
    BY <2>1 DEF DynamicPop
  <2>4. StaticTyped' /\ LayoutInv' /\ ~Static'
    BY <1>4, <2>3, PlaceKept, TypeNow DEF IInv
  <2>5. Pop(b, u) \in Sound
    BY <1>1, <2>2, PopSound
  <2>6. list' \in Seq(Sound) /\ limit' \in PairType /\ ret' \in Codes
    BY <2>2, <2>3, <2>5, TypeNow DEF IInv, Codes
  <2>7. PoppedBack(q, b, u, free)
    BY <1>4, <2>1, <2>2, <2>3, <2>4 DEF PoppedBack, Popped, DynamicPop, Contents
  <2>8. cost' \in PairType
    BY <1>1, <2>7, PoppedCost
  <2> QED BY <2>4, <2>6, <2>7, <2>8, TypeNext DEF IInv
<1> QED BY <1>2, <1>3, <1>4

\* pop_front, in either mode.
LEMMA PopFrontDone ==
  ASSUME IInv, NEW u \in PopSizes, NEW free \in BOOLEAN, PopFront(u, free)
  PROVE  /\ TypeOK' /\ LayoutInv'
         /\ Kept \/ \E q, b : PoppedFront(q, b, u, free)
<1>1. u \in Nat /\ "NO_DATA" \in Codes
  BY CallerAssumption DEF Codes
<1>2. CASE Empty
  BY <1>1, <1>2, RefuseDone DEF PopFront
<1>3. CASE ~Empty /\ Static
  <2>1. StaticPopFront(u, free) /\ StaticOK /\ head # tail
    BY <1>3 DEF PopFront, IInv, StaticOK, Empty
  <2>2. /\ StaticTyped' /\ LayoutInv'
        /\ \E q, b : PoppedFront(q, b, u, free)
    BY <1>1, <2>1, StaticPopFrontDone
  <2>3. cost' \in PairType
    BY <1>1, <2>2, PoppedCost
  <2>4. list' = list /\ limit' = limit /\ ret' = "OK"
    BY <2>1 DEF StaticPopFront, StaticPop
  <2>5. list' \in Seq(Sound) /\ limit' \in PairType /\ ret' \in Codes
    BY <2>4, TypeNow DEF IInv, Codes
  <2> QED BY <2>2, <2>3, <2>5, TypeNext DEF IInv
<1>4. CASE ~Empty /\ ~Static
  <2> DEFINE q == Tail(list)
             b == Head(list)
  <2>1. DynamicPop(b, u, free, q, <<Pop(b, u)>> \o q) /\ list # <<>>
    BY <1>4 DEF PopFront, Empty
  <2>2. q \in Seq(Sound) /\ b \in Sound /\ list = <<b>> \o q /\ list \in Seq(Sound)
    <3>1. list \in Seq(Sound) /\ Len(list) \in Nat \ {0}
      BY <2>1, TypeNow DEF IInv
    <3>2. /\ q \in Seq(Sound) /\ Len(q) = Len(list) - 1 /\ b \in Sound /\ b = list[1]
          /\ \A i \in 1 .. Len(list) - 1 : q[i] = list[i + 1]
      BY <3>1
    <3> HIDE DEF q
    <3>3. \A k \in 0 .. Len(q) - 1 : list[(k + 1) + 1] = q[k + 1]
      BY <3>1, <3>2
    <3> HIDE DEF b
    <3> QED BY <3>1, <3>2, <3>3, IsPrepend
  <2> HIDE DEF q, b
  <2>3. /\ UNCHANGED place /\ limit' = limit /\ ret' = "OK"
        /\ list' = IF free /\ Left(b) = Eaten(b, u) THEN q ELSE <<Pop(b, u)>> \o q
    BY <2>1 DEF DynamicPop
  <2>4. StaticTyped' /\ LayoutInv' /\ ~Static'
    BY <1>4, <2>3, PlaceKept, TypeNow DEF IInv
  <2>5. Pop(b, u) \in Sound
    BY <1>1, <2>2, PopSound
  <2>6. list' \in Seq(Sound) /\ limit' \in PairType /\ ret' \in Codes
    BY <2>2, <2>3, <2>5, TypeNow DEF IInv, Codes
  <2>7. PoppedFront(q, b, u, free)
    BY <1>4, <2>1, <2>2, <2>3, <2>4 DEF PoppedFront, Popped, DynamicPop, Contents
  <2>8. cost' \in PairType
    BY <1>1, <2>7, PoppedCost
  <2> QED BY <2>4, <2>6, <2>7, <2>8, TypeNext DEF IInv
<1> QED BY <1>2, <1>3, <1>4

\* Everything is taken out at once.
Emptied == Contents' = <<>> /\ cost' = NoLimit

\* Without blocks and memory the manager is in dynamic mode and empty.
LEMMA DynamicAgain ==
  ASSUME IInv, Cleared, ret' \in Codes, limit' \in PairType,
         area' = 0, slots' = 0, index' = <<>>, mem' = <<>>
  PROVE  TypeOK' /\ LayoutInv' /\ Emptied
<1>1. ~Static' /\ StaticTyped'
  BY DEF Static, StaticTyped
<1>2. LayoutInv' /\ Emptied
  BY <1>1 DEF LayoutInv, Emptied, Cleared, Contents
<1>3. list' \in Seq(Sound) /\ cost' \in PairType
  BY DEF Cleared, NoLimit, PairType
<1> QED BY <1>1, <1>2, <1>3, TypeNext DEF IInv

\* reset.
LEMMA ResetDone ==
  ASSUME IInv, Reset
  PROVE  TypeOK' /\ LayoutInv' /\ Emptied
<1>1. /\ Cleared /\ ret' \in Codes /\ limit' \in PairType
      /\ area' = 0 /\ slots' = 0 /\ index' = <<>> /\ mem' = <<>>
  BY DEF Reset, Codes, NoLimit, PairType
<1> QED BY <1>1, DynamicAgain

\* set_mode, which drops what was there.
LEMMA SetModeDone ==
  ASSUME IInv, NEW m \in Modes, SetMode(m[1], m[2])
  PROVE  TypeOK' /\ LayoutInv' /\ Emptied
<1>1. Cleared /\ ret' \in Codes /\ m[1] \in Nat /\ m[2] \in Nat
  BY CallerAssumption DEF SetMode, Codes
<1>2. CASE /\ area' = 0 /\ slots' = 0 /\ index' = <<>> /\ mem' = <<>>
           /\ limit' = NoLimit
  <2>1. limit' \in PairType
    BY <1>2 DEF NoLimit, PairType
  <2> QED BY <1>1, <1>2, <2>1, DynamicAgain
<1>3. CASE /\ m[1] > 0 /\ m[2] > 0
           /\ area' = PaddingSize(m[1]) /\ slots' = m[2] + 1
           /\ index' = [i \in 0 .. m[2] |-> NULL]
           /\ mem' = [a \in 0 .. PaddingSize(m[1]) - 1 |-> NoBlock]
           /\ limit' = [size |-> m[1], number |-> m[2]]
  <2>1. /\ area' \in Nat /\ slots' \in Nat /\ slots' > 1 /\ slots' - 1 = m[2]
        /\ head' = 0 /\ tail' = 0 /\ list' = <<>> /\ cost' = NoLimit
        /\ index' \in [0 .. m[2] -> 0 .. area' \cup {NULL}] /\ index'[0] = NULL
        /\ mem' \in [0 .. area' - 1 -> Sound]
    <3>1. /\ area' \in Nat /\ slots' \in Nat /\ slots' > 1 /\ slots' - 1 = m[2]
          /\ head' = 0 /\ tail' = 0 /\ list' = <<>> /\ cost' = NoLimit
      <4>1. PaddingSize(m[1]) \in Nat
        BY <1>1, Paddings
      <4>2. head' = 0 /\ tail' = 0 /\ list' = <<>> /\ cost' = NoLimit
        BY <1>1 DEF Cleared
      <4> QED BY <1>1, <1>3, <4>1, <4>2
    <3>2. index' \in [0 .. m[2] -> 0 .. area' \cup {NULL}] /\ index'[0] = NULL
      BY <1>1, <1>3
    <3>3. NoBlock \in Sound
      BY DEF NoBlock, Sound, BlockType
    <3>4. mem' = [a \in 0 .. area' - 1 |-> NoBlock]
      BY <1>3
    <3>5. mem' \in [0 .. area' - 1 -> Sound]
      BY <3>3, <3>4
    <3> QED BY <3>1, <3>2, <3>5
  <2>2. StaticTyped'
    <3>1. DOMAIN index' = 0 .. slots' - 1 /\ DOMAIN mem' = 0 .. area' - 1 /\ 0 \in 0 .. slots' - 1
      BY <2>1
    <3> QED BY <2>1, <3>1 DEF StaticTyped
  <2>3. Count' = 0
    <3> DEFINE n == slots'
               z == 0
    <3>1. n \in Nat \ {0} /\ z \in 0 .. n - 1 /\ Count' = (z + n - z) % n /\ z = 0
      BY <2>1 DEF Count
    <3> HIDE DEF n, z
    <3>2. (z + n - z) % n = IF z >= z THEN z - z ELSE z + n - z
      BY ONLY <3>1, CountBetween
    <3> QED BY <3>1, <3>2
  <2>4. LayoutInv'
    BY <2>1, <2>3 DEF LayoutInv
  <2>5. Contents' = <<>>
    <3>1. CASE Static'
      <4> DEFINE r == <<>>
      <4>1. r \in Seq(Sound) /\ Len(r) = 0
        OBVIOUS
      <4> HIDE DEF r
      <4>2. Static' /\ Count' = Len(r) /\ \A k \in 0 .. Len(r) - 1 : mem'[At(k)'] = r[k + 1]
        BY <2>3, <3>1, <4>1
      <4>3. Contents' = r
        BY ONLY <4>1, <4>2, ContentsAre
      <4> QED BY <4>3 DEF r
    <3>2. CASE ~Static'
      BY <2>1, <3>2 DEF Contents
    <3> QED BY <3>1, <3>2
  <2>6. list' \in Seq(Sound) /\ cost' \in PairType /\ limit' \in PairType
    BY <1>1, <1>3, <2>1 DEF NoLimit, PairType
  <2> QED BY <1>1, <2>1, <2>2, <2>4, <2>5, <2>6, TypeNext DEF IInv, Emptied
<1> QED BY <1>2, <1>3 DEF SetMode

\* set_limit.
LEMMA SetLimitDone ==
  ASSUME IInv, NEW l \in Limits, SetLimit(l[1], l[2])
  PROVE  TypeOK' /\ LayoutInv' /\ Kept
<1>1. l[1] \in Nat /\ l[2] \in Nat
  BY CallerAssumption
<1>2. /\ UNCHANGED place /\ UNCHANGED list /\ UNCHANGED cost /\ ret' \in Codes
      /\ limit' = limit \/ limit' = [size |-> l[1], number |-> l[2]]
  BY DEF SetLimit, Codes
<1>3. StaticTyped' /\ LayoutInv' /\ Kept
  BY <1>2, PlaceKept, TypeNow DEF IInv, Kept
<1>4. list' \in Seq(Sound) /\ limit' \in PairType /\ cost' \in PairType
  BY <1>1, <1>2, TypeNow DEF IInv, PairType
<1> QED BY <1>2, <1>3, <1>4, TypeNext DEF IInv

\* A step in which nothing happens.
LEMMA StutterDone ==
  ASSUME IInv, UNCHANGED vars
  PROVE  TypeOK' /\ LayoutInv' /\ Kept
<1>1. UNCHANGED place /\ UNCHANGED list /\ UNCHANGED <<limit, cost, ret>>
  BY DEF vars
<1>2. StaticTyped' /\ LayoutInv' /\ Kept
  BY <1>1, PlaceKept, TypeNow DEF IInv, Kept
<1>3. list' \in Seq(Sound) /\ limit' \in PairType /\ cost' \in PairType /\ ret' \in Codes
  BY <1>1, TypeNow DEF IInv, TypeOK, Codes
<1> QED BY <1>2, <1>3, TypeNext DEF IInv

\* What a step of the buffer manager is to its caller.
Step ==
  \/ Kept
  \/ Emptied
  \/ \E s \in Lengths, v \in Payloads : Pushed(Append(Contents, Block(v, s)), s)
  \/ \E s \in Lengths, v \in Payloads : Pushed(<<Block(v, s)>> \o Contents, s)
  \/ \E u \in PopSizes, free \in BOOLEAN : \E q, b : PoppedBack(q, b, u, free)
  \/ \E u \in PopSizes, free \in BOOLEAN : \E q, b : PoppedFront(q, b, u, free)

\* Every call.
LEMMA EveryStep ==
  ASSUME IInv, [Next]_vars
  PROVE  TypeOK' /\ LayoutInv' /\ Step
<1>1. CASE \E m \in Modes : SetMode(m[1], m[2])
  BY <1>1, SetModeDone DEF Step
<1>2. CASE \E l \in Limits : SetLimit(l[1], l[2])
  BY <1>2, SetLimitDone DEF Step
<1>3. CASE Reset
  BY <1>3, ResetDone DEF Step
<1>4. CASE \E s \in Lengths, v \in Payloads : PushBack(s, v)
  BY <1>4, PushBackDone DEF Step
<1>5. CASE \E s \in Lengths, v \in Payloads : PushFront(s, v)
  BY <1>5, PushFrontDone DEF Step
<1>6. CASE \E n \in PopSizes, free \in BOOLEAN : PopBack(n, free)
  BY <1>6, PopBackDone DEF Step
<1>7. CASE \E n \in PopSizes, free \in BOOLEAN : PopFront(n, free)
  BY <1>7, PopFrontDone DEF Step
<1>8. CASE UNCHANGED vars
  BY <1>8, StutterDone DEF Step
<1> QED BY <1>1, <1>2, <1>3, <1>4, <1>5, <1>6, <1>7, <1>8 DEF Next

\* The cost after every call.
LEMMA EveryCost ==
  ASSUME IInv, Step
  PROVE  CostExact'
<1>1. CASE Kept
  BY <1>1, KeptCost DEF IInv
<1>2. CASE Emptied
  <2>1. LeftIn(Contents') = 0 /\ Len(Contents') = 0
    BY <1>2, LeftInEmpty DEF Emptied
  <2> QED BY <1>2, <2>1 DEF CostExact, Emptied, NoLimit
<1>3. ASSUME NEW s \in Lengths, NEW v \in Payloads, NEW q,
             q = Append(Contents, Block(v, s)) \/ q = <<Block(v, s)>> \o Contents, Pushed(q, s)
      PROVE  CostExact'
  <2>1. s \in Nat /\ Block(v, s) \in Sound /\ Left(Block(v, s)) = s
    BY CallerAssumption, NewBlock
  <2> QED BY <1>3, <2>1, PushedCost
<1>4. ASSUME NEW u \in PopSizes, NEW free \in BOOLEAN, NEW q, NEW b,
             PoppedBack(q, b, u, free) \/ PoppedFront(q, b, u, free)
      PROVE  CostExact'
  <2>1. u \in Nat
    BY CallerAssumption
  <2> QED BY <1>4, <2>1, PoppedCost
<1> QED BY <1>1, <1>2, <1>3, <1>4 DEF Step

\* A new manager is empty.
LEMMA InitInv == Init => IInv /\ Contents = <<>>
<1> SUFFICES ASSUME Init PROVE IInv /\ Contents = <<>>
  OBVIOUS
<1>1. ~Static /\ Contents = <<>>
  BY DEF Init, Static, Contents
<1>2. TypeOK
  BY <1>1 DEF Init, TypeOK, Static, NoLimit, PairType
<1>3. LayoutInv
  BY <1>1 DEF LayoutInv
<1>4. CostExact
  BY <1>1, LeftInEmpty DEF CostExact, Init, NoLimit
<1> QED BY <1>1, <1>2, <1>3, <1>4 DEF IInv

\* IInv holds in every behaviour of one buffer_manager, for every area, number
\* of slots, limit and sequence of pushes, pops, resets and changes of mode.
THEOREM Invariant == Spec => []IInv
<1>1. IInv /\ [Next]_vars => IInv'
  BY EveryStep, EveryCost DEF IInv
<1> QED BY <1>1, InitInv, PTL DEF Spec

\* head and tail stay slots, addresses stay in the area or NULL and no block has
\* more consumed than it holds, whatever calls are made.
THEOREM TypeCorrect == Spec => []TypeOK
BY Invariant, PTL DEF IInv

\* Static mode: the blocks in the ring lie in the one area malloc gave, whole
\* and without meeting, where a push puts them at the end of the area or at its
\* start and a pop gives back only the ends.
THEOREM LayoutKept == Spec => []LayoutInv
BY Invariant, PTL DEF IInv

\* What cost_number_ and cost_size_ say is in the queue is what is in it, after
\* every push, partial pop and reset, in both modes: the limits are judged on
\* them.
THEOREM CostCorrect == Spec => []CostExact
BY Invariant, PTL DEF IInv

-----------------------------------------------------------------------------
\* The deque the buffer manager implements.

\* A pop of u units consumes what the deque's pop of at most the size does.
LEMMA ConsumedIsPop ==
  ASSUME NEW b \in Sound, NEW u \in Nat
  PROVE  \E n \in 0 .. b.size :
           /\ TheDeque!Consumed(b, n) = Pop(b, u)
           /\ TheDeque!Spent(TheDeque!Consumed(b, n)) <=> Left(b) = Eaten(b, u)
<1> DEFINE n == IF u > b.size THEN b.size ELSE u
<1>1. /\ b.size \in Nat /\ b.used \in Nat /\ b.used <= b.size
      /\ n \in 0 .. b.size
  BY DEF Sound, BlockType
<1>2. TheDeque!Consumed(b, n) = Pop(b, u)
  <2>1. (IF b.used + n > b.size THEN b.size ELSE b.used + n)
          = IF b.used + u > b.size THEN b.size ELSE b.used + u
    BY <1>1
  <2> HIDE DEF n
  <2>2. /\ TheDeque!Consumed(b, n)
             = [b EXCEPT !.used = IF b.used + n > b.size THEN b.size ELSE b.used + n]
        /\ Pop(b, u) = [b EXCEPT !.used = IF b.used + u > b.size THEN b.size ELSE b.used + u]
    BY DEF TheDeque!Consumed, Pop
  <2> QED BY <2>1, <2>2
<1>3. TheDeque!Spent(Pop(b, u)) <=> Left(b) = Eaten(b, u)
  <2>1. Pop(b, u) \in Sound /\ Left(Pop(b, u)) = Left(b) - Eaten(b, u) /\ Eaten(b, u) \in Nat
    BY PopSound
  <2> DEFINE c == Pop(b, u)
  <2>2. c.used \in Nat /\ c.size \in Nat /\ Left(c) = c.size - c.used /\ Left(b) \in Nat
    BY <2>1, LeftInNat DEF Sound, BlockType, Left
  <2> HIDE DEF c
  <2>3. c.used = c.size <=> Left(b) = Eaten(b, u)
    BY <2>1, <2>2 DEF c
  <2> QED BY <2>3 DEF TheDeque!Spent, c
<1> QED BY <1>1, <1>2, <1>3

\* A queue with one more block has it at that end.
LEMMA Ends ==
  ASSUME NEW q \in Seq(Sound), NEW b \in Sound
  PROVE  /\ Append(q, b) # <<>> /\ Append(q, b)[Len(Append(q, b))] = b
         /\ SubSeq(Append(q, b), 1, Len(Append(q, b)) - 1) = q
         /\ <<b>> \o q # <<>> /\ Head(<<b>> \o q) = b /\ Tail(<<b>> \o q) = q
<1> DEFINE r == Append(q, b)
           n == Len(q)
<1>1. /\ n \in Nat /\ r \in Seq(Sound) /\ Len(r) = n + 1 /\ r[n + 1] = b
      /\ \A i \in 1 .. n : r[i] = q[i]
  OBVIOUS
<1>2. SubSeq(r, 1, Len(r) - 1) = q
  <2> HIDE DEF r, n
  <2>1. Len(r) - 1 = n /\ \A i \in 1 .. n : r[i] \in Sound
    BY <1>1
  <2>2. /\ SubSeq(r, 1, n) \in Seq(Sound) /\ Len(SubSeq(r, 1, n)) = n
        /\ \A i \in 1 .. n : SubSeq(r, 1, n)[i] = r[i]
    <3>1. 1 \in Int /\ n \in Int /\ \A i \in 1 .. n : r[i] \in Sound
      BY <1>1, <2>1
    <3> DEFINE t == SubSeq(r, 1, n)
    <3>2. /\ t \in Seq(Sound) /\ Len(t) = (IF 1 <= n THEN n - 1 + 1 ELSE 0)
          /\ \A i \in 1 .. n - 1 + 1 : t[i] = r[1 + i - 1]
      BY ONLY <3>1, SubSeqProperties
    <3> HIDE DEF t
    <3>3. Len(t) = n /\ \A i \in 1 .. n : t[i] = r[i]
      BY <1>1, <3>2
    <3> QED BY <3>2, <3>3 DEF t
  <2>3. \A i \in 1 .. n : SubSeq(r, 1, n)[i] = q[i]
    BY <1>1, <2>2
  <2> QED BY <1>1, <2>1, <2>2, <2>3, SeqEqual DEF n
<1>3. r # <<>> /\ r[Len(r)] = b
  BY <1>1
<1>4. <<b>> \o q # <<>> /\ Head(<<b>> \o q) = b /\ Tail(<<b>> \o q) = q
  <2>1. /\ <<b>> \o q \in Seq(Sound) /\ Len(<<b>> \o q) = n + 1 /\ (<<b>> \o q)[1] = b
        /\ \A i \in 1 .. n : (<<b>> \o q)[i + 1] = q[i]
    OBVIOUS
  <2> DEFINE t == <<b>> \o q
  <2> HIDE DEF t, n, r
  <2>2. /\ t # <<>> /\ Head(t) = b
        /\ Tail(t) \in Seq(Sound) /\ Len(Tail(t)) = n
        /\ \A i \in 1 .. n : Tail(t)[i] = t[i + 1]
    BY <1>1, <2>1 DEF t
  <2>3. \A i \in 1 .. n : Tail(t)[i] = q[i]
    BY <2>1, <2>2 DEF t
  <2>4. Tail(t) = q
    BY <2>2, <2>3, SeqEqual DEF n
  <2> QED BY <2>2, <2>4 DEF t
<1> QED BY <1>2, <1>3, <1>4

\* Every step is a step of the deque or changes nothing in it.
LEMMA StepIsDeque ==
  ASSUME IInv, Step
  PROVE  [TheDeque!Next]_Contents
<1>1. CASE Kept
  BY <1>1 DEF Kept
<1>2. CASE Emptied
  BY <1>2 DEF Emptied, TheDeque!Next, TheDeque!Clear
<1>3. ASSUME NEW s \in Lengths, NEW v \in Payloads, Pushed(Append(Contents, Block(v, s)), s)
      PROVE  TheDeque!PushBack
  BY <1>3 DEF Pushed, TheDeque!PushBack, TheDeque!Block, Block
<1>4. ASSUME NEW s \in Lengths, NEW v \in Payloads, Pushed(<<Block(v, s)>> \o Contents, s)
      PROVE  TheDeque!PushFront
  BY <1>4 DEF Pushed, TheDeque!PushFront, TheDeque!Block, Block
<1>5. ASSUME NEW u \in PopSizes, NEW free \in BOOLEAN, NEW q, NEW b, PoppedBack(q, b, u, free)
      PROVE  TheDeque!PopBack
  <2> DEFINE gone == free /\ Left(b) = Eaten(b, u)
  <2>1. /\ q \in Seq(Sound) /\ b \in Sound /\ Contents = Append(q, b)
        /\ Contents' = IF gone THEN q ELSE Append(q, Pop(b, u))
    BY <1>5 DEF PoppedBack, Popped
  <2>2. PICK n \in 0 .. b.size :
          /\ TheDeque!Consumed(b, n) = Pop(b, u)
          /\ TheDeque!Spent(TheDeque!Consumed(b, n)) <=> Left(b) = Eaten(b, u)
    BY <2>1, ConsumedIsPop, CallerAssumption
  <2>3. /\ Contents # <<>> /\ Contents[Len(Contents)] = b
        /\ SubSeq(Contents, 1, Len(Contents) - 1) = q
    BY <2>1, Ends
  <2>4. Contents' = IF free /\ TheDeque!Spent(TheDeque!Consumed(b, n)) THEN q
                    ELSE Append(q, TheDeque!Consumed(b, n))
    BY <2>1, <2>2
  <2> HIDE DEF gone
  <2> QED BY <2>2, <2>3, <2>4 DEF TheDeque!PopBack
<1>6. ASSUME NEW u \in PopSizes, NEW free \in BOOLEAN, NEW q, NEW b, PoppedFront(q, b, u, free)
      PROVE  TheDeque!PopFront
  <2> DEFINE gone == free /\ Left(b) = Eaten(b, u)
  <2>1. /\ q \in Seq(Sound) /\ b \in Sound /\ Contents = <<b>> \o q
        /\ Contents' = IF gone THEN q ELSE <<Pop(b, u)>> \o q
    BY <1>6 DEF PoppedFront, Popped
  <2>2. PICK n \in 0 .. b.size :
          /\ TheDeque!Consumed(b, n) = Pop(b, u)
          /\ TheDeque!Spent(TheDeque!Consumed(b, n)) <=> Left(b) = Eaten(b, u)
    BY <2>1, ConsumedIsPop, CallerAssumption
  <2>3. Contents # <<>> /\ Head(Contents) = b /\ Tail(Contents) = q
    BY <2>1, Ends
  <2>4. Contents' = IF free /\ TheDeque!Spent(TheDeque!Consumed(b, n)) THEN q
                    ELSE <<TheDeque!Consumed(b, n)>> \o q
    BY <2>1, <2>2
  <2> HIDE DEF gone
  <2> QED BY <2>2, <2>3, <2>4 DEF TheDeque!PopFront
<1> QED BY <1>1, <1>2, <1>3, <1>4, <1>5, <1>6 DEF Step, TheDeque!Next

\* A buffer_manager is a double-ended queue of blocks: pushes and pops at either
\* end, in static or dynamic mode, do to the queue what they say and move, lose
\* or change no other block.
THEOREM Refinement == Spec => DequeSpec
<1>1. Init => TheDeque!Init
  BY InitInv DEF TheDeque!Init
<1>2. IInv /\ [Next]_vars => [TheDeque!Next]_Contents
  BY EveryStep, StepIsDeque
<1> QED BY <1>1, <1>2, Invariant, PTL DEF Spec, DequeSpec, TheDeque!Spec

\* A push that an empty static buffer refuses is too long for it.
LEMMA EmptyRefuses ==
  ASSUME IInv, NEW s \in Lengths, NEW v \in Payloads, PushBack(s, v), Static, Empty, ret' # "OK"
  PROVE  FullSize(s) > area \/ s > limit.size
<1>1. /\ StaticOK /\ head = tail /\ slots \in Nat \ {0} /\ slots > 1
      /\ head \in 0 .. slots - 1 /\ tail \in 0 .. slots - 1 /\ Count = 0
  <2>1. StaticOK /\ head = tail
    BY DEF IInv, StaticOK, Empty
  <2> QED BY <2>1, StaticTypes
<1>2. cost.size = 0 /\ cost.number = 0
  <2>1. Contents \in Seq(Sound) /\ Len(Contents) = 0
    BY <1>1, StaticContents
  <2>2. Contents = <<>>
    BY <2>1
  <2> QED BY <2>1, <2>2, LeftInEmpty DEF IInv, CostExact
<1>3. s \in Nat /\ limit.size \in Nat /\ limit.number \in Nat /\ FullSize(s) \in Nat /\ area \in Nat
  BY CallerAssumption, FullSizes, TypeNow, StaticTypes, <1>1 DEF IInv, PairType
<1>4. CASE OverLimit(s)
  BY <1>2, <1>3, <1>4 DEF OverLimit
<1>5. CASE ~OverLimit(s)
  <2> DEFINE a == PlaceBack(HeadAt, TailAt, FullSize(s))
  <2>1. StaticPushBack(s, v)
    BY <1>5 DEF PushBack
  <2>2. Next1(tail) # head
    BY <1>1, SlotBeside DEF Next1
  <2>3. a = NULL
    BY <2>1, <2>2 DEF StaticPushBack, Accepted
  <2>4. HeadAt = 0 /\ TailAt = 0
    BY <1>1, StaticLaid
  <2>5. a = IF area >= FullSize(s) THEN 0 ELSE NULL
    BY <1>3, <2>3, <2>4 DEF PlaceBack, NULL
  <2>6. FullSize(s) > area
    BY <1>3, <2>3, <2>5 DEF NULL
  <2> QED BY <2>6
<1> QED BY <1>4, <1>5

\* A push into an empty static manager is refused only for a block that is too
\* large or a limit: nothing is left behind that takes its room.
THEOREM EmptyTakes == Spec => EmptyTakesAll
<1>1. IInv /\ [Next]_vars =>
        [\A s \in Lengths, v \in Payloads :
           PushBack(s, v) /\ Static /\ Empty /\ ret' # "OK" =>
             FullSize(s) > area \/ s > limit.size]_vars
  BY EmptyRefuses
<1> QED BY <1>1, Invariant, PTL DEF Spec, EmptyTakesAll

=============================================================================
