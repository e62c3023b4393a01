-------------------------- MODULE NodeTableProofs --------------------------
(***************************************************************************)
(* For every node, every set of peers with aligned domains, any number of  *)
(* endpoints and every order of events: the properties of NodeTable.       *)
(*                                                                         *)
(* First the arithmetic of aligned domains, then what the operations on a  *)
(* table do, then the inductive invariant in four parts (TableInv,         *)
(* FatherInv, PendingInv, CheckInv) and its theorems.                      *)
(***************************************************************************)
EXTENDS NodeTable, WellFoundedInduction, TLAPS

\* A set of numbers has a least element ...
LEMMA Least ==
  ASSUME NEW T, T \subseteq Nat, T # {}
  PROVE  \E x \in T : \A y \in T : x <= y
<1> DEFINE R == OpToRel(<, Nat)
<1>1. IsWellFoundedOn(R, Nat)
  BY NatLessThanWellFounded
<1>2. \A x, y \in Nat : x < y => <<x, y>> \in R
  BY DEF OpToRel
<1> HIDE DEF R
<1>3. PICK x \in T : \A y \in T : ~ (<<y, x>> \in R)
  BY <1>1, WFMin
<1>4. ASSUME NEW y \in T PROVE x <= y
  <2>1. x \in Nat /\ y \in Nat
    OBVIOUS
  <2>2. ~ (<<y, x>> \in R)
    BY <1>3
  <2>3. ~ (y < x)
    BY <1>2, <2>1, <2>2
  <2> QED BY <2>1, <2>3
<1> QED BY <1>4

\* ... and, if it is bounded, a greatest.
LEMMA Greatest ==
  ASSUME NEW T, T \subseteq Nat, T # {}, NEW b \in Nat, \A x \in T : x <= b
  PROVE  \E x \in T : \A y \in T : y <= x
<1> DEFINE U == {b - x : x \in T}
<1>1. U \subseteq Nat
  <2>1. \A x \in T : x \in Nat /\ b - x \in Nat
    OBVIOUS
  <2> QED BY <2>1
<1>2. U # {}
  OBVIOUS
<1> HIDE DEF U
<1>3. PICK u \in U : \A v \in U : u <= v
  BY <1>1, <1>2, Least
<1> USE DEF U
<1>4. PICK x \in T : u = b - x
  OBVIOUS
<1>5. ASSUME NEW y \in T PROVE y <= x
  <2>1. b - y \in U
    OBVIOUS
  <2>2. u <= b - y
    BY <1>3, <2>1
  <2> QED BY <2>2, <1>4
<1> QED BY <1>5
-----------------------------------------------------------------------------
\* The first id of a domain; two domains without an id in common.
Lo(d) == (d.id \div d.width) * d.width
Apart(d, f) == MaxId(d) < Lo(f) \/ MaxId(f) < Lo(d)

\* A number lies between its quotient times the divisor and the next multiple.
LEMMA DivBounds ==
  ASSUME NEW x \in Nat, NEW w \in Nat \ {0}
  PROVE  /\ x \div w \in Nat
         /\ (x \div w) * w \in Nat
         /\ (x \div w) * w <= x /\ x < (x \div w) * w + w
<1>1. x \div w \in Nat
  BY SMT
<1>2. x = w * (x \div w) + (x % w) /\ x % w \in 0 .. w - 1
  BY SMT
<1>3. w * (x \div w) = (x \div w) * w
  BY <1>1
<1> DEFINE p == (x \div w) * w
<1>4. p \in Nat
  BY <1>1
<1> HIDE DEF p
<1>5. x = p + (x % w)
  BY <1>2, <1>3 DEF p
<1>6. p <= x /\ x < p + w
  BY <1>2, <1>4, <1>5
<1> QED BY <1>1, <1>4, <1>6 DEF p

\* The quotient is the only number with these bounds.
LEMMA DivUnique ==
  ASSUME NEW x \in Nat, NEW w \in Nat \ {0}, NEW a \in Nat, a * w <= x, x < a * w + w
  PROVE  x \div w = a
OBVIOUS

\* Multiples of the same number are equal or that number apart.
LEMMA Multiples ==
  ASSUME NEW v \in Nat \ {0}, NEW a \in Nat, NEW c \in Nat, a * v < c * v + v
  PROVE  a * v <= c * v
<1>1. CASE a <= c
  BY <1>1
<1>2. CASE c < a
  <2>1. PICK k \in Nat : a = c + 1 + k
    <3>1. a - c - 1 \in Nat /\ a = c + 1 + (a - c - 1)
      BY <1>2
    <3> QED BY <3>1
  <2>2. a * v = c * v + v + k * v /\ k * v \in Nat /\ c * v \in Nat
    BY <2>1
  <2> QED BY <2>2
<1> QED BY <1>1, <1>2

\* A domain is the interval from its first to its last id.
LEMMA CoversInterval ==
  ASSUME NEW d, d.id \in Nat, d.width \in Nat \ {0}, NEW x \in Nat
  PROVE  /\ Lo(d) \in Nat /\ MaxId(d) \in Nat
         /\ Covers(d, x) <=> Lo(d) <= x /\ x <= MaxId(d)
         /\ Lo(d) <= d.id /\ d.id <= MaxId(d)
<1> DEFINE w == d.width
           a == d.id \div w
           b == x \div w
<1>1. w \in Nat \ {0} /\ d.id \in Nat
  OBVIOUS
<1>2. a \in Nat /\ a * w \in Nat /\ a * w <= d.id /\ d.id < a * w + w
  BY <1>1, DivBounds
<1>3. b * w \in Nat /\ b * w <= x /\ x < b * w + w
  BY <1>1, DivBounds
<1>4. a * w <= x /\ x < a * w + w => b = a
  BY <1>1, <1>2, DivUnique
<1>5. Lo(d) = a * w /\ MaxId(d) = a * w + w - 1 /\ (Covers(d, x) <=> b = a)
  BY DEF Lo, MaxId, Covers
<1> HIDE DEF a, b, w
<1> DEFINE l == a * w
<1>6. b = a => l <= x /\ x < l + w
  BY <1>3
<1>7. l \in Nat /\ l <= d.id /\ d.id < l + w /\ (l <= x /\ x < l + w => b = a)
  BY <1>2, <1>4
<1>8. Lo(d) = l /\ MaxId(d) = l + w - 1
  BY <1>5
<1> HIDE DEF l
<1> QED BY <1>1, <1>5, <1>6, <1>7, <1>8

\* Of two aligned domains one contains the other, or they are apart.
LEMMA Nested ==
  ASSUME NEW d, d.id \in Nat, d.width \in Nat \ {0},
         NEW f, f.id \in Nat, f.width \in Nat \ {0}, f.width % d.width = 0
  PROVE  \/ Covers(f, d.id) /\ Lo(f) <= Lo(d) /\ MaxId(d) <= MaxId(f)
         \/ ~Covers(f, d.id) /\ Apart(d, f)
<1> DEFINE v == d.width
           w == f.width
           q == w \div v
           a == d.id \div v
           b == f.id \div w
<1>1. v \in Nat \ {0} /\ w \in Nat \ {0} /\ w % v = 0 /\ d.id \in Nat
  OBVIOUS
<1>2. q \in Nat /\ w = q * v
  <2>1. q \in Nat
    BY <1>1, DivBounds
  <2>2. w = v * q + (w % v)
    BY <1>1
  <2> QED BY <1>1, <2>1, <2>2
<1>3. a \in Nat /\ b \in Nat
  BY DivBounds
<1>4. Lo(d) = a * v /\ MaxId(d) = a * v + v - 1
  BY DEF Lo, MaxId
<1>5. Lo(f) = b * w /\ MaxId(f) = b * w + w - 1
  BY DEF Lo, MaxId
<1>6. Lo(d) <= d.id /\ d.id <= MaxId(d) /\ (Covers(f, d.id) <=> Lo(f) <= d.id /\ d.id <= MaxId(f))
  BY CoversInterval
<1> HIDE DEF v, w, q, a, b
<1>7. b * w = (b * q) * v /\ b * w + w = (b * q + q) * v
  BY <1>1, <1>2, <1>3
<1> DEFINE m == b * q
           n == b * q + q
<1>8. m \in Nat /\ n \in Nat
  BY <1>2, <1>3
<1>9. Lo(f) = m * v /\ MaxId(f) = n * v - 1
  BY <1>1, <1>3, <1>5, <1>7
<1> HIDE DEF m, n
<1>10. /\ m * v < a * v + v => m * v <= a * v
       /\ a * v < m * v + v => a * v <= m * v
       /\ n * v < a * v + v => n * v <= a * v
  BY <1>1, <1>3, <1>8, Multiples
<1> DEFINE A == a * v
           M == m * v
           N == n * v
<1>11. A \in Nat /\ M \in Nat /\ N \in Nat
  BY <1>1, <1>3, <1>8
<1>12. /\ M < A + v => M <= A
       /\ N < A + v => N <= A
       /\ Lo(d) = A /\ MaxId(d) = A + v - 1 /\ Lo(f) = M /\ MaxId(f) = N - 1
  BY <1>4, <1>9, <1>10
<1> HIDE DEF A, M, N
<1> QED BY <1>1, <1>6, <1>11, <1>12 DEF Apart
-----------------------------------------------------------------------------
IsDomain(d) == d.id \in Nat /\ d.width \in Widths

\* Every width is positive.
LEMMA WidthsArePositive == \A w \in Widths : w \in Nat \ {0}
BY SelfAssumption, PeersAssumption DEF Widths

\* Two domains meet or are apart.
LEMMA MeetOrApart ==
  ASSUME NEW d, IsDomain(d), NEW f, IsDomain(f)
  PROVE  Meet(d, f) <=> ~Apart(d, f)
<1>1. /\ d.id \in Nat /\ d.width \in Nat \ {0} /\ f.id \in Nat /\ f.width \in Nat \ {0}
      /\ d.width <= f.width => f.width % d.width = 0
      /\ f.width <= d.width => d.width % f.width = 0
  BY WidthsArePositive, WidthAssumption DEF IsDomain
<1>2. /\ Lo(d) \in Nat /\ MaxId(d) \in Nat /\ Lo(d) <= d.id /\ d.id <= MaxId(d)
      /\ Covers(d, f.id) <=> Lo(d) <= f.id /\ f.id <= MaxId(d)
  BY <1>1, CoversInterval
<1>3. /\ Lo(f) \in Nat /\ MaxId(f) \in Nat /\ Lo(f) <= f.id /\ f.id <= MaxId(f)
      /\ Covers(f, d.id) <=> Lo(f) <= d.id /\ d.id <= MaxId(f)
  BY <1>1, CoversInterval
<1>4. CASE d.width <= f.width
  <2>1. \/ Covers(f, d.id) /\ Lo(f) <= Lo(d) /\ MaxId(d) <= MaxId(f)
        \/ ~Covers(f, d.id) /\ Apart(d, f)
    BY <1>1, <1>4, Nested
  <2> QED BY <1>1, <1>2, <1>3, <2>1 DEF Meet, Apart
<1>5. CASE f.width <= d.width
  <2>1. \/ Covers(d, f.id) /\ Lo(d) <= Lo(f) /\ MaxId(f) <= MaxId(d)
        \/ ~Covers(d, f.id) /\ Apart(f, d)
    BY <1>1, <1>5, Nested
  <2> QED BY <1>1, <1>2, <1>3, <2>1 DEF Meet, Apart
<1> QED BY <1>1, <1>4, <1>5
-----------------------------------------------------------------------------
\* What every table is: domains that do not meet, each under its last id.
SortedIn(coll, g) ==
  /\ DOMAIN coll \subseteq Nat
  /\ \A k \in DOMAIN coll : IsDomain(g[coll[k]]) /\ k = MaxId(g[coll[k]])
  /\ \A j, k \in DOMAIN coll : j # k => ~Meet(g[coll[j]], g[coll[k]])
Sorted(coll) == SortedIn(coll, ep)

\* The interval of a domain, for domains with one of the widths.
LEMMA DomainBounds ==
  ASSUME NEW d, IsDomain(d)
  PROVE  /\ d.id \in Nat /\ Lo(d) \in Nat /\ MaxId(d) \in Nat
         /\ Lo(d) <= d.id /\ d.id <= MaxId(d)
         /\ \A x \in Nat : Covers(d, x) <=> Lo(d) <= x /\ x <= MaxId(d)
BY WidthsArePositive, CoversInterval DEF IsDomain

\* A table is ordered: what has a lesser key lies below.
LEMMA Below ==
  ASSUME NEW coll, Sorted(coll), NEW j \in DOMAIN coll, NEW k \in DOMAIN coll, j < k
  PROVE  j < Lo(ep[coll[k]])
<1> DEFINE d == ep[coll[j]]
           f == ep[coll[k]]
<1>1. IsDomain(d) /\ IsDomain(f) /\ j = MaxId(d) /\ k = MaxId(f) /\ j \in Nat /\ k \in Nat
  BY DEF Sorted, SortedIn
<1>2. ~Meet(d, f)
  BY <1>1 DEF Sorted, SortedIn
<1> HIDE DEF d, f
<1>3. Apart(d, f)
  BY <1>1, <1>2, MeetOrApart
<1>4. Lo(d) <= j /\ Lo(d) \in Nat /\ Lo(f) \in Nat
  <2>1. Lo(d) <= d.id /\ d.id <= MaxId(d) /\ d.id \in Nat /\ Lo(d) \in Nat /\ Lo(f) \in Nat
    BY <1>1, DomainBounds
  <2> QED BY <1>1, <2>1
<1>5. j < Lo(f)
  BY <1>1, <1>3, <1>4 DEF Apart
<1> QED BY <1>5 DEF f

\* find_child finds the endpoint that owns an id.
LEMMA FindChildFindsOwner ==
  ASSUME NEW coll, Sorted(coll), NEW id \in Nat
  PROVE  FindChild(coll, id) = {e \in Elements(coll) : Covers(ep[e], id)}
<1>1. ASSUME NEW e \in FindChild(coll, id)
      PROVE  e \in Elements(coll) /\ Covers(ep[e], id)
  BY <1>1 DEF FindChild, LowerBound, Elements, Covers
<1>2. ASSUME NEW e \in Elements(coll), Covers(ep[e], id)
      PROVE  e \in FindChild(coll, id)
  <2>1. PICK k \in DOMAIN coll : e = coll[k]
    BY <1>2 DEF Elements
  <2>2. IsDomain(ep[e]) /\ k = MaxId(ep[e]) /\ DOMAIN coll \subseteq Nat
    BY <2>1 DEF Sorted, SortedIn
  <2>3. Lo(ep[e]) <= id /\ id <= k /\ Lo(ep[e]) \in Nat
    BY <1>2, <2>2, DomainBounds
  <2>4. ASSUME NEW j \in DOMAIN coll, j >= id PROVE k <= j
    <3>1. j \in Nat /\ k \in Nat
      BY <2>2
    <3>2. ~(j < k)
      BY <2>1, <2>3, <2>4, <3>1, Below
    <3> QED BY <3>1, <3>2
  <2>5. k \in LowerBound(coll, id)
    BY <2>2, <2>3, <2>4 DEF LowerBound
  <2> QED BY <1>2, <2>1, <2>5 DEF FindChild
<1> QED BY <1>1, <1>2

\* A new domain above one in the table that it does not contain is apart from
\* everything up to that one.
LEMMA AboveAll ==
  ASSUME NEW coll, Sorted(coll), NEW d, IsDomain(d),
         NEW m \in DOMAIN coll, m < d.id, ~Covers(d, ep[coll[m]].id),
         NEW k \in DOMAIN coll, k <= m
  PROVE  ~Meet(d, ep[coll[k]])
<1> DEFINE f == ep[coll[m]]
           h == ep[coll[k]]
<1>1. IsDomain(f) /\ m = MaxId(f) /\ IsDomain(h) /\ k = MaxId(h) /\ m \in Nat /\ k \in Nat
  BY DEF Sorted, SortedIn
<1>2. ~Covers(d, f.id)
  OBVIOUS
<1> HIDE DEF f, h
<1>3. /\ d.id \in Nat /\ Lo(d) \in Nat /\ MaxId(d) \in Nat /\ Lo(d) <= d.id /\ d.id <= MaxId(d)
      /\ Lo(f) \in Nat /\ Lo(f) <= m /\ Lo(h) \in Nat
      /\ ~Covers(f, d.id)
  <2>1. f.id \in Nat /\ Lo(f) <= f.id /\ f.id <= MaxId(f) /\ Lo(f) \in Nat /\ Lo(h) \in Nat
    BY <1>1, DomainBounds
  <2>2. d.id \in Nat /\ Lo(d) \in Nat /\ MaxId(d) \in Nat /\ Lo(d) <= d.id /\ d.id <= MaxId(d)
    BY DomainBounds
  <2>3. Covers(f, d.id) => d.id <= m
    BY <1>1, <2>2, DomainBounds
  <2>4. ~Covers(f, d.id)
    BY <1>1, <2>2, <2>3
  <2> QED BY <1>1, <2>1, <2>2, <2>4
<1>4. Apart(d, f)
  BY <1>1, <1>2, <1>3, MeetOrApart DEF Meet
<1>5. m < Lo(d)
  BY <1>1, <1>3, <1>4 DEF Apart
<1>6. Apart(d, h)
  BY <1>1, <1>3, <1>5 DEF Apart
<1> QED BY <1>1, <1>6, MeetOrApart DEF h

\* What insert_child accepts meets nothing in the table, though it looks at two
\* entries only.
LEMMA AcceptedIsApart ==
  ASSUME NEW coll, Sorted(coll), NEW d, IsDomain(d), CanInsert(coll, d),
         NEW k \in DOMAIN coll
  PROVE  ~Meet(d, ep[coll[k]])
<1>1. DOMAIN coll \subseteq Nat /\ d.id \in Nat /\ k \in Nat
  BY DEF Sorted, SortedIn, IsDomain
<1>2. CASE LowerBound(coll, d.id) = {}
  <2>1. ASSUME NEW j \in DOMAIN coll PROVE j < d.id
    <3> DEFINE T == {i \in DOMAIN coll : i >= d.id}
    <3>1. CASE T # {}
      <4>1. T \subseteq Nat
        BY <1>1
      <4>2. PICK x \in T : \A y \in T : x <= y
        <5> HIDE DEF T
        <5> QED BY <3>1, <4>1, Least
      <4>3. x \in LowerBound(coll, d.id)
        BY <4>2 DEF LowerBound
      <4> QED BY <1>2, <4>3
    <3>2. CASE T = {}
      <4>1. ~(j >= d.id) /\ j \in Nat
        BY <1>1, <3>2
      <4> QED BY <1>1, <4>1
    <3> QED BY <3>1, <3>2
  <2>2. PICK m \in DOMAIN coll : \A j \in DOMAIN coll : j <= m
    <3>1. \A j \in DOMAIN coll : j <= d.id
      BY <1>1, <2>1
    <3> QED BY <1>1, <3>1, Greatest
  <2>3. ~Covers(d, ep[coll[m]].id)
    BY <1>2, <2>2 DEF CanInsert
  <2> QED BY <2>1, <2>2, <2>3, AboveAll
<1>3. CASE LowerBound(coll, d.id) # {}
  <2>1. PICK n \in LowerBound(coll, d.id) : TRUE
    BY <1>3
  <2> DEFINE f == ep[coll[n]]
             h == ep[coll[k]]
  <2>2. n \in DOMAIN coll /\ n >= d.id /\ n \in Nat /\ \A j \in DOMAIN coll : j >= d.id => n <= j
    BY <1>1, <2>1 DEF LowerBound
  <2>3. ~Covers(f, d.id) /\ ~Covers(d, f.id) /\ \A j \in Before(coll, n) : ~Covers(d, ep[coll[j]].id)
    BY <1>3, <2>1 DEF CanInsert
  <2>4. IsDomain(f) /\ n = MaxId(f) /\ IsDomain(h) /\ k = MaxId(h)
    BY <2>2 DEF Sorted, SortedIn
  <2>5. MaxId(d) < Lo(f) /\ Lo(f) <= n /\ Lo(f) \in Nat /\ MaxId(d) \in Nat /\ Lo(h) \in Nat
    <3> HIDE DEF f, h
    <3>1. Apart(d, f)
      BY <2>3, <2>4, MeetOrApart DEF Meet
    <3>2. /\ Lo(d) <= d.id /\ Lo(d) \in Nat /\ MaxId(d) \in Nat /\ Lo(h) \in Nat
          /\ Lo(f) \in Nat /\ f.id \in Nat /\ Lo(f) <= f.id /\ f.id <= MaxId(f)
      BY <2>4, DomainBounds
    <3> QED BY <1>1, <2>2, <2>4, <3>1, <3>2 DEF Apart
  <2>6. CASE k = n
    BY <2>3, <2>6 DEF Meet
  <2>7. CASE n < k
    <3>1. n < Lo(h)
      BY <2>2, <2>7, Below
    <3> HIDE DEF f, h
    <3>2. Apart(d, h)
      BY <2>2, <2>5, <3>1 DEF Apart
    <3> QED BY <2>4, <3>2, MeetOrApart DEF h
  <2>8. CASE k < n
    <3> DEFINE T == {j \in DOMAIN coll : j < n}
    <3>1. PICK m \in T : \A j \in T : j <= m
      <4>1. T \subseteq Nat /\ T # {}
        BY <1>1, <2>8
      <4>2. \A j \in T : j <= n
        BY <1>1, <2>2
      <4> HIDE DEF T
      <4> QED BY <2>2, <4>1, <4>2, Greatest
    <3>2. m \in Before(coll, n)
      BY <3>1 DEF Before
    <3>3. m \in DOMAIN coll /\ m < n /\ m \in Nat /\ k <= m
      BY <1>1, <2>8, <3>1
    <3>4. m < d.id
      <4>1. ~(m >= d.id)
        BY <2>2, <3>3
      <4> QED BY <1>1, <3>3, <4>1
    <3> QED BY <2>3, <3>2, <3>3, <3>4, AboveAll
  <2> QED BY <1>1, <2>2, <2>6, <2>7, <2>8
<1> QED BY <1>2, <1>3
-----------------------------------------------------------------------------
(***************************************************************************)
(* The inductive invariant.                                                *)
(***************************************************************************)
\* Children lie in the node's domain, brothers neither in it nor around it.
Placed ==
  /\ \A e \in Elements(children) : IsChild(ep[e].id) /\ ep[e].width < SelfWidth
  /\ \A e \in Elements(brothers) : ~IsChild(ep[e].id) /\ ~FatherLike(ep[e])

TableInv == TypeOK /\ Sorted(children) /\ Sorted(brothers) /\ Placed

\* What the node's domain contains and what it does not contain do not meet.
LEMMA ChildAndBrother ==
  ASSUME NEW c, IsDomain(c), IsChild(c.id), c.width < SelfWidth,
         NEW b, IsDomain(b), ~IsChild(b.id), ~FatherLike(b)
  PROVE  ~Meet(c, b)
<1> DEFINE s == [id |-> Self, width |-> SelfWidth]
<1>1. IsDomain(s) /\ s.id = Self /\ s.width = SelfWidth
  BY SelfAssumption DEF IsDomain, Widths
<1>2. Covers(s, c.id) /\ ~Covers(s, b.id)
  BY DEF Covers, IsChild
<1>3. b.width > SelfWidth => ~Covers(b, Self)
  BY DEF FatherLike
<1>4. b.width \in Nat /\ c.width \in Nat /\ SelfWidth \in Nat \ {0} /\ b.width # 0 /\ c.width # 0
  BY WidthsArePositive, SelfAssumption DEF IsDomain
<1> HIDE DEF s
<1>5. ~Meet(s, b)
  <2>1. CASE b.width > SelfWidth
    BY <1>1, <1>2, <1>3, <2>1 DEF Meet
  <2>2. CASE b.width <= SelfWidth
    <3>1. SelfWidth % b.width = 0
      BY <2>2, WidthAssumption DEF IsDomain, Widths
    <3>2. Apart(b, s)
      BY <1>1, <1>2, <1>4, <3>1, Nested DEF IsDomain
    <3>3. ~Meet(b, s)
      BY <1>1, <3>2, MeetOrApart
    <3> QED BY <3>3 DEF Meet
  <2> QED BY <1>4, <2>1, <2>2
<1>6. Lo(s) <= Lo(c) /\ MaxId(c) <= MaxId(s)
  <2>1. SelfWidth % c.width = 0
    BY <1>4, WidthAssumption DEF IsDomain, Widths
  <2> QED BY <1>1, <1>2, <1>4, <2>1, Nested DEF IsDomain
<1>7. Apart(s, b)
  BY <1>1, <1>5, MeetOrApart
<1>8. /\ Lo(s) \in Nat /\ MaxId(s) \in Nat /\ Lo(c) \in Nat /\ MaxId(c) \in Nat
      /\ Lo(b) \in Nat /\ MaxId(b) \in Nat
  BY <1>1, DomainBounds
<1>9. Apart(c, b)
  BY <1>6, <1>7, <1>8 DEF Apart
<1> QED BY <1>9, MeetOrApart

\* The invariant contains what the theorems say.
LEMMA InvDisjoint == TableInv => DomainsDisjoint
<1> SUFFICES ASSUME TableInv,
                    NEW e \in Elements(children) \cup Elements(brothers),
                    NEW f \in Elements(children) \cup Elements(brothers), e # f
             PROVE  ~Meet(ep[e], ep[f])
  BY DEF DomainsDisjoint
<1>1. ASSUME NEW coll, Sorted(coll), e \in Elements(coll), f \in Elements(coll)
      PROVE  ~Meet(ep[e], ep[f])
  BY <1>1 DEF Elements, Sorted, SortedIn
<1>2. ASSUME NEW coll, Sorted(coll), NEW x \in Elements(coll) PROVE IsDomain(ep[x])
  BY <1>2 DEF Elements, Sorted, SortedIn
<1>3. ASSUME NEW c \in Elements(children), NEW b \in Elements(brothers)
      PROVE  ~Meet(ep[c], ep[b])
  BY <1>2, ChildAndBrother DEF TableInv, Placed
<1>4. CASE e \in Elements(children) /\ f \in Elements(brothers)
  BY <1>3, <1>4
<1>5. CASE e \in Elements(brothers) /\ f \in Elements(children)
  BY <1>3, <1>5 DEF Meet
<1>6. CASE e \in Elements(children) /\ f \in Elements(children)
  BY <1>1, <1>6 DEF TableInv
<1>7. CASE e \in Elements(brothers) /\ f \in Elements(brothers)
  BY <1>1, <1>7 DEF TableInv
<1> QED BY <1>4, <1>5, <1>6, <1>7

\* Sorted tables are what the lookup needs.
LEMMA InvFindsOwner == TableInv => FindsOwner
<1> SUFFICES ASSUME TableInv, NEW coll \in {children, brothers}, NEW id \in 0 .. SelfWidth + Self
             PROVE  FindChild(coll, id) = {e \in Elements(coll) : Covers(ep[e], id)}
  BY DEF FindsOwner
<1>1. id \in Nat
  BY SelfAssumption
<1>2. Sorted(coll)
  BY DEF TableInv
<1> QED BY <1>1, <1>2, FindChildFindsOwner
-----------------------------------------------------------------------------
\* An endpoint with the same domain and process; a part of a table.
SameDomain(d, f) == d.id = f.id /\ d.width = f.width /\ d.pid = f.pid
Less(c, coll) == DOMAIN c \subseteq DOMAIN coll /\ \A k \in DOMAIN c : c[k] = coll[k]

\* A part of a sorted table is sorted.
LEMMA LessIsSorted ==
  ASSUME NEW coll, Sorted(coll), NEW c, Less(c, coll), NEW g,
         \A e \in Elements(c) : SameDomain(g[e], ep[e])
  PROVE  SortedIn(c, g)
<1>1. \A k \in DOMAIN c : c[k] \in Elements(c) /\ c[k] = coll[k] /\ k \in DOMAIN coll
  BY DEF Less, Elements
<1>2. \A k \in DOMAIN c : g[c[k]].id = ep[coll[k]].id /\ g[c[k]].width = ep[coll[k]].width
  BY <1>1 DEF SameDomain
<1>3. DOMAIN c \subseteq Nat
  BY DEF Less, Sorted, SortedIn
<1>4. ASSUME NEW k \in DOMAIN c PROVE IsDomain(g[c[k]]) /\ k = MaxId(g[c[k]])
  BY <1>1, <1>2 DEF Sorted, SortedIn, IsDomain, MaxId
<1>5. ASSUME NEW j \in DOMAIN c, NEW k \in DOMAIN c, j # k PROVE ~Meet(g[c[j]], g[c[k]])
  <2>1. ~Meet(ep[coll[j]], ep[coll[k]])
    BY <1>1, <1>5 DEF Sorted, SortedIn
  <2> QED BY <1>2, <2>1 DEF Meet, Covers
<1> QED BY <1>3, <1>4, <1>5 DEF SortedIn

\* insert_child keeps the table sorted.
LEMMA InsertIsSorted ==
  ASSUME NEW coll, Sorted(coll), NEW d, IsDomain(d), CanInsert(coll, d), NEW e,
         NEW g, g[e].id = d.id, g[e].width = d.width,
         \A x \in Elements(coll) : SameDomain(g[x], ep[x])
  PROVE  SortedIn(Insert(coll, d, e), g)
<1> DEFINE m == MaxId(d)
           c == Insert(coll, d, e)
<1>1. m \in Nat
  BY DomainBounds
<1>2. DOMAIN c = DOMAIN coll \cup {m} /\ \A k \in DOMAIN c : c[k] = IF k = m THEN e ELSE coll[k]
  BY DEF Insert
<1>3. \A k \in DOMAIN coll : coll[k] \in Elements(coll)
  BY DEF Elements
<1>4. MaxId(g[e]) = m /\ IsDomain(g[e])
  BY DEF MaxId, IsDomain
<1>5. SortedIn(coll, g)
  BY <1>3, LessIsSorted DEF Less
<1>6. \A k \in DOMAIN coll : ~Meet(g[e], g[coll[k]]) /\ ~Meet(g[coll[k]], g[e])
  <2>1. \A k \in DOMAIN coll : ~Meet(d, ep[coll[k]])
    BY AcceptedIsApart
  <2> QED BY <1>3, <2>1 DEF Meet, Covers, SameDomain
<1> HIDE DEF m, c
<1>7. DOMAIN c \subseteq Nat
  BY <1>1, <1>2, <1>5 DEF SortedIn
<1>8. ASSUME NEW k \in DOMAIN c PROVE IsDomain(g[c[k]]) /\ k = MaxId(g[c[k]])
  BY <1>2, <1>4, <1>5 DEF SortedIn
<1>9. ASSUME NEW j \in DOMAIN c, NEW k \in DOMAIN c, j # k PROVE ~Meet(g[c[j]], g[c[k]])
  BY <1>2, <1>5, <1>6, <1>9 DEF SortedIn
<1> QED BY <1>7, <1>8, <1>9 DEF SortedIn, c
-----------------------------------------------------------------------------
(***************************************************************************)
(* Steps that register nobody.                                             *)
(***************************************************************************)
Endpoints == [Slots -> EpType]
SameDomains(f) == f \in Endpoints /\ \A e \in Slots : SameDomain(f[e], ep[e])
OtherTypes ==
  /\ checking \in BOOLEAN /\ event \in BOOLEAN /\ hz \subseteq Windows
  /\ ret \in {"OK", "NOT_FOUND", "INVALID_ID", "MASK_CONFLICT", "ID_CONFLICT"}
Kept == ep' \in Endpoints /\ \A e \in Slots : e \in Alive' => SameDomain(ep'[e], ep[e])
NobodyNew ==
  /\ father' \in {father, None} /\ Less(children', children) /\ Less(brothers', brothers)
  /\ pending' \subseteq Alive /\ checked' \subseteq Alive
Harmless == Kept /\ NobodyNew /\ OtherTypes' /\ hz \subseteq hz'

\* All endpoints referred to have a slot.
LEMMA AliveInSlots == TypeOK => Alive \subseteq Slots
BY DEF TypeOK, Alive, Registered

\* A destroyed endpoint has the type of an endpoint.
LEMMA BlankType == Blank \in EpType
BY DEF Blank, NoData, EpType

\* endpoint::reset leaves the domains alone.
LEMMA ResetIsSame ==
  ASSUME TypeOK, NEW e \in Slots
  PROVE  SameDomains(ResetOf(e))
BY ZenonT(40) DEF TypeOK, SameDomains, SameDomain, Endpoints, ResetOf, EpType, NoData

\* So does a step that leaves the endpoints as they are ...
LEMMA EpIsSame == TypeOK => SameDomains(ep)
BY DEF TypeOK, SameDomains, SameDomain, Endpoints

\* ... and the destruction of what nothing refers to leaves those of the rest
\* alone.
LEMMA BecomeKeeps ==
  ASSUME NEW f, SameDomains(f), Become(f)
  PROVE  Kept
BY BlankType DEF Become, Kept, SameDomains, Endpoints

\* A step that registers nobody keeps the invariant of the tables.
LEMMA HarmlessKeeps ==
  ASSUME TableInv, Harmless
  PROVE  TableInv'
<1> USE DEF Harmless
<1>1. /\ Elements(children)' \subseteq Elements(children)
      /\ Elements(brothers)' \subseteq Elements(brothers)
  BY DEF NobodyNew, Less, Elements
<1>2. Alive' \subseteq Alive /\ Alive \subseteq Slots
  BY <1>1, AliveInSlots DEF TableInv, NobodyNew, Alive, Registered
<1>3. \A e \in Elements(children)' \cup Elements(brothers)' : e \in Alive' \/ e = None
  BY DEF Alive, Registered
<1>4. None \notin Elements(children) \cup Elements(brothers)
  BY SelfAssumption DEF TableInv, TypeOK
<1>5. \A e \in Alive' : e \in Slots /\ e \in Alive /\ SameDomain(ep'[e], ep[e])
  BY <1>2 DEF Kept
<1>6. \A e \in Elements(children)' \cup Elements(brothers)' : e \in Slots /\ SameDomain(ep'[e], ep[e])
  BY <1>1, <1>3, <1>4, <1>5
<1>7. Sorted(children)' /\ Sorted(brothers)'
  <2>1. SortedIn(children', ep')
    <3>1. \A e \in Elements(children') : SameDomain(ep'[e], ep[e])
      BY <1>6 DEF Elements
    <3> QED BY <3>1, LessIsSorted DEF TableInv, NobodyNew
  <2>2. SortedIn(brothers', ep')
    <3>1. \A e \in Elements(brothers') : SameDomain(ep'[e], ep[e])
      BY <1>6 DEF Elements
    <3> QED BY <3>1, LessIsSorted DEF TableInv, NobodyNew
  <2> QED BY <2>1, <2>2 DEF Sorted
<1>8. Placed'
  BY <1>1, <1>6 DEF TableInv, Placed, SameDomain, IsChild, FatherLike, Covers
<1>9. TypeOK'
  <2>1. ep' \in [Slots -> EpType] /\ father' \in Slots \cup {None}
    BY DEF Kept, Endpoints, NobodyNew, TableInv, TypeOK
  <2>2. \A coll \in {children', brothers'} :
          Elements(coll) \subseteq Slots /\ \A k \in DOMAIN coll : k = MaxId(ep'[coll[k]])
    BY <1>6, <1>7 DEF Sorted, SortedIn, Elements
  <2>3. pending' \subseteq Slots /\ checked' \subseteq Slots
    BY <1>2 DEF NobodyNew
  <2>4. \A e \in Alive' : ep'[e].pid # None
    BY <1>5 DEF TableInv, TypeOK, SameDomain
  <2> QED BY <2>1, <2>2, <2>3, <2>4 DEF TypeOK, OtherTypes, Elements, MaxId
<1> QED BY <1>7, <1>8, <1>9 DEF TableInv

\* remove_child only takes out.
LEMMA WithoutIsLess == \A coll, id : Less(Without(coll, id), coll) /\ Less(coll, coll)
BY DEF Less, Without
\* What a handler changes of connections does not matter to the tables.
LEMMA OtherDataIsSame ==
  ASSUME TypeOK, NEW e \in Slots, NEW c \in {"none", "up", "dead"}, NEW d \in [Kinds -> Nat]
  PROVE  /\ SameDomains([ep EXCEPT ![e].ctrl = c])
         /\ SameDomains([ep EXCEPT ![e].data = d])
BY DEF TypeOK, SameDomains, SameDomain, Endpoints, EpType

\* A step that destroys nothing.
LEMMA SameKeeps ==
  ASSUME NEW f, SameDomains(f), ep' = f
  PROVE  Kept
BY DEF Kept, SameDomains

\* get_endpoint returns endpoints that are there.
LEMMA GetEndpointAlive ==
  ASSUME TypeOK, NEW id, NEW e \in GetEndpoint(id)
  PROVE  e \in Alive /\ e \in Slots
BY SelfAssumption
   DEF TypeOK, GetEndpoint, Named, FindChild, LowerBound, IsParent, Alive, Registered, Elements

\* on_recv_node_reg_req for a known peer.
LEMMA JoinKeeps ==
  ASSUME TableInv, UNCHANGED <<checking, event>>, NEW p \in Peers, NEW e \in GetEndpoint(p.id), Join(p, e)
  PROVE  Harmless
<1>1. e \in Slots /\ TypeOK
  BY GetEndpointAlive DEF TableInv
<1>2. Kept
  <2>1. CASE UNCHANGED ep
    BY <1>1, <2>1, EpIsSame, SameKeeps
  <2>2. CASE ep' = [ep EXCEPT ![e].ctrl = "up"]
    BY <1>1, <2>2, BlankType, OtherDataIsSame, SameKeeps DEF EpType, Blank
  <2>3. CASE ep' = [ep EXCEPT ![e].data["running"] = @ + 1]
    <3> DEFINE d == [ep[e].data EXCEPT !["running"] = @ + 1]
    <3>1. d \in [Kinds -> Nat]
      BY <1>1 DEF TypeOK, EpType, Kinds
    <3>2. ep' = [ep EXCEPT ![e].data = d]
      BY <2>3
    <3> HIDE DEF d
    <3>3. SameDomains([ep EXCEPT ![e].data = d])
      BY <1>1, <3>1, OtherDataIsSame
    <3> QED BY <3>2, <3>3, SameKeeps
  <2> QED BY <2>1, <2>2, <2>3 DEF Join
<1>3. NobodyNew
  BY WithoutIsLess DEF Join, tables, NobodyNew, Alive
<1>4. OtherTypes' /\ hz \subseteq hz'
  BY <1>1 DEF Join, OtherTypes, TypeOK
<1> QED BY <1>2, <1>3, <1>4 DEF Harmless

\* on_recv_node_reg_req with an error.
LEMMA RefuseKeeps ==
  ASSUME TableInv, UNCHANGED <<checking, event>>,
         NEW code \in {"MASK_CONFLICT", "INVALID_ID"}, Refuse(code)
  PROVE  Harmless
<1>1. TypeOK
  BY DEF TableInv
<1>2. Kept
  BY <1>1, EpIsSame, SameKeeps DEF Refuse
<1>3. NobodyNew
  BY WithoutIsLess DEF Refuse, tables, NobodyNew, Alive
<1>4. OtherTypes' /\ hz \subseteq hz'
  BY <1>1 DEF Refuse, OtherTypes, TypeOK
<1> QED BY <1>2, <1>3, <1>4 DEF Harmless

\* on_recv_node_reg_rsp with an error.
LEMMA RegRspErrorKeeps ==
  ASSUME TableInv, NEW e \in Alive, RegRspError(e)
  PROVE  Harmless
<1>1. e \in Slots /\ TypeOK
  BY AliveInSlots DEF TableInv
<1>2. Kept
  <2>1. CASE ep' = [ep EXCEPT ![e].ctrl = "dead"]
    BY <1>1, <2>1, BlankType, OtherDataIsSame, SameKeeps DEF EpType, Blank
  <2>2. CASE /\ ep[e].data["running"] > 0
             /\ ep' = [ep EXCEPT ![e].data["running"] = @ - 1, ![e].data["dead"] = @ + 1]
    <3> DEFINE d == [[ep[e].data EXCEPT !["running"] = @ - 1] EXCEPT !["dead"] = @ + 1]
    <3>1. d \in [Kinds -> Nat]
      BY <1>1, <2>2 DEF TypeOK, EpType, Kinds
    <3>2. ep' = [ep EXCEPT ![e].data = d]
      BY <1>1, <2>2 DEF TypeOK, EpType, Kinds
    <3> HIDE DEF d
    <3>3. SameDomains([ep EXCEPT ![e].data = d])
      BY <1>1, <3>1, OtherDataIsSame
    <3> QED BY <3>2, <3>3, SameKeeps
  <2> QED BY <2>1, <2>2 DEF RegRspError
<1>3. NobodyNew
  BY WithoutIsLess DEF RegRspError, Quiet, tables, NobodyNew, Alive
<1>4. OtherTypes' /\ hz \subseteq hz'
  BY <1>1 DEF RegRspError, Quiet, OtherTypes, TypeOK
<1> QED BY <1>2, <1>3, <1>4 DEF Harmless

\* endpoint::reset with the destruction that may follow.
LEMMA ResetKeeps ==
  ASSUME TypeOK, NEW e \in Slots, Become(ResetOf(e))
  PROVE  Kept
BY ResetIsSame, BecomeKeeps

\* The loss of a control connection.
LEMMA CtrlLostKeeps ==
  ASSUME TableInv, NEW e \in Alive, CtrlLost(e)
  PROVE  Harmless
<1>1. e \in Slots /\ TypeOK
  BY AliveInSlots DEF TableInv
<1>2. Kept
  BY <1>1, ResetKeeps DEF CtrlLost, Reset
<1>3. NobodyNew
  BY WithoutIsLess DEF CtrlLost, Reset, Quiet, tables, NobodyNew, Alive
<1>4. OtherTypes' /\ hz \subseteq hz'
  BY <1>1 DEF CtrlLost, Quiet, OtherTypes, TypeOK
<1> QED BY <1>2, <1>3, <1>4 DEF Harmless

\* The loss of a data connection.
LEMMA DataLostKeeps ==
  ASSUME TableInv, NEW e \in Alive, NEW kind \in {"trying", "running"}, DataLost(e, kind)
  PROVE  Harmless
<1>1. e \in Slots /\ TypeOK
  BY AliveInSlots DEF TableInv
<1> DEFINE left == [ep[e].data EXCEPT ![kind] = @ - 1]
<1>2. left \in [Kinds -> Nat]
  BY <1>1 DEF DataLost, TypeOK, EpType, Kinds
<1>3. \/ Reset(e)
      \/ ep' = [ep EXCEPT ![e].data = left] /\ UNCHANGED pending
  BY DEF DataLost
<1>4. Quiet /\ ret' = "OK"
  BY DEF DataLost
<1> HIDE DEF left
<1>5. Kept
  BY <1>1, <1>2, <1>3, ResetKeeps, OtherDataIsSame, SameKeeps DEF Reset
<1>6. NobodyNew
  BY <1>3, <1>4, WithoutIsLess DEF Reset, Quiet, tables, NobodyNew, Alive
<1>7. OtherTypes' /\ hz \subseteq hz'
  BY <1>1, <1>4 DEF Quiet, OtherTypes, TypeOK
<1> QED BY <1>5, <1>6, <1>7 DEF Harmless

\* A data connection that has been made.
LEMMA DataUpKeeps ==
  ASSUME TableInv, NEW e \in Alive, DataUp(e)
  PROVE  Harmless
<1>1. e \in Slots /\ TypeOK
  BY AliveInSlots DEF TableInv
<1> DEFINE d == [[ep[e].data EXCEPT !["trying"] = @ - 1] EXCEPT !["running"] = @ + 1]
<1>2. d \in [Kinds -> Nat]
  BY <1>1 DEF DataUp, TypeOK, EpType, Kinds
<1>3. ep' = [ep EXCEPT ![e].data = d]
  BY <1>1, SMTT(30) DEF DataUp, TypeOK, EpType, Kinds
<1> HIDE DEF d
<1>4. Kept
  BY <1>1, <1>2, <1>3, OtherDataIsSame, SameKeeps
<1>5. NobodyNew
  BY WithoutIsLess DEF DataUp, Quiet, tables, NobodyNew, Alive
<1>6. OtherTypes' /\ hz \subseteq hz'
  BY <1>1 DEF DataUp, Quiet, OtherTypes, TypeOK
<1> QED BY <1>4, <1>5, <1>6 DEF Harmless

\* remove_endpoint only takes out.
LEMMA RemoveIsLess ==
  ASSUME NEW id, RemoveEndpoint(id)
  PROVE  father' \in {father, None} /\ Less(children', children) /\ Less(brothers', brothers)
BY WithoutIsLess DEF RemoveEndpoint, Removed, tables

\* add_endpoint_fault beyond its limit.
LEMMA FaultKeeps ==
  ASSUME TableInv, NEW e \in Alive, Fault(e)
  PROVE  Harmless
<1>1. TypeOK
  BY DEF TableInv
<1>2. Kept
  BY <1>1, EpIsSame, BecomeKeeps DEF Fault
<1>3. NobodyNew
  <2>1. RemoveEndpoint(ep[e].id) /\ UNCHANGED <<pending, checked>>
    BY DEF Fault
  <2> QED BY <2>1, RemoveIsLess DEF NobodyNew, Alive
<1>4. ret' \in {"OK", "NOT_FOUND", "INVALID_ID"}
  BY DEF Fault, RemoveEndpoint
<1>5. OtherTypes' /\ hz \subseteq hz'
  BY <1>1, <1>4 DEF Fault, OtherTypes, TypeOK
<1> QED BY <1>2, <1>3, <1>5 DEF Harmless

\* node::disconnect, called by the user or from a callback.
LEMMA DisconnectKeeps ==
  ASSUME TableInv, NEW id, Disconnect(id)
  PROVE  Kept /\ NobodyNew /\ checked' = checked /\ ret' \in {"OK", "NOT_FOUND"}
<1>1. TypeOK
  BY DEF TableInv
<1>2. CASE /\ IsParent(id)
           /\ father' = None /\ UNCHANGED <<children, brothers>>
           /\ Reset(father) /\ ret' = "OK"
  <2>1. father \in Slots /\ father \in Alive
    BY <1>1, <1>2 DEF TypeOK, IsParent, Alive, Registered
  <2>2. Kept
    BY <1>1, <1>2, <2>1, ResetKeeps DEF Reset
  <2>3. NobodyNew
    BY <1>2, <2>1, WithoutIsLess DEF Reset, NobodyNew, Alive
  <2> QED BY <1>2, <2>2, <2>3 DEF Reset
<1>3. ASSUME NEW e \in Named(brothers, id) \cup Named(children, id),
             brothers' = Without(brothers, id), UNCHANGED <<father, children>>, Reset(e)
      PROVE  Kept /\ NobodyNew /\ checked' = checked
  <2>1. e \in Slots /\ e \in Alive
    BY <1>1, SelfAssumption DEF TypeOK, Named, FindChild, LowerBound, Elements, Alive, Registered
  <2>2. Kept
    BY <1>1, <1>3, <2>1, ResetKeeps DEF Reset
  <2>3. NobodyNew
    BY <1>3, <2>1, WithoutIsLess DEF Reset, NobodyNew, Alive
  <2> QED BY <1>3, <2>2, <2>3 DEF Reset
<1>4. CASE UNCHANGED <<ep, tables, pending, checked>> /\ ret' = "NOT_FOUND"
  <2>1. Kept
    BY <1>1, <1>4, EpIsSame, SameKeeps
  <2>2. NobodyNew
    BY <1>4, WithoutIsLess DEF tables, NobodyNew, Alive
  <2> QED BY <1>4, <2>1, <2>2
<1> QED BY <1>2, <1>3, <1>4 DEF Disconnect

\* A call of node::disconnect outside the check.
LEMMA UserDisconnectKeeps ==
  ASSUME TableInv, NEW id, UserDisconnect(id)
  PROVE  Harmless
<1>1. Kept /\ NobodyNew /\ ret' \in {"OK", "NOT_FOUND"}
  BY DisconnectKeeps DEF UserDisconnect
<1>2. OtherTypes' /\ hz \subseteq hz'
  BY <1>1 DEF UserDisconnect, OtherTypes, TableInv, TypeOK
<1> QED BY <1>1, <1>2 DEF Harmless

\* A call of node::disconnect from on_endpoint_removed.
LEMMA CallbackKeeps ==
  ASSUME TableInv, NEW id, Callback(id)
  PROVE  Harmless
<1>1. Kept /\ NobodyNew /\ ret' \in {"OK", "NOT_FOUND"}
  BY DisconnectKeeps DEF Callback
<1>2. OtherTypes' /\ hz \subseteq hz'
  BY <1>1 DEF Callback, OtherTypes, TableInv, TypeOK, Windows
<1> QED BY <1>1, <1>2 DEF Harmless

\* The check takes the list over.
LEMMA CheckBeginKeeps ==
  ASSUME TableInv, CheckBegin
  PROVE  Harmless
<1>1. TypeOK
  BY DEF TableInv
<1>2. Kept
  BY <1>1, EpIsSame, SameKeeps DEF CheckBegin
<1>3. NobodyNew
  BY WithoutIsLess DEF CheckBegin, tables, NobodyNew, Alive
<1>4. OtherTypes' /\ hz \subseteq hz'
  BY <1>1 DEF CheckBegin, OtherTypes, TypeOK
<1> QED BY <1>2, <1>3, <1>4 DEF Harmless

\* The check of one endpoint.
LEMMA CheckOneKeeps ==
  ASSUME TableInv, NEW e \in checked, CheckOne(e)
  PROVE  Harmless
<1>1. TypeOK /\ e \in Slots /\ e \in Alive
  BY DEF TableInv, TypeOK, Alive
<1>2. /\ checked' = checked \ {e} /\ UNCHANGED <<checking, hz>>
      /\ \/ event' = FALSE /\ ret' = "OK" /\ UNCHANGED <<tables, pending>> /\ Become(ep)
         \/ /\ pending' = pending \cup {e} /\ RemoveEndpoint(ep[e].id)
            /\ event' = (tables' # tables) /\ Become(ResetOf(e))
  BY DEF CheckOne
<1>3. Kept
  BY <1>1, <1>2, EpIsSame, BecomeKeeps, ResetKeeps
<1>4. NobodyNew
  <2>1. CASE UNCHANGED <<tables, pending>>
    BY <1>2, <2>1, WithoutIsLess DEF tables, NobodyNew, Alive
  <2>2. CASE pending' = pending \cup {e} /\ RemoveEndpoint(ep[e].id)
    BY <1>1, <1>2, <2>2, RemoveIsLess DEF NobodyNew, Alive
  <2> QED BY <1>2, <2>1, <2>2
<1>5. ret' \in {"OK", "NOT_FOUND", "INVALID_ID"} /\ event' \in BOOLEAN
  BY <1>2 DEF RemoveEndpoint
<1>6. OtherTypes' /\ hz \subseteq hz'
  BY <1>1, <1>2, <1>5 DEF OtherTypes, TypeOK
<1> QED BY <1>3, <1>4, <1>6 DEF Harmless

\* The list is cleared again.
LEMMA CheckEndKeeps ==
  ASSUME TableInv, CheckEnd
  PROVE  Harmless
<1>1. TypeOK
  BY DEF TableInv
<1>2. Kept
  BY <1>1, EpIsSame, BecomeKeeps DEF CheckEnd
<1>3. NobodyNew
  BY WithoutIsLess DEF CheckEnd, tables, NobodyNew, Alive
<1>4. OtherTypes' /\ hz \subseteq hz'
  BY <1>1 DEF CheckEnd, OtherTypes, TypeOK
<1> QED BY <1>2, <1>3, <1>4 DEF Harmless

\* Nothing happens.
LEMMA StutterKeeps ==
  ASSUME TableInv, UNCHANGED vars
  PROVE  Harmless
<1>1. TypeOK
  BY DEF TableInv
<1>2. Kept
  BY <1>1, EpIsSame, SameKeeps DEF vars
<1>3. NobodyNew
  BY WithoutIsLess DEF vars, tables, NobodyNew, Alive
<1>4. OtherTypes' /\ hz \subseteq hz'
  BY <1>1 DEF vars, OtherTypes, TypeOK
<1> QED BY <1>2, <1>3, <1>4 DEF Harmless
-----------------------------------------------------------------------------
(***************************************************************************)
(* A registration.                                                         *)
(***************************************************************************)
\* A domain that is accepted has a key of its own, so nothing is overwritten.
LEMMA InsertAdds ==
  ASSUME NEW coll, Sorted(coll), NEW d, IsDomain(d), CanInsert(coll, d), NEW e
  PROVE  Elements(Insert(coll, d, e)) = Elements(coll) \cup {e}
<1> DEFINE m == MaxId(d)
<1>1. m \notin DOMAIN coll
  <2> SUFFICES ASSUME m \in DOMAIN coll PROVE FALSE
    OBVIOUS
  <2> DEFINE f == ep[coll[m]]
  <2>1. IsDomain(f) /\ m = MaxId(f)
    BY DEF Sorted, SortedIn
  <2>2. ~Meet(d, f)
    BY AcceptedIsApart
  <2> HIDE DEF f
  <2>3. Apart(d, f)
    BY <2>1, <2>2, MeetOrApart
  <2>4. /\ Lo(d) \in Nat /\ Lo(d) <= d.id /\ d.id <= MaxId(d) /\ d.id \in Nat /\ MaxId(d) \in Nat
        /\ Lo(f) \in Nat /\ Lo(f) <= f.id /\ f.id <= MaxId(f) /\ f.id \in Nat
    BY <2>1, DomainBounds
  <2> QED BY <2>1, <2>3, <2>4 DEF Apart
<1> DEFINE c == Insert(coll, d, e)
<1>2. DOMAIN c = DOMAIN coll \cup {m} /\ \A k \in DOMAIN c : c[k] = IF k = m THEN e ELSE coll[k]
  BY DEF Insert
<1> HIDE DEF c, m
<1>3. Elements(c) = Elements(coll) \cup {e}
  BY <1>1, <1>2 DEF Elements
<1> QED BY <1>3 DEF c

\* A registration puts a new endpoint e for p into one of three places.
AddsFather(p, e) ==
  /\ father = None /\ father' = e /\ UNCHANGED <<children, brothers>>
  /\ FatherLike(p) /\ ~IsChild(p.id)
  /\ "cousin" \notin hz' => \A b \in Elements(brothers) : Covers(p, ep[b].id)
AddsBrother(p, e) ==
  /\ brothers' = Insert(brothers, p, e) /\ UNCHANGED <<father, children>>
  /\ CanInsert(brothers, p) /\ IsBrother(p.id) /\ ~FatherLike(p)
AddsChild(p, e) ==
  /\ children' = Insert(children, p, e) /\ UNCHANGED <<father, brothers>>
  /\ CanInsert(children, p) /\ IsChild(p.id) /\ p.width < SelfWidth
Adds(p, e) ==
  /\ e \in Slots /\ e \notin Alive
  /\ ep' \in Endpoints /\ \A x \in Alive : ep'[x] = ep[x]
  /\ ep'[e].id = p.id /\ ep'[e].width = p.width /\ ep'[e].pid = p.pid /\ ep'[e].ctrl = "up"
  /\ checked' = checked /\ pending \subseteq pending' /\ pending' \subseteq pending \cup {e}
  /\ hz \subseteq hz' /\ OtherTypes' /\ ("cousin" \in hz' => "cousin" \in hz \/ father' = e)
  /\ "reused" \notin hz' => \A x \in pending \cup checked : ep[x].id # p.id
  /\ AddsFather(p, e) \/ AddsBrother(p, e) \/ AddsChild(p, e)

\* What is assumed of a peer.
LEMMA PeerFacts ==
  ASSUME NEW p \in Peers
  PROVE  IsDomain(p) /\ p.id \in Nat /\ p.width \in Nat \ {0} /\ p.pid # None
BY PeersAssumption DEF IsDomain, Widths

\* A registration adds one endpoint to what is registered.
LEMMA AddsAlive ==
  ASSUME TableInv, NEW p \in Peers, NEW e, Adds(p, e)
  PROVE  /\ Elements(children)' \in {Elements(children), Elements(children) \cup {e}}
         /\ Elements(brothers)' \in {Elements(brothers), Elements(brothers) \cup {e}}
         /\ Registered' = Registered \cup {e}
         /\ Alive' = Alive \cup {e}
<1>1. IsDomain(p) /\ e # None
  BY SelfAssumption, PeerFacts DEF Adds
<1>2. AddsChild(p, e) => Elements(children)' = Elements(children) \cup {e}
  <2>1. AddsChild(p, e) => Elements(children') = Elements(children) \cup {e}
    BY <1>1, InsertAdds DEF TableInv, AddsChild
  <2> QED BY <2>1 DEF Elements
<1>3. AddsBrother(p, e) => Elements(brothers)' = Elements(brothers) \cup {e}
  <2>1. AddsBrother(p, e) => Elements(brothers') = Elements(brothers) \cup {e}
    BY <1>1, InsertAdds DEF TableInv, AddsBrother
  <2> QED BY <2>1 DEF Elements
<1>4. UNCHANGED children => Elements(children)' = Elements(children)
  BY DEF Elements
<1>5. UNCHANGED brothers => Elements(brothers)' = Elements(brothers)
  BY DEF Elements
<1>6. /\ Elements(children)' \in {Elements(children), Elements(children) \cup {e}}
      /\ Elements(brothers)' \in {Elements(brothers), Elements(brothers) \cup {e}}
  BY <1>2, <1>3, <1>4, <1>5 DEF Adds, AddsFather, AddsBrother, AddsChild
<1>7. Registered' = Registered \cup {e}
  BY <1>1, <1>2, <1>3, <1>4, <1>5 DEF Adds, AddsFather, AddsBrother, AddsChild, Registered
<1>8. Alive' = Alive \cup {e}
  BY <1>7 DEF Adds, Alive
<1> QED BY <1>6, <1>7, <1>8

\* Register is such a registration, wherever add_endpoint puts the peer.
LEMMA RegisterAdds ==
  ASSUME TableInv, UNCHANGED <<checking, event>>, NEW p \in Peers, NEW where,
         where = Placement(p), where \in {"father", "brother", "child"},
         ~(IsChild(p.id) /\ SelfWidth <= p.width), Alive # Slots, Register(p, where)
  PROVE  \E e \in Slots : Adds(p, e)
<1> DEFINE e == CHOOSE s \in Slots : s \notin Alive
<1>1. TypeOK /\ Alive \subseteq Slots /\ IsDomain(p) /\ p.id \in Nat /\ p.width \in Nat \ {0} /\ p.pid # None
  BY AliveInSlots, PeerFacts DEF TableInv
<1>2. e \in Slots /\ e \notin Alive /\ e # None
  <2>1. \E s \in Slots : s \notin Alive
    BY <1>1
  <2> QED BY <2>1, SelfAssumption
<1> HIDE DEF e
<1>3. PICK begun \in [Kinds -> 0 .. MaxData] :
        /\ pending' = IF begun = NoData THEN pending \cup {e} ELSE pending
        /\ UNCHANGED checked
        /\ Become([ep EXCEPT ![e] = [id |-> p.id, width |-> p.width, pid |-> p.pid,
                                     ctrl |-> "up", data |-> begun]])
  BY DEF Register, e
<1>4. /\ father' = IF where = "father" THEN e ELSE father
      /\ brothers' = IF where = "brother" THEN Insert(brothers, p, e) ELSE brothers
      /\ children' = IF where = "child" THEN Insert(children, p, e) ELSE children
      /\ ret' = "OK"
  BY DEF Register, e
<1>5. hz' = hz \cup (IF \E x \in pending \cup checked : ep[x].id = p.id THEN {"reused"} ELSE {})
              \cup (IF where = "father" /\ \E b \in Elements(brothers) : ~Covers(p, ep[b].id)
                    THEN {"cousin"} ELSE {})
  BY DEF Register
<1> DEFINE new == [id |-> p.id, width |-> p.width, pid |-> p.pid, ctrl |-> "up", data |-> begun]
<1>6. new \in EpType
  <2>1. begun \in [Kinds -> Nat]
    BY BoundAssumption
  <2> QED BY <1>1, <2>1 DEF EpType
<1>7. Become([ep EXCEPT ![e] = new])
  BY <1>3
<1>8. new.id = p.id /\ new.width = p.width /\ new.pid = p.pid /\ new.ctrl = "up"
  OBVIOUS
<1> HIDE DEF new
\* Where the peer is put, and what it was checked for there.
<1>9. AddsFather(p, e) \/ AddsBrother(p, e) \/ AddsChild(p, e)
  <2>1. p.width \in Int /\ SelfWidth \in Int
    BY <1>1, SelfAssumption
  <2>2. CASE where = "father"
    <3>1. FatherLike(p) /\ father = None
      BY <2>2 DEF Placement
    <3>2. ~IsChild(p.id)
      BY <2>1, <3>1 DEF FatherLike
    <3>3. "cousin" \notin hz' => \A b \in Elements(brothers) : Covers(p, ep[b].id)
      BY <1>5, <2>2
    <3> QED BY <1>4, <2>2, <3>1, <3>2, <3>3 DEF AddsFather
  <2>3. CASE where = "brother"
    BY <1>4, <2>3 DEF Placement, AddsBrother
  <2>4. CASE where = "child"
    <3>1. CanInsert(children, p) /\ IsChild(p.id)
      BY <2>4 DEF Placement
    <3>2. p.width < SelfWidth
      BY <2>1, <3>1
    <3> QED BY <1>4, <2>4, <3>1, <3>2 DEF AddsChild
  <2> QED BY <2>2, <2>3, <2>4
<1>10. e \in Alive'
  <2>1. father' = e \/ e \in Elements(children') \/ e \in Elements(brothers')
    <3>1. \A coll : e \in Elements(Insert(coll, p, e))
      <4>1. \A coll : MaxId(p) \in DOMAIN Insert(coll, p, e) /\ Insert(coll, p, e)[MaxId(p)] = e
        BY DEF Insert
      <4> QED BY <4>1 DEF Elements
    <3> QED BY <1>9, <3>1 DEF AddsFather, AddsBrother, AddsChild
  <2> QED BY <1>2, <2>1 DEF Alive, Registered, Elements
<1>11. Alive \subseteq Alive'
  <2>1. /\ Elements(children) \subseteq Elements(children')
        /\ Elements(brothers) \subseteq Elements(brothers')
    BY <1>1, <1>9, InsertAdds DEF TableInv, AddsFather, AddsBrother, AddsChild
  <2>2. father \in {None, father'}
    BY <1>9 DEF AddsFather, AddsBrother, AddsChild
  <2>3. pending \subseteq pending'
    BY <1>3
  <2> QED BY <1>3, <2>1, <2>2, <2>3 DEF Alive, Registered, Elements
<1>12. ep' \in Endpoints /\ ep'[e] = new /\ \A x \in Alive : ep'[x] = ep[x]
  BY <1>1, <1>2, <1>6, <1>7, <1>10, <1>11, BlankType DEF Become, TypeOK, Endpoints
<1>13. OtherTypes'
  BY <1>1, <1>4, <1>5 DEF OtherTypes, TypeOK, Windows
<1>14. hz \subseteq hz' /\ ("cousin" \in hz' => "cousin" \in hz \/ father' = e)
  BY <1>4, <1>5
<1>15. "reused" \notin hz' => \A x \in pending \cup checked : ep[x].id # p.id
  BY <1>5
<1>16. pending \subseteq pending' /\ pending' \subseteq pending \cup {e} /\ checked' = checked
  BY <1>3
<1> QED BY <1>2, <1>8, <1>9, <1>12, <1>13, <1>14, <1>15, <1>16 DEF Adds

\* A registration keeps the invariant of the tables.
LEMMA AddsKeeps ==
  ASSUME TableInv, NEW p \in Peers, NEW e \in Slots, Adds(p, e)
  PROVE  TableInv'
<1>1. TypeOK /\ Alive \subseteq Slots /\ IsDomain(p) /\ p.pid # None /\ e # None
  BY AliveInSlots, PeerFacts, SelfAssumption DEF TableInv
<1>2. \A x \in Elements(children) \cup Elements(brothers) : x \in Slots /\ x \in Alive /\ x # e
  BY <1>1, SelfAssumption DEF TypeOK, Alive, Registered, Adds
<1>3. Sorted(children)' /\ Sorted(brothers)'
  <2>1. ASSUME NEW coll \in {children, brothers}
        PROVE  \A x \in Elements(coll) : SameDomain(ep'[x], ep[x])
    BY <1>2 DEF Adds, SameDomain
  <2>2. SortedIn(children, ep') /\ SortedIn(brothers, ep')
    BY <2>1, WithoutIsLess, LessIsSorted DEF TableInv
  <2>3. ep'[e].id = p.id /\ ep'[e].width = p.width
    BY DEF Adds
  <2>4. AddsChild(p, e) => SortedIn(children', ep')
    BY <1>1, <2>1, <2>3, InsertIsSorted DEF TableInv, AddsChild
  <2>5. AddsBrother(p, e) => SortedIn(brothers', ep')
    BY <1>1, <2>1, <2>3, InsertIsSorted DEF TableInv, AddsBrother
  <2> QED BY <2>2, <2>4, <2>5 DEF Sorted, Adds, AddsFather, AddsBrother, AddsChild
<1>4. Placed'
  <2>1. \A x \in Elements(children)' :
          (x \in Elements(children) /\ ep'[x] = ep[x]) \/ (AddsChild(p, e) /\ x = e)
    BY <1>2, AddsAlive DEF Adds, AddsFather, AddsBrother, Elements
  <2>2. \A x \in Elements(brothers)' :
          (x \in Elements(brothers) /\ ep'[x] = ep[x]) \/ (AddsBrother(p, e) /\ x = e)
    BY <1>2, AddsAlive DEF Adds, AddsFather, AddsChild, Elements
  <2>3. \A x \in Elements(children)' : IsChild(ep'[x].id) /\ ep'[x].width < SelfWidth
    BY <2>1 DEF TableInv, Placed, Adds, AddsChild
  <2>4. ep'[e].id = p.id /\ ep'[e].width = p.width
    BY DEF Adds
  <2>5. \A x \in Elements(brothers)' : ~IsChild(ep'[x].id) /\ ~FatherLike(ep'[x])
    BY <2>2, <2>4 DEF TableInv, Placed, AddsBrother, IsBrother, FatherLike, Covers
  <2> QED BY <2>3, <2>5 DEF Placed, IsChild, FatherLike, Covers
<1>5. TypeOK'
  <2>1. ep' \in [Slots -> EpType] /\ father' \in Slots \cup {None}
    BY <1>1 DEF Adds, AddsFather, AddsBrother, AddsChild, Endpoints, TypeOK
  <2>2. Elements(children)' \subseteq Slots /\ Elements(brothers)' \subseteq Slots
    BY <1>2, AddsAlive
  <2>3. \A coll \in {children', brothers'} : \A k \in DOMAIN coll : k = MaxId(ep'[coll[k]])
    BY <1>3 DEF Sorted, SortedIn
  <2>4. \A x \in Alive' : ep'[x].pid # None
    BY <1>1, AddsAlive DEF TypeOK, Adds
  <2>5. pending' \subseteq Slots /\ checked' \subseteq Slots
    BY <1>1 DEF TypeOK, Adds
  <2>6. OtherTypes'
    BY DEF Adds
  <2> QED BY <2>1, <2>2, <2>3, <2>4, <2>5, <2>6 DEF TypeOK, Elements, MaxId, OtherTypes
<1> QED BY <1>3, <1>4, <1>5 DEF TableInv

\* A registration request registers a peer that was not known, or changes no
\* table.
LEMMA RegReqIs ==
  ASSUME TableInv, NEW p \in Peers, RegReq(p)
  PROVE  \/ Harmless /\ ~checking /\ ~checking' /\ checked' = checked /\ pending' = pending
            /\ \A e \in Slots : ep'[e].ctrl = "none" => ep[e].ctrl = "none"
         \/ /\ GetEndpoint(p.id) = {} /\ ~checking /\ ~checking'
            /\ \E e \in Slots : Adds(p, e)
<1>1. ~checking /\ ~checking' /\ UNCHANGED <<checking, event>>
  BY DEF RegReq
<1>2. CASE \E e \in GetEndpoint(p.id) : Join(p, e)
  <2>1. PICK e \in GetEndpoint(p.id) : Join(p, e)
    BY <1>2
  <2>2. Harmless
    BY <1>1, <2>1, JoinKeeps
  <2>3. e \in Slots /\ ep \in [Slots -> EpType]
    BY <2>1, GetEndpointAlive DEF TableInv, TypeOK
  <2>4. \A x \in Slots : ep'[x].ctrl = "none" => ep[x].ctrl = "none"
    BY <2>1, <2>3 DEF Join, EpType
  <2> QED BY <1>1, <2>1, <2>2, <2>4 DEF Join
<1>3. CASE \E code \in {"MASK_CONFLICT", "INVALID_ID"} : Refuse(code)
  BY <1>1, <1>3, RefuseKeeps DEF Refuse
<1>4. CASE /\ ~(IsChild(p.id) /\ SelfWidth <= p.width)
           /\ Placement(p) \notin {"MASK_CONFLICT", "INVALID_ID"}
           /\ Alive # Slots /\ Register(p, Placement(p)) /\ GetEndpoint(p.id) = {}
  <2>1. Placement(p) \in {"father", "brother", "child"}
    BY <1>4 DEF Placement
  <2> QED BY <1>1, <1>4, <2>1, RegisterAdds
<1> QED BY <1>2, <1>3, <1>4 DEF RegReq

\* A registration request keeps the invariant of the tables.
LEMMA RegReqKeeps ==
  ASSUME TableInv, NEW p \in Peers, RegReq(p)
  PROVE  TableInv'
BY RegReqIs, HarmlessKeeps, AddsKeeps
-----------------------------------------------------------------------------
\* A node begins with empty tables.
LEMMA InitInv == Init => TableInv
<1> SUFFICES ASSUME Init PROVE TableInv
  OBVIOUS
<1>1. DOMAIN children = {} /\ DOMAIN brothers = {}
  BY DEF Init
<1>2. Elements(children) = {} /\ Elements(brothers) = {}
  BY <1>1 DEF Elements
<1>3. Alive = {}
  BY <1>2 DEF Alive, Registered, Init
<1>4. TypeOK
  BY <1>1, <1>2, <1>3, BlankType DEF Init, TypeOK
<1>5. Sorted(children) /\ Sorted(brothers) /\ Placed
  BY <1>1, <1>2 DEF Sorted, SortedIn, Placed
<1> QED BY <1>4, <1>5 DEF TableInv

\* Every step keeps the invariant of the tables.
LEMMA StepInv == TableInv /\ [Next]_vars => TableInv'
<1> SUFFICES ASSUME TableInv, [Next]_vars PROVE TableInv'
  OBVIOUS
<1>1. ASSUME NEW p \in Peers, RegReq(p) PROVE TableInv'
  BY <1>1, RegReqKeeps
<1>2. ASSUME NEW e \in Alive, RegRspError(e) \/ CtrlLost(e) \/ DataUp(e) \/ Fault(e)
      PROVE  TableInv'
  BY <1>2, RegRspErrorKeeps, CtrlLostKeeps, DataUpKeeps, FaultKeeps, HarmlessKeeps
<1>3. ASSUME NEW e \in Alive, NEW kind \in {"trying", "running"}, DataLost(e, kind)
      PROVE  TableInv'
  BY <1>3, DataLostKeeps, HarmlessKeeps
<1>4. ASSUME NEW id \in Ids, UserDisconnect(id) \/ Callback(id) PROVE TableInv'
  BY <1>4, UserDisconnectKeeps, CallbackKeeps, HarmlessKeeps
<1>5. CASE CheckBegin \/ CheckEnd
  BY <1>5, CheckBeginKeeps, CheckEndKeeps, HarmlessKeeps
<1>6. ASSUME NEW e \in checked, CheckOne(e) PROVE TableInv'
  BY <1>6, CheckOneKeeps, HarmlessKeeps
<1>7. CASE UNCHANGED vars
  BY <1>7, StutterKeeps, HarmlessKeeps
<1> QED BY <1>1, <1>2, <1>3, <1>4, <1>5, <1>6, <1>7 DEF Next
-----------------------------------------------------------------------------
(***************************************************************************)
(* The father among the others.                                            *)
(***************************************************************************)
\* The father lies around the node's domain, has an id of its own and, outside
\* the window, all brothers in its domain.
FatherInv ==
  father # None =>
    /\ IsDomain(ep[father]) /\ FatherLike(ep[father]) /\ ~IsChild(ep[father].id)
    /\ \A b \in Elements(brothers) : ep[b].id # ep[father].id
    /\ "cousin" \notin hz => \A b \in Elements(brothers) : Covers(ep[father], ep[b].id)

\* A step that registers nobody leaves the father where it is, or takes it
\* out.
LEMMA HarmlessKeepsFather ==
  ASSUME TableInv, FatherInv, Harmless
  PROVE  FatherInv'
<1> SUFFICES ASSUME father' # None PROVE FatherInv'
  BY DEF FatherInv
<1>1. father' = father /\ father # None
  BY DEF Harmless, NobodyNew
<1>2. Elements(brothers)' \subseteq Elements(brothers)
  BY DEF Harmless, NobodyNew, Less, Elements
<1>3. \A x \in {father} \cup Elements(brothers)' : x \in Slots /\ x \in Alive'
  <2>1. {father} \cup Elements(brothers)' \subseteq Slots
    BY <1>1, <1>2 DEF TableInv, TypeOK
  <2>2. None \notin {father} \cup Elements(brothers)'
    BY <2>1, SelfAssumption
  <2> QED BY <1>1, <2>1, <2>2 DEF Alive, Registered
<1>4. \A x \in {father} \cup Elements(brothers)' : SameDomain(ep'[x], ep[x])
  BY <1>3 DEF Harmless, Kept
<1>5. "cousin" \notin hz' => "cousin" \notin hz
  BY DEF Harmless
<1> QED
  BY <1>1, <1>2, <1>4, <1>5 DEF FatherInv, SameDomain, IsDomain, FatherLike, Covers, IsChild

\* A registration leaves the father with an id of its own, since a known id
\* would have been found.
LEMMA AddsKeepsFather ==
  ASSUME TableInv, FatherInv, NEW p \in Peers, NEW e \in Slots, Adds(p, e), GetEndpoint(p.id) = {}
  PROVE  FatherInv'
<1> SUFFICES ASSUME father' # None PROVE FatherInv'
  BY DEF FatherInv
<1>1. IsDomain(p) /\ p.id \in Nat
  BY PeerFacts
<1>2. /\ \A x \in Elements(brothers) : ep'[x] = ep[x]
      /\ father # None => ep'[father] = ep[father]
      /\ ep'[e].id = p.id /\ ep'[e].width = p.width /\ hz \subseteq hz'
  <2>1. None \notin Elements(brothers)
    BY SelfAssumption DEF TableInv, TypeOK
  <2> QED BY <2>1 DEF Adds, Alive, Registered
<1>3. CASE AddsFather(p, e)
  <2>1. \A b \in Elements(brothers) : ep[b].id # p.id
    <3> SUFFICES ASSUME NEW b \in Elements(brothers), ep[b].id = p.id PROVE FALSE
      OBVIOUS
    <3>1. b \in FindChild(brothers, p.id)
      BY <1>1, FindChildFindsOwner DEF TableInv, Covers
    <3>2. b \in Named(brothers, p.id)
      BY <3>1 DEF Named
    <3>3. ~IsParent(p.id) /\ IsBrother(p.id)
      BY <1>3 DEF AddsFather, IsParent, IsBrother
    <3> QED BY <3>2, <3>3 DEF GetEndpoint
  <2>2. Elements(brothers)' = Elements(brothers) /\ father' = e
    BY <1>3 DEF AddsFather, Elements
  <2>3. IsDomain(ep'[e]) /\ FatherLike(ep'[e]) /\ ~IsChild(ep'[e].id)
    BY <1>1, <1>2, <1>3 DEF AddsFather, IsDomain, FatherLike, Covers
  <2>4. \A b \in Elements(brothers) : ep'[b].id # ep'[e].id
    BY <1>2, <2>1
  <2>5. "cousin" \notin hz' => \A b \in Elements(brothers) : Covers(ep'[e], ep'[b].id)
    BY <1>2, <1>3 DEF AddsFather, Covers
  <2> QED BY <2>2, <2>3, <2>4, <2>5 DEF FatherInv, IsDomain, FatherLike, Covers, IsChild
<1>4. CASE father' = father
  <2>1. father # None /\ ep'[father] = ep[father]
    BY <1>2, <1>4
  <2>2. \A b \in Elements(brothers)' : b \in Elements(brothers) \/ (AddsBrother(p, e) /\ b = e)
    BY <1>4, AddsAlive DEF Adds, AddsFather, AddsChild, Elements
  <2>3. AddsBrother(p, e) => p.id # ep[father].id /\ Covers(ep[father], p.id)
    <3> SUFFICES ASSUME AddsBrother(p, e) PROVE p.id # ep[father].id /\ Covers(ep[father], p.id)
      OBVIOUS
    <3>1. p.id # ep[father].id
      BY <2>1 DEF GetEndpoint, IsParent
    <3>2. p.id \div ep[father].width = Self \div ep[father].width
      BY <2>1 DEF AddsBrother, IsBrother
    <3>3. Self \div ep[father].width = ep[father].id \div ep[father].width
      BY <2>1 DEF FatherInv, FatherLike, Covers
    <3> QED BY <3>1, <3>2, <3>3 DEF Covers
  <2>4. "cousin" \notin hz' => "cousin" \notin hz
    BY <1>2
  <2>5. \A b \in Elements(brothers)' :
          /\ ep'[b].id # ep[father].id
          /\ "cousin" \notin hz' => Covers(ep[father], ep'[b].id)
    BY <1>2, <2>1, <2>2, <2>3, <2>4 DEF FatherInv
  <2> QED BY <1>4, <2>1, <2>5 DEF FatherInv, IsDomain, FatherLike, Covers, IsChild
<1> QED BY <1>3, <1>4 DEF Adds, AddsBrother, AddsChild

\* Every step registers one peer or nobody.
LEMMA StepIs ==
  ASSUME TableInv, [Next]_vars
  PROVE  Harmless \/ \E p \in Peers, e \in Slots : Adds(p, e) /\ GetEndpoint(p.id) = {}
<1>1. ASSUME NEW p \in Peers, RegReq(p)
      PROVE  Harmless \/ \E e \in Slots : Adds(p, e) /\ GetEndpoint(p.id) = {}
  BY <1>1, RegReqIs
<1>2. ASSUME NEW e \in Alive, RegRspError(e) \/ CtrlLost(e) \/ DataUp(e) \/ Fault(e)
      PROVE  Harmless
  BY <1>2, RegRspErrorKeeps, CtrlLostKeeps, DataUpKeeps, FaultKeeps
<1>3. ASSUME NEW e \in Alive, NEW kind \in {"trying", "running"}, DataLost(e, kind)
      PROVE  Harmless
  BY <1>3, DataLostKeeps
<1>4. ASSUME NEW id \in Ids, UserDisconnect(id) \/ Callback(id) PROVE Harmless
  BY <1>4, UserDisconnectKeeps, CallbackKeeps
<1>5. CASE CheckBegin \/ CheckEnd
  BY <1>5, CheckBeginKeeps, CheckEndKeeps
<1>6. ASSUME NEW e \in checked, CheckOne(e) PROVE Harmless
  BY <1>6, CheckOneKeeps
<1>7. CASE UNCHANGED vars
  BY <1>7, StutterKeeps
<1> QED BY <1>1, <1>2, <1>3, <1>4, <1>5, <1>6, <1>7 DEF Next

\* No two registered endpoints have the same id.
LEMMA UniqueIds ==
  ASSUME TableInv, FatherInv, NEW f \in Registered, NEW g \in Registered, ep[f].id = ep[g].id
  PROVE  f = g
<1>1. \A x, y \in Elements(children) \cup Elements(brothers) : ep[x].id = ep[y].id => x = y
  BY InvDisjoint DEF DomainsDisjoint, Meet, Covers
<1>2. father # None => \A x \in Elements(children) \cup Elements(brothers) : ep[x].id # ep[father].id
  BY DEF FatherInv, TableInv, Placed
<1> QED BY <1>1, <1>2 DEF Registered

\* send_msg gives a message to a registered peer to that peer.
LEMMA InvDirectRoute == TableInv /\ FatherInv => DirectRoute
<1> SUFFICES ASSUME TableInv, FatherInv, "cousin" \notin hz, NEW e \in Registered
             PROVE  Route(ep[e].id) = {e}
  BY DEF DirectRoute, Hit
<1> DEFINE id == ep[e].id
<1>1. ASSUME NEW coll, coll = children \/ coll = brothers, e \in Elements(coll)
      PROVE  FindChild(coll, id) = {e}
  <2>1. Sorted(coll) /\ id \in Nat
    BY <1>1 DEF TableInv, Sorted, SortedIn, IsDomain, Elements
  <2>2. FindChild(coll, id) = {x \in Elements(coll) : Covers(ep[x], id)}
    BY <2>1, FindChildFindsOwner
  <2>3. \A x \in Elements(coll) : Covers(ep[x], id) => x = e
    BY <1>1, InvDisjoint DEF DomainsDisjoint, Meet
  <2> QED BY <1>1, <2>2, <2>3 DEF Covers
<1>2. CASE e = father
  BY <1>2 DEF Route, IsParent, Registered
<1>3. CASE e \in Elements(brothers)
  <2>1. ~IsParent(id)
    BY <1>3 DEF FatherInv, IsParent
  <2>2. IsBrother(id)
    BY <1>3 DEF FatherInv, IsBrother, TableInv, Placed, FatherLike, Covers
  <2> QED BY <1>1, <1>3, <2>1, <2>2 DEF Route
<1>4. CASE e \in Elements(children)
  <2>1. IsChild(id)
    BY <1>4 DEF TableInv, Placed
  <2>2. ~IsParent(id) /\ ~IsBrother(id)
    BY <2>1 DEF FatherInv, IsParent, IsBrother
  <2> QED BY <1>1, <1>4, <2>1, <2>2 DEF Route
<1> QED BY <1>2, <1>3, <1>4 DEF Registered
-----------------------------------------------------------------------------
(***************************************************************************)
(* The list of endpoints to be checked.                                    *)
(***************************************************************************)
\* Outside the window, what waits for the check and what is registered under
\* its id is the same endpoint.
PendingInv ==
  "reused" \notin hz =>
    \A x \in pending \cup checked, f \in Registered : ep[x].id = ep[f].id => x = f

\* A step that registers nobody shrinks what is registered and keeps its
\* domains.
LEMMA HarmlessShrinks ==
  ASSUME TableInv, Harmless
  PROVE  /\ Registered' \subseteq Registered
         /\ \A x \in Alive' : x \in Slots /\ x \in Alive /\ SameDomain(ep'[x], ep[x])
<1>1. /\ Elements(children)' \subseteq Elements(children)
      /\ Elements(brothers)' \subseteq Elements(brothers)
  BY DEF Harmless, NobodyNew, Less, Elements
<1>2. Registered' \subseteq Registered
  BY <1>1 DEF Harmless, NobodyNew, Registered
<1>3. Alive' \subseteq Alive
  BY <1>2 DEF Harmless, NobodyNew, Alive
<1>4. Alive \subseteq Slots
  BY AliveInSlots DEF TableInv
<1> QED BY <1>2, <1>3, <1>4 DEF Harmless, Kept

IdsUnique == \A f, g \in Registered : ep[f].id = ep[g].id => f = g

\* The same as one formula, for the state before a step ...
LEMMA InvIdsUnique == TableInv /\ FatherInv => IdsUnique
BY UniqueIds DEF IdsUnique

\* ... and after it.
LEMMA UniqueIdsNext == TableInv' /\ FatherInv' => IdsUnique'
BY InvIdsUnique, PTL

\* What is put on the list was registered or on it already.
LEMMA HarmlessKeepsPending ==
  ASSUME TableInv, FatherInv, PendingInv, Harmless
  PROVE  PendingInv'
<1> SUFFICES ASSUME "reused" \notin hz', NEW x \in pending' \cup checked', NEW f \in Registered',
                    ep'[x].id = ep'[f].id
             PROVE  x = f
  BY DEF PendingInv
<1>1. x \in Alive' /\ f \in Alive'
  BY DEF Alive
<1>2. ep[x].id = ep[f].id /\ f \in Registered /\ x \in Alive
  BY <1>1, HarmlessShrinks DEF SameDomain
<1>3. "reused" \notin hz
  BY DEF Harmless
<1>4. CASE x \in Registered
  BY <1>2, <1>4, UniqueIds
<1>5. CASE x \in pending \cup checked
  BY <1>2, <1>3, <1>5 DEF PendingInv
<1> QED BY <1>2, <1>4, <1>5 DEF Alive

\* A new endpoint differs from everything on the list, outside the window.
LEMMA AddsKeepsPending ==
  ASSUME TableInv, FatherInv, PendingInv, NEW p \in Peers, NEW e \in Slots,
         Adds(p, e), GetEndpoint(p.id) = {}
  PROVE  PendingInv'
<1>1. TableInv' /\ FatherInv'
  BY AddsKeeps, AddsKeepsFather
<1>2. \A f, g \in Registered' : ep'[f].id = ep'[g].id => f = g
  BY <1>1, UniqueIdsNext DEF IdsUnique
<1> SUFFICES ASSUME "reused" \notin hz', NEW x \in pending' \cup checked', NEW f \in Registered',
                    ep'[x].id = ep'[f].id
             PROVE  x = f
  BY DEF PendingInv
<1>3. Registered' = Registered \cup {e}
  BY AddsAlive
<1>4. CASE x = e
  BY <1>2, <1>3, <1>4
<1>5. CASE x \in pending \cup checked
  <2>1. ep'[x] = ep[x] /\ ep[x].id # p.id /\ "reused" \notin hz /\ ep'[e].id = p.id
    BY <1>5 DEF Adds, Alive
  <2>2. f \in Registered
    BY <1>3, <2>1
  <2>3. ep'[f] = ep[f]
    BY <2>2 DEF Adds, Alive
  <2> QED BY <1>5, <2>1, <2>2, <2>3 DEF PendingInv
<1> QED BY <1>4, <1>5 DEF Adds
-----------------------------------------------------------------------------
\* Between checks nothing is being checked; inside one, what has been reset has
\* been taken out of its table already.
CheckInv ==
  /\ checking \/ checked = {}
  /\ checking /\ ~Hit({"callback", "cousin"}) => pending \cap Registered = {}
  /\ ResetIsPending

\* The endpoint given to remove_endpoint is not registered afterwards.
LEMMA RemoveRemoves ==
  ASSUME TableInv, FatherInv, "cousin" \notin hz, NEW e \in Slots, RemoveEndpoint(ep[e].id)
  PROVE  e \notin Registered'
<1> DEFINE id == ep[e].id
<1>1. ASSUME NEW coll, coll = children \/ coll = brothers, e \in Elements(coll)
      PROVE  e \notin Elements(Without(coll, id))
  <2>1. Sorted(coll) /\ id \in Nat
    BY <1>1 DEF TableInv, Sorted, SortedIn, IsDomain, Elements
  <2>2. e \in FindChild(coll, id)
    BY <1>1, <2>1, FindChildFindsOwner DEF Covers
  <2>3. PICK k \in LowerBound(coll, id) : e = coll[k]
    BY <2>2 DEF FindChild
  <2>4. \A j \in DOMAIN coll : coll[j] = e => j = k
    BY <2>1, <2>3 DEF Sorted, SortedIn, LowerBound
  <2> QED BY <2>3, <2>4 DEF Elements, Without
<1>2. CASE e \in Elements(children)
  <2>1. IsChild(id) /\ e \in Alive /\ id = ep[e].id
    BY <1>2, SelfAssumption DEF TableInv, TypeOK, Placed, Alive, Registered
  <2>2. ~IsParent(id) /\ ~IsBrother(id)
    BY <2>1 DEF FatherInv, IsParent, IsBrother
  <2>3. children' = Without(children, id) /\ brothers' = brothers /\ father' = father
    BY <2>1, <2>2 DEF RemoveEndpoint, Removed
  <2>4. e \notin Elements(brothers) /\ e # father /\ e # None
    BY <1>2, <2>1, SelfAssumption DEF FatherInv, TableInv, Placed
  <2>5. e \notin Elements(children')
    BY <1>1, <1>2, <2>3
  <2> QED BY <2>3, <2>4, <2>5 DEF Registered, Elements
<1>3. CASE e \in Elements(brothers)
  <2>1. ~IsChild(id)
    BY <1>3 DEF TableInv, Placed
  <2>2. ~IsParent(id) /\ IsBrother(id)
    BY <1>3, <2>1 DEF FatherInv, IsParent, IsBrother, TableInv, Placed, FatherLike, Covers
  <2>3. children' = children /\ brothers' = Without(brothers, id) /\ father' = father
    BY <2>1, <2>2 DEF RemoveEndpoint, Removed
  <2>4. e \notin Elements(children) /\ e # father /\ e # None
    BY <1>3, <2>1, SelfAssumption DEF FatherInv, TableInv, Placed
  <2>5. e \notin Elements(brothers')
    BY <1>1, <1>3, <2>3
  <2> QED BY <2>3, <2>4, <2>5 DEF Registered, Elements
<1>4. CASE e \notin Elements(children) /\ e \notin Elements(brothers)
  <2>1. e \notin Elements(children') /\ e \notin Elements(brothers')
    BY <1>4, RemoveIsLess DEF Less, Elements
  <2>2. e = father => father' = None
    BY SelfAssumption DEF RemoveEndpoint, Removed, IsParent
  <2>3. father' = e => father = e
    BY SelfAssumption, RemoveIsLess
  <2> QED BY <2>1, <2>2, <2>3, SelfAssumption DEF Registered, Elements
<1> QED BY <1>2, <1>3, <1>4

\* It takes out nothing with another id.
LEMMA RemoveKeepsOthers ==
  ASSUME NEW id, RemoveEndpoint(id), NEW f \in Registered, ep[f].id # id
  PROVE  f \in Registered'
<1>1. ASSUME NEW coll, f \in Elements(coll) PROVE f \in Elements(Without(coll, id))
  BY <1>1 DEF Elements, Without
<1>2. f \in Elements(children) => f \in Elements(children')
  BY <1>1 DEF RemoveEndpoint, Removed, tables
<1>3. f \in Elements(brothers) => f \in Elements(brothers')
  BY <1>1 DEF RemoveEndpoint, Removed, tables
<1>4. f = father => father' = f
  BY DEF RemoveEndpoint, Removed, tables, IsParent, Registered
<1> QED BY <1>2, <1>3, <1>4 DEF Registered, Elements

\* What is not reset stays as it is.
LEMMA BecomeIs ==
  ASSUME TypeOK, NEW e \in Slots
  PROVE  /\ Become(ResetOf(e)) => \A x \in Slots : x \in Alive' /\ x # e => ep'[x] = ep[x]
         /\ Become(ep) => \A x \in Slots : x \in Alive' => ep'[x] = ep[x]
BY DEF TypeOK, Become, ResetOf

\* A step outside the check that puts on the list what it resets.
LEMMA QuietKeepsCheck ==
  ASSUME TableInv, CheckInv, Harmless, ~checking, ~checking', checked' = checked,
         pending \subseteq pending',
         \A x \in Slots : x \in Alive' /\ ep'[x].ctrl = "none" => ep[x].ctrl = "none" \/ x \in pending'
  PROVE  CheckInv'
<1>1. ASSUME ~Hit({"callback", "cousin"})', NEW x \in Registered', ep'[x].ctrl = "none"
      PROVE  x \in pending' \cup checked'
  <2>1. x \in Alive' /\ x \in Slots /\ x \in Registered
    BY HarmlessShrinks DEF Alive
  <2>2. ~Hit({"callback", "cousin"})
    BY <1>1 DEF Hit, Harmless
  <2> QED BY <1>1, <2>1, <2>2 DEF CheckInv, ResetIsPending
<1> QED BY <1>1 DEF CheckInv, ResetIsPending

\* A new endpoint has a control connection.
LEMMA AddsKeepsCheck ==
  ASSUME TableInv, CheckInv, NEW p \in Peers, NEW e \in Slots, Adds(p, e), ~checking, ~checking'
  PROVE  CheckInv'
<1>1. ASSUME ~Hit({"callback", "cousin"})', NEW x \in Registered', ep'[x].ctrl = "none"
      PROVE  x \in pending' \cup checked'
  <2>1. x # e
    BY <1>1 DEF Adds
  <2>2. x \in Registered /\ ep'[x] = ep[x]
    BY <2>1, AddsAlive DEF Adds, Alive
  <2>3. ~Hit({"callback", "cousin"})
    BY <1>1 DEF Hit, Adds
  <2> QED BY <1>1, <2>2, <2>3 DEF CheckInv, ResetIsPending, Adds
<1> QED BY <1>1 DEF CheckInv, ResetIsPending, Adds

\* An endpoint that is checked stays available or leaves its table.
LEMMA CheckOneKeepsCheck ==
  ASSUME TableInv, FatherInv, CheckInv, NEW e \in checked, CheckOne(e)
  PROVE  CheckInv'
<1>1. TypeOK /\ e \in Slots /\ Harmless /\ checking /\ checking' /\ hz' = hz
  BY CheckOneKeeps DEF TableInv, TypeOK, CheckOne
<1>2. SUFFICES ASSUME ~Hit({"callback", "cousin"})
      PROVE  /\ pending' \cap Registered' = {}
             /\ \A x \in Registered' : ep'[x].ctrl = "none" => x \in pending' \cup checked'
  BY <1>1 DEF CheckInv, ResetIsPending, Hit
<1>3. \A x \in Registered' : x \in Slots /\ x \in Alive' /\ x \in Registered
  BY <1>1, HarmlessShrinks DEF Alive
<1>4. checked' = checked \ {e}
  BY DEF CheckOne
<1>5. CASE Available(e)
  <2>1. UNCHANGED <<tables, pending>> /\ Become(ep)
    BY <1>5 DEF CheckOne
  <2>2. Registered' = Registered /\ pending' = pending
    BY <2>1 DEF tables, Registered, Elements
  <2>3. \A x \in Registered' : ep'[x] = ep[x]
    BY <1>1, <1>3, <2>1, BecomeIs
  <2>4. ep[e].ctrl # "none"
    BY <1>5 DEF Available
  <2> QED BY <1>1, <1>2, <1>4, <2>2, <2>3, <2>4 DEF CheckInv, ResetIsPending
<1>6. CASE ~Available(e)
  <2>1. pending' = pending \cup {e} /\ RemoveEndpoint(ep[e].id) /\ Become(ResetOf(e))
    BY <1>6 DEF CheckOne
  <2>2. e \notin Registered'
    BY <1>1, <1>2, <2>1, RemoveRemoves DEF Hit
  <2>3. \A x \in Registered' : ep'[x] = ep[x]
    BY <1>1, <1>3, <2>1, <2>2, BecomeIs
  <2> QED BY <1>1, <1>2, <1>3, <1>4, <2>1, <2>2, <2>3 DEF CheckInv, ResetIsPending
<1> QED BY <1>5, <1>6

\* Every step keeps the invariant of the check list.
LEMMA StepKeepsCheck ==
  ASSUME TableInv, FatherInv, CheckInv, [Next]_vars
  PROVE  CheckInv'
<1>1. TypeOK /\ ep \in [Slots -> EpType] /\ Alive \subseteq Slots
  BY AliveInSlots DEF TableInv, TypeOK
<1>2. ASSUME NEW p \in Peers, RegReq(p) PROVE CheckInv'
  BY <1>2, RegReqIs, QuietKeepsCheck, AddsKeepsCheck
<1>3. ASSUME NEW e \in Alive, RegRspError(e) PROVE CheckInv'
  <2>1. Harmless /\ ~checking /\ ~checking' /\ checked' = checked /\ pending \subseteq pending'
    BY <1>3, RegRspErrorKeeps DEF RegRspError, Quiet
  <2>2. \A x \in Slots : ep'[x].ctrl = "none" => ep[x].ctrl = "none"
    BY <1>1, <1>3 DEF RegRspError, EpType
  <2> QED BY <2>1, <2>2, QuietKeepsCheck
<1>4. ASSUME NEW e \in Slots, Reset(e), Harmless, ~checking, ~checking' PROVE CheckInv'
  <2>1. checked' = checked /\ pending' = pending \cup {e} /\ Become(ResetOf(e))
    BY <1>4 DEF Reset
  <2>2. \A x \in Slots : x \in Alive' /\ ep'[x].ctrl = "none" => ep[x].ctrl = "none" \/ x \in pending'
    BY <1>1, <2>1, BecomeIs
  <2> QED BY <1>4, <2>1, <2>2, QuietKeepsCheck
<1>5. ASSUME NEW e \in Alive, CtrlLost(e) PROVE CheckInv'
  <2>1. Harmless /\ Reset(e) /\ ~checking /\ ~checking' /\ e \in Slots
    BY <1>1, <1>5, CtrlLostKeeps DEF CtrlLost, Quiet
  <2> QED BY <1>4, <2>1
<1>6. ASSUME NEW e \in Alive, NEW kind \in {"trying", "running"}, DataLost(e, kind) PROVE CheckInv'
  <2>1. Harmless /\ ~checking /\ ~checking' /\ checked' = checked /\ e \in Slots
    BY <1>1, <1>6, DataLostKeeps DEF DataLost, Quiet
  <2>2. CASE Reset(e)
    BY <1>4, <2>1, <2>2
  <2>3. CASE ~Reset(e)
    <3> DEFINE left == [ep[e].data EXCEPT ![kind] = @ - 1]
    <3>1. ep' = [ep EXCEPT ![e].data = left] /\ pending' = pending
      BY <1>6, <2>3 DEF DataLost
    <3> HIDE DEF left
    <3>2. \A x \in Slots : ep'[x].ctrl = ep[x].ctrl
      BY <1>1, <3>1 DEF EpType
    <3> QED BY <2>1, <3>1, <3>2, QuietKeepsCheck
  <2> QED BY <2>2, <2>3
<1>7. ASSUME NEW e \in Alive, DataUp(e) PROVE CheckInv'
  <2>1. Harmless /\ ~checking /\ ~checking' /\ checked' = checked /\ pending' = pending
    BY <1>7, DataUpKeeps DEF DataUp, Quiet
  <2>2. \A x \in Slots : ep'[x].ctrl = ep[x].ctrl
    BY <1>1, <1>7 DEF DataUp, EpType
  <2> QED BY <2>1, <2>2, QuietKeepsCheck
<1>8. ASSUME NEW e \in Alive, Fault(e) PROVE CheckInv'
  <2>1. Harmless /\ ~checking /\ ~checking' /\ checked' = checked /\ pending' = pending
    BY <1>8, FaultKeeps DEF Fault
  <2>2. \A x \in Slots : x \in Alive' => ep'[x] = ep[x]
    BY <1>1, <1>8, BecomeIs DEF Fault
  <2> QED BY <2>1, <2>2, QuietKeepsCheck
<1>9. ASSUME NEW id \in Ids, UserDisconnect(id) PROVE CheckInv'
  <2>1. Harmless /\ ~checking /\ ~checking'
    BY <1>9, UserDisconnectKeeps DEF UserDisconnect
  <2>2. (\E e \in Slots : Reset(e)) \/ UNCHANGED <<ep, tables, pending, checked>>
    <3>1. IsParent(id) => father \in Slots
      BY <1>1 DEF IsParent, TypeOK
    <3>2. Named(brothers, id) \cup Named(children, id) \subseteq Slots
      BY <1>1 DEF Named, FindChild, LowerBound, TypeOK, Elements
    <3> QED BY <1>9, <3>1, <3>2 DEF UserDisconnect, Disconnect
  <2>3. CASE UNCHANGED <<ep, tables, pending, checked>>
    BY <2>1, <2>3, QuietKeepsCheck
  <2> QED BY <1>4, <2>1, <2>2, <2>3
<1>10. ASSUME NEW id \in Ids, Callback(id) PROVE CheckInv'
  BY <1>10, DisconnectKeeps DEF Callback, CheckInv, ResetIsPending, Hit
<1>11. CASE CheckBegin
  BY <1>11 DEF CheckBegin, tables, CheckInv, ResetIsPending, Hit, Registered, Elements
<1>12. CASE CheckEnd
  <2>1. /\ checking /\ checked = {} /\ ~checking' /\ pending' = {} /\ Registered' = Registered
        /\ checked' = {} /\ hz' = hz /\ Become(ep)
    BY <1>12 DEF CheckEnd, tables, Registered, Elements
  <2>2. \A x \in Registered : x \in Slots /\ x \in Alive'
    BY <1>1, <2>1 DEF Alive
  <2>3. \A x \in Registered : ep'[x] = ep[x]
    BY <1>1, <2>1, <2>2, BecomeIs
  <2> QED BY <2>1, <2>3 DEF CheckInv, ResetIsPending, Hit
<1>13. ASSUME NEW e \in checked, CheckOne(e) PROVE CheckInv'
  BY <1>13, CheckOneKeepsCheck
<1>14. CASE UNCHANGED vars
  BY <1>14 DEF vars, tables, CheckInv, ResetIsPending, Hit, Registered, Elements
<1> QED
  BY <1>2, <1>3, <1>5, <1>6, <1>7, <1>8, <1>9, <1>10, <1>11, <1>12, <1>13, <1>14 DEF Next
-----------------------------------------------------------------------------
(***************************************************************************)
(* What a check takes out, and what a registration is refused for.         *)
(***************************************************************************)
\* A check takes out only the endpoint it found unavailable.
LEMMA StepKeepsAvailable ==
  ASSUME TableInv, FatherInv, PendingInv, [Next]_vars,
         checked \ checked' # {}, ~Hit({"reused"}), NEW f \in Registered, Available(f)
  PROVE  f \in Registered'
<1>1. CASE UNCHANGED tables
  BY <1>1 DEF tables, Registered, Elements
<1>2. ASSUME NEW e \in checked, CheckOne(e) PROVE f \in Registered'
  <2>1. CASE Available(e)
    BY <1>1, <1>2, <2>1 DEF CheckOne
  <2>2. CASE ~Available(e)
    <3>1. RemoveEndpoint(ep[e].id) /\ e # f
      BY <1>2, <2>2 DEF CheckOne
    <3>2. ep[f].id # ep[e].id
      BY <3>1 DEF PendingInv, Hit
    <3> QED BY <3>1, <3>2, RemoveKeepsOthers
  <2> QED BY <2>1, <2>2
<1>3. ASSUME NEW p \in Peers, RegReq(p) PROVE FALSE
  BY <1>3, RegReqIs DEF Adds
<1>4. ASSUME NEW e \in Alive, RegRspError(e) \/ CtrlLost(e) \/ DataUp(e) \/ Fault(e) PROVE FALSE
  BY <1>4 DEF RegRspError, CtrlLost, DataUp, Fault, Quiet
<1>5. ASSUME NEW e \in Alive, NEW kind \in {"trying", "running"}, DataLost(e, kind) PROVE FALSE
  BY <1>5 DEF DataLost, Quiet
<1>6. ASSUME NEW id \in Ids, UserDisconnect(id) \/ Callback(id) PROVE FALSE
  BY <1>6, DisconnectKeeps DEF UserDisconnect, Callback
<1>7. CASE CheckBegin \/ CheckEnd
  BY <1>1, <1>7 DEF CheckBegin, CheckEnd
<1>8. CASE UNCHANGED vars
  BY <1>1, <1>8 DEF vars
<1> QED BY <1>2, <1>3, <1>4, <1>5, <1>6, <1>7, <1>8 DEF Next

\* Where a conflict is answered there is one.
LEMMA RefusedForAReason ==
  ASSUME TableInv, ret' = "MASK_CONFLICT", NEW p \in Peers, RegReq(p)
  PROVE  \/ p.width >= SelfWidth /\ IsChild(p.id)
         \/ \E e \in Registered : Meet(p, ep[e])
<1>1. p.width \in Nat /\ SelfWidth \in Nat /\ p.id \in Nat
  BY PeerFacts, SelfAssumption
<1>2. \/ IsChild(p.id) /\ SelfWidth <= p.width
      \/ Placement(p) = "MASK_CONFLICT"
  BY DEF RegReq, Join, Refuse, Register
<1>3. CASE IsChild(p.id) /\ SelfWidth <= p.width
  BY <1>1, <1>3
<1>4. CASE Placement(p) = "MASK_CONFLICT"
  <2>1. PICK coll \in {children, brothers} : ~CanInsert(coll, p)
    BY <1>4 DEF Placement
  <2>2. PICK k \in DOMAIN coll : Meet(p, ep[coll[k]])
    BY <2>1 DEF CanInsert, Meet, Covers, LowerBound, Before
  <2>3. coll[k] \in Registered
    BY SelfAssumption DEF TableInv, TypeOK, Registered, Elements
  <2> QED BY <2>2, <2>3
<1> QED BY <1>2, <1>3, <1>4
-----------------------------------------------------------------------------
(***************************************************************************)
(* The theorems.                                                           *)
(***************************************************************************)
PeersInv == TableInv /\ FatherInv /\ PendingInv /\ CheckInv

\* The inductive invariant holds at the start ...
LEMMA InitPeersInv == Init => PeersInv
<1> SUFFICES ASSUME Init PROVE PeersInv
  OBVIOUS
<1>1. Registered = {}
  BY DEF Init, Registered, Elements
<1>2. FatherInv /\ PendingInv /\ CheckInv
  BY <1>1 DEF Init, FatherInv, PendingInv, CheckInv, ResetIsPending
<1> QED BY <1>2, InitInv DEF PeersInv

\* ... and is kept by every step.
LEMMA StepPeersInv == PeersInv /\ [Next]_vars => PeersInv'
<1> SUFFICES ASSUME PeersInv, [Next]_vars PROVE PeersInv'
  OBVIOUS
<1>1. TableInv /\ FatherInv /\ PendingInv /\ CheckInv
  BY DEF PeersInv
<1>2. TableInv' /\ CheckInv'
  BY <1>1, StepInv, StepKeepsCheck
<1>3. FatherInv' /\ PendingInv'
  <2>1. CASE Harmless
    BY <1>1, <2>1, HarmlessKeepsFather, HarmlessKeepsPending
  <2>2. ASSUME NEW p \in Peers, NEW e \in Slots, Adds(p, e), GetEndpoint(p.id) = {}
        PROVE  FatherInv' /\ PendingInv'
    BY <1>1, <2>2, AddsKeepsFather, AddsKeepsPending
  <2> QED BY <1>1, <2>1, <2>2, StepIs
<1> QED BY <1>2, <1>3 DEF PeersInv

\* The inductive invariant holds in every reachable state.
THEOREM PeersInvariant == Spec => []PeersInv
BY InitPeersInv, StepPeersInv, PTL DEF Spec

\* The node's state has its types, and tables refer to living endpoints under
\* the last ids of their domains.
THEOREM TypeCorrect == Spec => []TypeOK
<1>1. PeersInv => TypeOK
  BY DEF PeersInv, TableInv
<1> QED BY <1>1, PeersInvariant, PTL

\* No id has two owners among children and brothers.
THEOREM DomainsNeverMeet == Spec => []DomainsDisjoint
<1>1. PeersInv => DomainsDisjoint
  BY InvDisjoint DEF PeersInv
<1> QED BY <1>1, PeersInvariant, PTL

\* find_child finds the owner of an id, and nobody if it has none.
THEOREM LookupFindsOwner == Spec => []FindsOwner
<1>1. PeersInv => FindsOwner
  BY InvFindsOwner DEF PeersInv
<1> QED BY <1>1, PeersInvariant, PTL

\* send_msg hands a message for a registered peer to that peer.
THEOREM RoutesDirectly == Spec => []DirectRoute
<1>1. PeersInv => DirectRoute
  BY InvDirectRoute DEF PeersInv
<1> QED BY <1>1, PeersInvariant, PTL

\* An endpoint that was reset stays on the list until it is taken out.
THEOREM ResetsAreChecked == Spec => []ResetIsPending
<1>1. PeersInv => ResetIsPending
  BY DEF PeersInv, CheckInv
<1> QED BY <1>1, PeersInvariant, PTL

\* The check removes nothing that is available.
THEOREM AvailableStay == Spec => KeepsAvailable
<1>1. PeersInv /\ [Next]_vars
        => [checked \ checked' # {} /\ ~Hit({"reused"}) =>
              \A f \in Registered : Available(f) => f \in Registered']_vars
  BY StepKeepsAvailable DEF PeersInv
<1> QED BY <1>1, PeersInvariant, PTL DEF Spec, KeepsAvailable

\* A registration is refused for a conflict only where there is one.
THEOREM RefusalsJustified == Spec => RefusalJustified
<1>1. PeersInv /\ [Next]_vars
        => [ret' = "MASK_CONFLICT" =>
              \A p \in Peers : RegReq(p) =>
                \/ p.width >= SelfWidth /\ IsChild(p.id)
                \/ \E e \in Registered : Meet(p, ep[e])]_vars
  BY RefusedForAReason DEF PeersInv
<1> QED BY <1>1, PeersInvariant, PTL DEF Spec, RefusalJustified
=============================================================================
