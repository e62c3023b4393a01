--------------------------- MODULE ForwardingProofs ---------------------------
(***************************************************************************)
(* Type correctness of the messages in a tree of nodes, that a request has    *)
(* one fate, and that none comes back to a node it has left: for every tree  *)
(* with disjoint brothers, however many nodes, messages, failed pushes and    *)
(* broken links.                                                           *)
(***************************************************************************)
EXTENDS Forwarding, FiniteSetTheorems, TLAPS

-----------------------------------------------------------------------------
\* Nodes that may have an endpoint for each other.
Related(n, p) == Father[n] = p \/ Father[p] = n \/ Father[n] = Father[p]

\* A request m on the way from n to p: either p is responsible for its target, and it has not
\* been below p, or it goes up, because it is for nobody below n, where it has been so far.
OnWay(n, p, m) ==
  \/ m.to \in Domain[p] /\ ToSet(m.router) \cap Domain[p] = {}
  \/ Father[n] = p /\ m.to \notin Domain[n] /\ ToSet(m.router) \subseteq Domain[n]

\* A request for t that n has got or made, and which has been at the nodes R.
AtNode(n, t, R) ==
  \/ t \notin Domain[n] /\ R \subseteq Domain[n]
  \/ t \in Domain[n] /\ \A h \in Nodes : Father[h] = n /\ t \in Domain[h] => R \cap Domain[h] = {}

\* Only brothers are introduced to each other.
Fine(l, m) ==
  /\ m.cmd = "req" => m.id \in 1 .. MaxSends /\ OnWay(l[1], l[2], m)
  /\ m.cmd # "req" => m.router = <<>>
  /\ m.cmd = "syn" => m.to \in Nodes /\ Father[m.to] = Father[l[2]]

Network == [Pairs -> Seq(Messages)]
NetFine(q) == q \in Network /\ \A l \in Pairs : \A i \in DOMAIN q[l] : Fine(l, q[l][i])

PeersFine == \A n \in Nodes : \A p \in peers[n] : p # n /\ Related(n, p)
MetFine   == \A s \in met : \A a, b \in s : Father[a] = Father[b]

Is(m, id) == m.cmd = "req" /\ m.id = id
No(q, id) == \A l \in Pairs : \A i \in DOMAIN q[l] : ~Is(q[l][i], id)
Single(q, id) ==
  \A l, k \in Pairs : \A i \in DOMAIN q[l], j \in DOMAIN q[k] :
    Is(q[l][i], id) /\ Is(q[k][j], id) => l = k /\ i = j

\* OneFate, of any network, and nothing of what has not been sent yet.
FatesFine(q, f, s) ==
  \A id \in 1 .. MaxSends :
    /\ Single(q, id)
    /\ f[id] # <<>> => No(q, id) /\ Len(f[id]) = 1
    /\ id > s => No(q, id) /\ f[id] = <<>>

-----------------------------------------------------------------------------
\* Sequences and networks.
LEMMA RemoveAtFields ==
  ASSUME NEW S, NEW s \in Seq(S), NEW i \in DOMAIN s
  PROVE  /\ RemoveAt(s, i) \in Seq(S)
         /\ DOMAIN RemoveAt(s, i) = 1 .. Len(s) - 1
         /\ \A j \in 1 .. Len(s) - 1 : RemoveAt(s, i)[j] = IF j < i THEN s[j] ELSE s[j + 1]
<1> DEFINE a == SubSeq(s, 1, i - 1)
           b == SubSeq(s, i + 1, Len(s))
<1>1. i \in 1 .. Len(s) /\ Len(s) \in Nat
  OBVIOUS
<1>2. a \in Seq(S) /\ Len(a) = i - 1 /\ \A j \in 1 .. i - 1 : a[j] = s[j]
  BY <1>1
<1>3. b \in Seq(S) /\ Len(b) = Len(s) - i /\ \A j \in 1 .. Len(s) - i : b[j] = s[j + i]
  BY <1>1
<1>4. RemoveAt(s, i) = a \o b
  BY DEF RemoveAt
<1> HIDE DEF a, b
<1>5. /\ a \o b \in Seq(S) /\ Len(a \o b) = Len(s) - 1
      /\ \A j \in 1 .. Len(s) - 1 : (a \o b)[j] = IF j <= Len(a) THEN a[j] ELSE b[j - Len(a)]
  <2>1. a \in Seq(S) /\ b \in Seq(S) /\ Len(a) + Len(b) = Len(s) - 1
    BY <1>1, <1>2, <1>3
  <2>2. /\ a \o b \in Seq(S) /\ Len(a \o b) = Len(a) + Len(b)
        /\ \A j \in 1 .. Len(a) + Len(b) : (a \o b)[j] = IF j <= Len(a) THEN a[j] ELSE b[j - Len(a)]
    BY <2>1
  <2> QED BY <2>1, <2>2
<1>6. DOMAIN (a \o b) = 1 .. Len(s) - 1
  BY <1>5
<1>7. ASSUME NEW j \in 1 .. Len(s) - 1
      PROVE  (a \o b)[j] = IF j < i THEN s[j] ELSE s[j + 1]
  <2>1. CASE j < i
    <3>1. j \in 1 .. i - 1 /\ j <= Len(a)
      BY <1>1, <1>2, <2>1
    <3> QED BY <1>2, <1>5, <2>1, <3>1
  <2>2. CASE ~(j < i)
    <3>1. j - (i - 1) \in 1 .. Len(s) - i /\ ~(j <= Len(a)) /\ j - (i - 1) + i = j + 1
      BY <1>1, <1>2, <2>2
    <3> QED BY <1>2, <1>3, <1>5, <2>2, <3>1
  <2> QED BY <2>1, <2>2
<1> QED BY <1>4, <1>5, <1>6, <1>7

LEMMA AppendFields ==
  ASSUME NEW S, NEW s \in Seq(S), NEW x \in S
  PROVE  /\ Append(s, x) \in Seq(S)
         /\ DOMAIN Append(s, x) = 1 .. Len(s) + 1 /\ DOMAIN s = 1 .. Len(s) /\ Len(s) \in Nat
         /\ \A j \in DOMAIN s : Append(s, x)[j] = s[j]
         /\ Append(s, x)[Len(s) + 1] = x
  OBVIOUS

LEMMA AppendToSet ==
  ASSUME NEW S, NEW s \in Seq(S), NEW x \in S
  PROVE  ToSet(Append(s, x)) = ToSet(s) \cup {x}
<1>1. /\ DOMAIN Append(s, x) = DOMAIN s \cup {Len(s) + 1}
      /\ \A j \in DOMAIN s : Append(s, x)[j] = s[j]
      /\ Append(s, x)[Len(s) + 1] = x /\ Len(s) + 1 \notin DOMAIN s
  BY AppendFields
<1> HIDE DEF ToSet
<1>2. ASSUME NEW y \in ToSet(Append(s, x)) PROVE y \in ToSet(s) \cup {x}
  <2>1. PICK j \in DOMAIN Append(s, x) : y = Append(s, x)[j]
    BY <1>2 DEF ToSet
  <2> QED BY <1>1, <2>1 DEF ToSet
<1>3. ASSUME NEW y \in ToSet(s) PROVE y \in ToSet(Append(s, x))
  <2>1. PICK j \in DOMAIN s : y = s[j]
    BY <1>3 DEF ToSet
  <2>2. j \in DOMAIN Append(s, x) /\ y = Append(s, x)[j]
    BY <1>1, <2>1
  <2> QED BY <2>2 DEF ToSet
<1>4. x \in ToSet(Append(s, x))
  BY <1>1 DEF ToSet
<1> QED BY <1>2, <1>3, <1>4

\* One more message on a link, and the message i off a link.
Plus(q, l, x) == [q EXCEPT ![l] = Append(q[l], x)]
Minus(q, l, i) == [q EXCEPT ![l] = RemoveAt(q[l], i)]

\* Every message of r is one of q, and different ones are different there.
LEMMA PlusPlaces ==
  ASSUME NEW q \in Network, NEW l \in Pairs, NEW x \in Messages
  PROVE  /\ Plus(q, l, x) \in Network
         /\ \A k \in Pairs : \A i \in DOMAIN Plus(q, l, x)[k] :
              \/ i \in DOMAIN q[k] /\ Plus(q, l, x)[k][i] = q[k][i]
              \/ k = l /\ i = Len(q[l]) + 1 /\ Plus(q, l, x)[k][i] = x
<1>1. q[l] \in Seq(Messages)
  BY DEF Network
<1>2. /\ Append(q[l], x) \in Seq(Messages)
      /\ DOMAIN Append(q[l], x) = 1 .. Len(q[l]) + 1 /\ DOMAIN q[l] = 1 .. Len(q[l]) /\ Len(q[l]) \in Nat
      /\ \A j \in DOMAIN q[l] : Append(q[l], x)[j] = q[l][j]
      /\ Append(q[l], x)[Len(q[l]) + 1] = x
  BY <1>1, AppendFields
<1>3. \A k \in Pairs : Plus(q, l, x)[k] = IF k = l THEN Append(q[l], x) ELSE q[k]
  BY DEF Plus, Network
<1>4. Plus(q, l, x) \in Network
  BY <1>2 DEF Plus, Network
<1>5. \A j \in 1 .. Len(q[l]) + 1 : j \in 1 .. Len(q[l]) \/ j = Len(q[l]) + 1
  BY <1>2
<1> QED BY <1>2, <1>3, <1>4, <1>5

LEMMA PlusFine ==
  ASSUME NEW q, NetFine(q), NEW l \in Pairs, NEW x \in Messages, Fine(l, x)
  PROVE  NetFine(Plus(q, l, x))
  BY PlusPlaces DEF NetFine

\* A message that is no request id changes nothing about id, ...
LEMMA PlusOther ==
  ASSUME NEW q \in Network, NEW l \in Pairs, NEW x \in Messages, NEW id, ~Is(x, id)
  PROVE  /\ No(q, id) => No(Plus(q, l, x), id)
         /\ Single(q, id) => Single(Plus(q, l, x), id)
  BY PlusPlaces DEF No, Single

\* ... and the only request id is single.
LEMMA PlusFirst ==
  ASSUME NEW q \in Network, NEW l \in Pairs, NEW x \in Messages, NEW id, No(q, id)
  PROVE  Single(Plus(q, l, x), id)
  BY PlusPlaces DEF No, Single

LEMMA MinusPlaces ==
  ASSUME NEW q \in Network, NEW l \in Pairs, NEW i \in DOMAIN q[l]
  PROVE  /\ Minus(q, l, i) \in Network
         /\ \A k \in Pairs \ {l} : Minus(q, l, i)[k] = q[k]
         /\ DOMAIN Minus(q, l, i)[l] \subseteq Nat
         /\ \A j \in DOMAIN Minus(q, l, i)[l] :
              \/ j < i /\ j \in DOMAIN q[l] /\ Minus(q, l, i)[l][j] = q[l][j]
              \/ ~(j < i) /\ j + 1 \in DOMAIN q[l] /\ Minus(q, l, i)[l][j] = q[l][j + 1]
<1>1. q[l] \in Seq(Messages)
  BY DEF Network
<1>2. /\ RemoveAt(q[l], i) \in Seq(Messages)
      /\ DOMAIN RemoveAt(q[l], i) = 1 .. Len(q[l]) - 1
      /\ \A j \in 1 .. Len(q[l]) - 1 : RemoveAt(q[l], i)[j] = IF j < i THEN q[l][j] ELSE q[l][j + 1]
  BY <1>1, RemoveAtFields
<1>3. \A k \in Pairs : Minus(q, l, i)[k] = IF k = l THEN RemoveAt(q[l], i) ELSE q[k]
  BY DEF Minus, Network
<1>4. Minus(q, l, i) \in Network
  BY <1>2 DEF Minus, Network
<1>5. DOMAIN q[l] = 1 .. Len(q[l]) /\ Len(q[l]) \in Nat
  BY <1>1
<1> DEFINE r == Minus(q, l, i)
<1>6. r[l] = RemoveAt(q[l], i) /\ \A k \in Pairs \ {l} : r[k] = q[k]
  BY <1>3
<1> HIDE DEF r
<1>7. DOMAIN r[l] = 1 .. Len(q[l]) - 1 /\ DOMAIN r[l] \subseteq Nat
  BY <1>2, <1>5, <1>6
<1>8. ASSUME NEW j \in DOMAIN r[l]
      PROVE  \/ j < i /\ j \in DOMAIN q[l] /\ r[l][j] = q[l][j]
             \/ ~(j < i) /\ j + 1 \in DOMAIN q[l] /\ r[l][j] = q[l][j + 1]
  <2>1. j \in 1 .. Len(q[l]) - 1 /\ j \in DOMAIN q[l] /\ j + 1 \in DOMAIN q[l]
    BY <1>5, <1>7
  <2>2. r[l][j] = IF j < i THEN q[l][j] ELSE q[l][j + 1]
    BY <1>2, <1>6, <2>1
  <2> QED BY <2>1, <2>2
<1> QED BY <1>4, <1>6, <1>7, <1>8 DEF r

LEMMA MinusFine ==
  ASSUME NEW q, NetFine(q), NEW l \in Pairs, NEW i \in DOMAIN q[l]
  PROVE  NetFine(Minus(q, l, i))
<1> DEFINE r == Minus(q, l, i)
<1>1. /\ r \in Network
      /\ \A k \in Pairs \ {l} : r[k] = q[k]
      /\ \A j \in DOMAIN r[l] :
              \/ j \in DOMAIN q[l] /\ r[l][j] = q[l][j]
              \/ j + 1 \in DOMAIN q[l] /\ r[l][j] = q[l][j + 1]
  BY MinusPlaces DEF NetFine
<1> HIDE DEF r
<1>2. ASSUME NEW k \in Pairs, NEW j \in DOMAIN r[k] PROVE Fine(k, r[k][j])
  BY <1>1 DEF NetFine
<1> QED BY <1>1, <1>2 DEF NetFine, r

\* A single request that is taken off is gone; others are as before.
LEMMA MinusSingle ==
  ASSUME NEW q \in Network, NEW l \in Pairs, NEW i \in DOMAIN q[l], NEW id, Single(q, id)
  PROVE  /\ Single(Minus(q, l, i), id)
         /\ Is(q[l][i], id) => No(Minus(q, l, i), id)
         /\ No(q, id) => No(Minus(q, l, i), id)
<1> DEFINE r == Minus(q, l, i)
           F(k, j) == IF k = l /\ ~(j < i) THEN j + 1 ELSE j
<1>0. /\ \A k \in Pairs \ {l} : r[k] = q[k]
      /\ DOMAIN r[l] \subseteq Nat
      /\ \A j \in DOMAIN r[l] :
              \/ j < i /\ j \in DOMAIN q[l] /\ r[l][j] = q[l][j]
              \/ ~(j < i) /\ j + 1 \in DOMAIN q[l] /\ r[l][j] = q[l][j + 1]
  BY MinusPlaces
<1>1. \A k \in Pairs : \A j \in DOMAIN r[k] : F(k, j) \in DOMAIN q[k] /\ r[k][j] = q[k][F(k, j)]
  BY <1>0
<1>2. i \in Nat
  <2>1. q[l] \in Seq(Messages)
    BY DEF Network
  <2> QED BY <2>1
<1>3. \A j, h \in DOMAIN r[l] : F(l, j) = F(l, h) => j = h
  BY <1>0, <1>2
<1>4. \A j \in DOMAIN r[l] : F(l, j) # i
  BY <1>0, <1>2
<1>5. \A k \in Pairs \ {l} : \A j \in DOMAIN r[k] : F(k, j) = j
  OBVIOUS
<1> HIDE DEF r, F
<1>6. Single(r, id)
  BY <1>1, <1>3, <1>5 DEF Single
<1>7. ASSUME Is(q[l][i], id) PROVE No(r, id)
  BY <1>1, <1>4, <1>7 DEF Single, No
<1>8. No(q, id) => No(r, id)
  BY <1>1 DEF No
<1> QED BY <1>6, <1>7, <1>8 DEF r

\* Two nodes that lose what is under way between them lose nothing else.
LEMMA CutFine ==
  ASSUME NEW q \in Network, NEW n \in Nodes, NEW p \in Nodes, n # p
  PROVE  /\ Cut(q, n, p) \in Network
         /\ NetFine(q) => NetFine(Cut(q, n, p))
         /\ \A id : (No(q, id) => No(Cut(q, n, p), id)) /\ (Single(q, id) => Single(Cut(q, n, p), id))
<1> DEFINE r == Cut(q, n, p)
<1>1. <<n, p>> \in Pairs /\ <<p, n>> \in Pairs
  BY DEF Pairs
<1>2. r \in Network /\ \A k \in Pairs : r[k] = <<>> \/ r[k] = q[k]
  <2>1. <<>> \in Seq(Messages)
    OBVIOUS
  <2> DEFINE e == [q EXCEPT ![<<n, p>>] = <<>>]
  <2>2. e \in Network /\ \A k \in Pairs : e[k] = <<>> \/ e[k] = q[k]
    BY <2>1 DEF Network
  <2>3. r = [e EXCEPT ![<<p, n>>] = <<>>]
    BY DEF Cut
  <2> HIDE DEF e, r
  <2> QED BY <2>1, <2>2, <2>3 DEF Network
<1>3. DOMAIN <<>> = {}
  OBVIOUS
<1> HIDE DEF r
<1>4. \A k \in Pairs : \A i \in DOMAIN r[k] : i \in DOMAIN q[k] /\ r[k][i] = q[k][i]
  BY <1>2, <1>3
<1>5. NetFine(q) => NetFine(r)
  BY <1>2, <1>4 DEF NetFine
<1>6. \A id : (No(q, id) => No(r, id)) /\ (Single(q, id) => Single(r, id))
  BY <1>4 DEF No, Single
<1> QED BY <1>2, <1>5, <1>6 DEF r

-----------------------------------------------------------------------------
\* The tree: what Related nodes are to each other.
LEMMA Tree ==
  ASSUME NEW n \in Nodes
  PROVE  /\ n \in Domain[n] /\ n \in Ids /\ n # None /\ None \notin Nodes
         /\ Father[n] \in Nodes \cup {None}
         /\ Father[n] # None => Domain[n] \subseteq Domain[Father[n]] /\ Father[n] \notin Domain[n]
         /\ \A p \in Nodes : p # n /\ Father[p] = Father[n] => Domain[p] \cap Domain[n] = {}
         /\ \A p \in Nodes : Father[p] = n => Domain[p] \subseteq Domain[n] /\ n \notin Domain[p]
  BY TreeAssumption

\* node::send_msg goes down to a child, up to the father, or across to a brother.
Down(n, t, p)   == Father[p] = n /\ t \in Domain[n] /\ t \in Domain[p]
Upward(n, t, p) == Father[n] = p /\ t \notin Domain[n]
Across(n, t, p) == Father[p] = Father[n] /\ t \notin Domain[n] /\ t \in Domain[p]

LEMMA NextHopCases ==
  ASSUME TypeOK, PeersFine, NEW n \in Nodes, NEW t \in Ids, NextHop(n, t) # None
  PROVE  LET p == NextHop(n, t) IN
         /\ p \in peers[n] /\ p \in Nodes /\ p # n
         /\ Down(n, t, p) \/ Upward(n, t, p) \/ Across(n, t, p)
<1> DEFINE p == NextHop(n, t)
<1>1. peers[n] \subseteq Nodes /\ None \notin Nodes /\ t # None
  BY TreeAssumption DEF TypeOK
<1>2. ASSUME NEW q \in peers[n] PROVE q \in Nodes /\ q # n /\ Related(n, q)
  BY <1>1 DEF PeersFine
<1>3. FatherOf(n) # None => FatherOf(n) = Father[n] /\ Father[n] \in peers[n]
  BY DEF FatherOf, HasFather
<1>4. ASSUME NEW among, Owner(n, t, among) # None
      PROVE  Owner(n, t, among) \in among /\ t \in Domain[Owner(n, t, among)]
  BY <1>4 DEF Owner
<1>5. CASE t = FatherOf(n)
  <2>1. p = Father[n] /\ p \in peers[n] /\ t = Father[n]
    BY <1>1, <1>3, <1>5 DEF NextHop
  <2>2. t \notin Domain[n]
    BY <1>1, <2>1, Tree
  <2> QED BY <1>2, <2>1, <2>2 DEF Upward
<1>6. CASE t # FatherOf(n) /\ t \in Domain[n]
  <2>1. p = Owner(n, t, Children(n))
    BY <1>6 DEF NextHop, IsChild
  <2>2. p \in Children(n) /\ t \in Domain[p]
    BY <1>4, <2>1
  <2>3. p \in peers[n] /\ p \in Domain[n]
    BY <2>2 DEF Children
  <2> HIDE DEF p
  <2>4. Father[p] = n
    BY <1>2, <2>3, Tree DEF Related
  <2> QED BY <1>2, <1>6, <2>2, <2>3, <2>4 DEF Down, p
<1>7. CASE t # FatherOf(n) /\ t \notin Domain[n]
  <2>1. CASE p = Owner(n, t, Brothers(n))
    <3>1. p \in Brothers(n) /\ t \in Domain[p]
      BY <1>4, <2>1
    <3>2. p \in peers[n] /\ p \notin Domain[n] /\ p # Father[n]
      BY <3>1 DEF Brothers
    <3> HIDE DEF p
    <3>3. Father[p] = Father[n]
      BY <1>2, <3>2, Tree DEF Related
    <3> QED BY <1>2, <1>7, <3>1, <3>2, <3>3 DEF Across, p
  <2>2. CASE p = FatherOf(n)
    <3>1. p = Father[n] /\ p \in peers[n]
      BY <1>3, <2>2
    <3> QED BY <1>2, <1>7, <3>1 DEF Upward
  <2> QED BY <1>7, <2>1, <2>2 DEF NextHop, IsChild
<1> QED BY <1>5, <1>6, <1>7

\* A request goes on from n to p: where it has been, and n, it will not come to again.
LEMMA GoesOn ==
  ASSUME NEW n \in Nodes, NEW p \in Nodes, p # n, NEW m, NEW R, AtNode(n, m.to, R),
         ToSet(m.router) \subseteq R \cup {n},
         Down(n, m.to, p) \/ Upward(n, m.to, p) \/ Across(n, m.to, p)
  PROVE  OnWay(n, p, m)
<1>1. CASE Down(n, m.to, p)
  <2>1. R \cap Domain[p] = {} /\ n \notin Domain[p]
    BY <1>1, Tree DEF AtNode, Down
  <2> QED BY <1>1, <2>1 DEF Down, OnWay
<1>2. CASE Upward(n, m.to, p)
  BY <1>2, Tree DEF Upward, AtNode, OnWay
<1>3. CASE Across(n, m.to, p)
  <2>1. R \subseteq Domain[n] /\ n \in Domain[n] /\ Domain[n] \cap Domain[p] = {}
    BY <1>3, Tree DEF Across, AtNode
  <2> QED BY <1>3, <2>1 DEF Across, OnWay
<1> QED BY <1>1, <1>2, <1>3

\* ... and comes to p.
LEMMA Comes ==
  ASSUME NEW n \in Nodes, NEW p \in Nodes, n # p, NEW m, OnWay(n, p, m)
  PROVE  AtNode(p, m.to, ToSet(m.router)) /\ p \notin ToSet(m.router)
<1> DEFINE R == ToSet(m.router)
<1>1. CASE m.to \in Domain[p] /\ R \cap Domain[p] = {}
  <2>1. \A h \in Nodes : Father[h] = p => R \cap Domain[h] = {}
    BY <1>1, Tree
  <2> QED BY <1>1, <2>1, Tree DEF AtNode
<1>2. CASE Father[n] = p /\ m.to \notin Domain[n] /\ R \subseteq Domain[n]
  <2>1. R \subseteq Domain[p] /\ p \notin R
    BY <1>2, Tree
  <2>2. ASSUME NEW h \in Nodes, Father[h] = p, m.to \in Domain[h] PROVE R \cap Domain[h] = {}
    <3>1. h # n
      BY <1>2, <2>2
    <3>2. Domain[h] \cap Domain[n] = {}
      BY <1>2, <2>2, <3>1, Tree
    <3> QED BY <1>2, <3>2
  <2> QED BY <2>1, <2>2 DEF AtNode
<1> QED BY <1>1, <1>2 DEF OnWay

\* What node::send_msg does to a message and the network.
Pushed(q, n, t, m, r) ==
  LET p == NextHop(n, t) IN
  /\ r.hop = p /\ r.msg \in Messages
  /\ r.msg.cmd = m.cmd /\ r.msg.id = m.id /\ r.msg.to = m.to
  /\ m.cmd = "req" => ToSet(r.msg.router) \subseteq ToSet(m.router) \cup {n}
  /\ m.cmd # "req" => r.msg.router = m.router
  /\ \/ /\ r.ok = TRUE /\ p \in Nodes /\ p # n /\ <<n, p>> \in Pairs
        /\ Down(n, t, p) \/ Upward(n, t, p) \/ Across(n, t, p)
        /\ r.net = Plus(q, <<n, p>>, r.msg)
     \/ r.ok = FALSE /\ r.net = q

LEMMA PushFields ==
  ASSUME TypeOK, PeersFine, NEW q \in Network, NEW n \in Nodes, NEW t \in Ids, NEW m \in Messages,
         NEW fails \in BOOLEAN
  PROVE  Pushed(q, n, t, m, Push(q, n, t, m, fails))
<1> DEFINE r == Push(q, n, t, m, fails)
           p == NextHop(n, t)
           router == IF m.cmd = "req" THEN Append(m.router, n) ELSE m.router
           out == [m EXCEPT !.router = router, !.src = n]
<1>1. m.router \in Seq(Nodes) /\ Append(m.router, n) \in Seq(Nodes)
  BY DEF Messages
<1>2. out \in Messages
  BY <1>1 DEF Messages
<1>3. /\ out.cmd = m.cmd /\ out.id = m.id /\ out.to = m.to
      /\ out.router = router /\ (m.cmd # "req" => router = m.router)
  BY DEF Messages
<1>4. m.cmd = "req" => ToSet(router) = ToSet(m.router) \cup {n}
  BY <1>1, AppendToSet
<1>5. r = IF p = None \/ <<n, p>> \notin links THEN [net |-> q, hop |-> p, msg |-> m, ok |-> FALSE]
          ELSE [net |-> IF fails THEN q ELSE Plus(q, <<n, p>>, out), hop |-> p, msg |-> out, ok |-> ~fails]
  BY DEF Push, Plus, Messages
<1>6. p # None => /\ p \in Nodes /\ p # n /\ <<n, p>> \in Pairs
                  /\ Down(n, t, p) \/ Upward(n, t, p) \/ Across(n, t, p)
  BY NextHopCases DEF Pairs
<1> HIDE DEF r, p, out, router
<1>7. CASE p = None \/ <<n, p>> \notin links
  <2>1. r = [net |-> q, hop |-> p, msg |-> m, ok |-> FALSE]
    BY <1>5, <1>7
  <2> QED BY <2>1 DEF r, p, Pushed
<1>8. CASE ~(p = None \/ <<n, p>> \notin links)
  <2>1. r = [net |-> IF fails THEN q ELSE Plus(q, <<n, p>>, out), hop |-> p, msg |-> out, ok |-> ~fails]
    BY <1>5, <1>8
  <2>2. r.net = IF fails THEN q ELSE Plus(q, <<n, p>>, out)
    BY <2>1
  <2>3. r.hop = p /\ r.msg = out /\ r.ok = ~fails
    BY <2>1
  <2>4. /\ r.hop = p /\ r.msg \in Messages
        /\ r.msg.cmd = m.cmd /\ r.msg.id = m.id /\ r.msg.to = m.to
        /\ m.cmd = "req" => ToSet(r.msg.router) \subseteq ToSet(m.router) \cup {n}
        /\ m.cmd # "req" => r.msg.router = m.router
    BY <1>2, <1>3, <1>4, <2>3
  <2>5. CASE fails = TRUE
    BY <2>2, <2>3, <2>4, <2>5 DEF r, p, Pushed
  <2>6. CASE fails = FALSE
    BY <1>6, <1>8, <2>2, <2>3, <2>4, <2>6 DEF r, p, Pushed
  <2> QED BY <2>5, <2>6
<1> QED BY <1>7, <1>8

-----------------------------------------------------------------------------
\* About request id, r says what q says.
Keeps(q, r, id) == (No(q, id) => No(r, id)) /\ (Single(q, id) => Single(r, id))

LEMMA KeepsTrans ==
  ASSUME NEW q, NEW r, NEW s, NEW id, Keeps(q, r, id), Keeps(r, s, id)
  PROVE  Keeps(q, s, id)
  BY DEF Keeps

\* A request was passed on, or not; nothing else is touched.
PassedOn(q, m, r) ==
  /\ NetFine(r.net)
  /\ \A id : id # m.id => Keeps(q, r.net, id)
  /\ r.ok \in BOOLEAN
  /\ IF r.ok THEN No(q, m.id) => Single(r.net, m.id) ELSE r.net = q

\* No request is touched.
Aside(q, r) == NetFine(r.net) /\ (\A id : Keeps(q, r.net, id)) /\ r.ok \in BOOLEAN

\* A request goes on its way, or through the father if it is for nobody below n.
LEMMA PushRequest ==
  ASSUME TypeOK, PeersFine, NEW q, NetFine(q), NEW n \in Nodes, NEW t \in Ids, NEW m \in Messages,
         m.cmd = "req", m.id \in 1 .. MaxSends, NEW R, AtNode(n, m.to, R),
         ToSet(m.router) \subseteq R \cup {n},
         t = m.to \/ (t = Father[n] /\ m.to \notin Domain[n]),
         NEW fails \in BOOLEAN
  PROVE  PassedOn(q, m, Push(q, n, t, m, fails))
<1> DEFINE r == Push(q, n, t, m, fails)
           p == NextHop(n, t)
<1>0. q \in Network
  BY DEF NetFine
<1>1. /\ r.msg \in Messages /\ r.msg.cmd = m.cmd /\ r.msg.id = m.id /\ r.msg.to = m.to
      /\ ToSet(r.msg.router) \subseteq R \cup {n}
      /\ \/ /\ r.ok = TRUE /\ p \in Nodes /\ p # n /\ <<n, p>> \in Pairs
            /\ Down(n, t, p) \/ Upward(n, t, p) \/ Across(n, t, p)
            /\ r.net = Plus(q, <<n, p>>, r.msg)
         \/ r.ok = FALSE /\ r.net = q
  <2>1. Pushed(q, n, t, m, r)
    BY <1>0, PushFields
  <2> HIDE DEF r
  <2> QED BY <2>1 DEF Pushed
<1> HIDE DEF r, p
<1>2. CASE r.ok = FALSE /\ r.net = q
  BY <1>1, <1>2 DEF PassedOn, Keeps, r
<1>3. CASE /\ r.ok = TRUE /\ p \in Nodes /\ p # n /\ <<n, p>> \in Pairs
           /\ Down(n, t, p) \/ Upward(n, t, p) \/ Across(n, t, p)
           /\ r.net = Plus(q, <<n, p>>, r.msg)
  <2>1. OnWay(n, p, r.msg)
    <3>1. CASE t = m.to
      BY <1>1, <1>3, <3>1, GoesOn
    <3>2. CASE t = Father[n] /\ m.to \notin Domain[n]
      <4>1. Upward(n, t, p)
        <5>1. Father[n] \notin Domain[n]
          BY <3>2, Tree, TreeAssumption
        <5>2. p # n /\ Father[p] = t => t \notin Domain[p]
          BY <1>3, <3>2, Tree, TreeAssumption
        <5> QED BY <1>3, <3>2, <5>1, <5>2 DEF Down, Across
      <4>2. Upward(n, r.msg.to, p)
        BY <1>1, <3>2, <4>1 DEF Upward
      <4> QED BY <1>1, <1>3, <4>2, GoesOn
    <3> QED BY <3>1, <3>2
  <2>2. Fine(<<n, p>>, r.msg)
    BY <1>1, <2>1 DEF Fine
  <2>3. NetFine(r.net)
    BY <1>1, <1>3, <2>2, PlusFine
  <2>4. \A id : id # m.id => Keeps(q, r.net, id)
    BY <1>0, <1>1, <1>3, PlusOther DEF Keeps, Is
  <2>5. No(q, m.id) => Single(r.net, m.id)
    BY <1>0, <1>1, <1>3, PlusFirst
  <2> QED BY <1>3, <2>3, <2>4, <2>5 DEF PassedOn, r
<1> QED BY <1>1, <1>2, <1>3

\* Anything else goes nowhere or to the next hop, and touches no request.
LEMMA PushElse ==
  ASSUME TypeOK, PeersFine, NEW q, NetFine(q), NEW n \in Nodes, NEW t \in Ids, NEW m \in Messages,
         m.cmd # "req", m.router = <<>>,
         m.cmd = "syn" => m.to \in Nodes /\ Father[m.to] = n /\ t \in Domain[n],
         NEW fails \in BOOLEAN
  PROVE  Aside(q, Push(q, n, t, m, fails))
<1> DEFINE r == Push(q, n, t, m, fails)
           p == NextHop(n, t)
<1>0. q \in Network
  BY DEF NetFine
<1>1. /\ r.msg \in Messages /\ r.msg.cmd = m.cmd /\ r.msg.to = m.to /\ r.msg.router = <<>>
      /\ \/ /\ r.ok = TRUE /\ p \in Nodes /\ p # n /\ <<n, p>> \in Pairs
            /\ Down(n, t, p) \/ Upward(n, t, p) \/ Across(n, t, p)
            /\ r.net = Plus(q, <<n, p>>, r.msg)
         \/ r.ok = FALSE /\ r.net = q
  <2>1. Pushed(q, n, t, m, r)
    BY <1>0, PushFields
  <2> HIDE DEF r
  <2> QED BY <2>1 DEF Pushed
<1> HIDE DEF r, p
<1>2. CASE r.ok = FALSE /\ r.net = q
  BY <1>2 DEF Aside, Keeps, r
<1>3. CASE /\ r.ok = TRUE /\ p \in Nodes /\ <<n, p>> \in Pairs
           /\ Down(n, t, p) \/ Upward(n, t, p) \/ Across(n, t, p)
           /\ r.net = Plus(q, <<n, p>>, r.msg)
  <2>1. m.cmd = "syn" => Father[p] = n
    BY <1>3 DEF Upward, Across, Down
  <2>2. Fine(<<n, p>>, r.msg)
    BY <1>1, <2>1 DEF Fine
  <2>3. NetFine(r.net)
    BY <1>1, <1>3, <2>2, PlusFine
  <2>4. \A id : Keeps(q, r.net, id)
    BY <1>0, <1>1, <1>3, PlusOther DEF Keeps, Is
  <2> QED BY <1>3, <2>3, <2>4 DEF Aside, r
<1> QED BY <1>1, <1>2, <1>3

\* send_transfer_rsp touches no request.
LEMMA NoticeFine ==
  ASSUME TypeOK, PeersFine, NEW q, NetFine(q), NEW n \in Nodes, NEW m \in Messages,
         NEW ret \in {"ok", "failed"}, NEW fails \in BOOLEAN
  PROVE  Aside(q, Notice(q, n, m, ret, fails))
<1> DEFINE rsp == [m EXCEPT !.cmd = "rsp", !.from = n, !.to = m.from, !.router = <<>>, !.ret = ret, !.ask = FALSE]
<1>1. <<>> \in Seq(Nodes) /\ m.from \in Ids
  BY TreeAssumption DEF Messages
<1>2. rsp \in Messages /\ rsp.cmd = "rsp" /\ rsp.router = <<>>
  BY <1>1 DEF Messages
<1>3. Notice(q, n, m, ret, fails) = IF m.from = n THEN [net |-> q, ok |-> FALSE] ELSE Push(q, n, m.from, rsp, fails)
  BY DEF Notice
<1> HIDE DEF rsp
<1>4. CASE m.from = n
  <2>1. Notice(q, n, m, ret, fails) = [net |-> q, ok |-> FALSE]
    BY <1>3, <1>4
  <2> QED BY <2>1 DEF Aside, Keeps
<1>5. CASE m.from # n
  <2>1. Notice(q, n, m, ret, fails) = Push(q, n, m.from, rsp, fails)
    BY <1>3, <1>5
  <2> QED BY <1>1, <1>2, <2>1, PushElse
<1> QED BY <1>4, <1>5

\* What a handler of request m may do: pass it on, or let it end here.
Handled(q, m, h) ==
  /\ NetFine(h.net)
  /\ \A id : id # m.id => Keeps(q, h.net, id)
  /\ h.ok \in BOOLEAN
  /\ \/ h.fate = <<>> /\ Single(h.net, m.id)
     \/ h.fate \in {<<"failed">>, <<"got">>} /\ No(h.net, m.id)

LEMMA ForwardHandles ==
  ASSUME TypeOK, PeersFine, NEW q, NetFine(q), NEW n \in Nodes, NEW m \in Messages, m.cmd = "req",
         m.id \in 1 .. MaxSends, AtNode(n, m.to, ToSet(m.router)), No(q, m.id),
         NEW fails \in SUBSET Failures
  PROVE  Handled(q, m, Forward(q, n, m, fails))
<1> DEFINE first == Push(q, n, m.to, m, "first" \in fails)
           R == ToSet(m.router)
<1>0. q \in Network /\ m.to \in Ids /\ m.src \in Nodes /\ Nodes \subseteq Ids /\ m.ask \in BOOLEAN
      /\ ("first" \in fails) \in BOOLEAN /\ ("again" \in fails) \in BOOLEAN
      /\ ("notice" \in fails) \in BOOLEAN
  BY TreeAssumption DEF NetFine, Messages
<1>1. /\ NetFine(first.net) /\ first.ok \in BOOLEAN
      /\ \A id : id # m.id => Keeps(q, first.net, id)
      /\ IF first.ok THEN Single(first.net, m.id) ELSE first.net = q
  <2>1. R \subseteq R \cup {n}
    OBVIOUS
  <2>2. PassedOn(q, m, first)
    BY <1>0, <2>1, PushRequest
  <2> HIDE DEF first
  <2> QED BY <2>2 DEF PassedOn
<1>2. /\ first.hop = NextHop(n, m.to) /\ first.msg \in Messages
      /\ first.msg.cmd = "req" /\ first.msg.id = m.id /\ first.msg.to = m.to
      /\ ToSet(first.msg.router) \subseteq R \cup {n}
      /\ first.ok => \/ Down(n, m.to, first.hop) \/ Upward(n, m.to, first.hop)
                     \/ Across(n, m.to, first.hop)
      /\ first.ok => first.hop \in Nodes
  <2>1. Pushed(q, n, m.to, m, first)
    BY <1>0, PushFields
  <2> HIDE DEF first
  <2> QED BY <2>1 DEF Pushed
<1>3. CASE first.ok /\ IsChild(n, m.to)
  <2>1. Down(n, m.to, first.hop)
    BY <1>2, <1>3 DEF IsChild, Upward, Across
  <2>2. CASE Introduces(n, m, first.hop)
    <3> DEFINE x == Syn(n, first.hop)
               s == Push(first.net, n, m.src, x, "notice" \in fails)
    <3>1. m.src \in Domain[n]
      BY <2>2 DEF Introduces, IsChild
    <3>2. x \in Messages /\ x.cmd = "syn" /\ x.to = first.hop /\ x.router = <<>>
      <4>1. <<>> \in Seq(Nodes) /\ 0 \in 0 .. MaxSends /\ first.hop \in Ids
        BY <1>0, <1>2, <1>3, BoundAssumption
      <4> QED BY <4>1 DEF Syn, Messages
    <3>3. Forward(q, n, m, fails) = Done(s.net, s.ok, <<>>)
      BY <1>3, <2>2 DEF Forward
    <3> HIDE DEF first, x
    <3>4. NetFine(s.net) /\ (\A id : Keeps(first.net, s.net, id)) /\ s.ok \in BOOLEAN
      <4>1. first.hop \in Nodes /\ Father[first.hop] = n /\ m.src \in Ids
        BY <1>0, <1>2, <1>3, <2>1 DEF Down
      <4>2. Aside(first.net, s)
        BY <1>0, <1>1, <3>1, <3>2, <4>1, PushElse
      <4> QED BY <4>2 DEF Aside
    <3> HIDE DEF s
    <3>5. Single(s.net, m.id) /\ \A id : id # m.id => Keeps(q, s.net, id)
      BY <1>1, <1>3, <3>4 DEF Keeps
    <3> QED BY <3>3, <3>4, <3>5 DEF Handled, Done
  <2>3. CASE ~Introduces(n, m, first.hop)
    <3>1. Forward(q, n, m, fails) = Done(first.net, TRUE, <<>>)
      BY <1>3, <2>3 DEF Forward
    <3> HIDE DEF first
    <3> QED BY <1>1, <1>3, <3>1 DEF Handled, Done
  <2> QED BY <2>2, <2>3
<1>4. CASE ~(first.ok /\ IsChild(n, m.to))
  <2> DEFINE last == Resend(q, n, m, first, "again" \in fails)
             ret == IF last.ok THEN "ok" ELSE "failed"
             rsp == Notice(last.net, n, last.msg, ret, "notice" \in fails)
  <2>1. Forward(q, n, m, fails) =
          IF last.ok /\ ~m.ask THEN Done(last.net, TRUE, <<>>)
          ELSE Done(rsp.net, last.ok /\ rsp.ok, IF last.ok THEN <<>> ELSE <<"failed">>)
    BY <1>4 DEF Forward
  <2>2. \/ last = first
        \/ /\ ~first.ok /\ HasFather(n) /\ m.to \notin Domain[n]
           /\ last = Push(first.net, n, Father[n], first.msg, "again" \in fails)
    BY DEF Resend, IsBrother
  <2> HIDE DEF first, last
  <2>3. /\ NetFine(last.net) /\ last.ok \in BOOLEAN /\ last.msg \in Messages
        /\ \A id : id # m.id => Keeps(q, last.net, id)
        /\ IF last.ok THEN Single(last.net, m.id) ELSE last.net = q
    <3>1. CASE last = first
      BY <1>1, <1>2, <3>1
    <3>2. CASE /\ ~first.ok /\ HasFather(n) /\ m.to \notin Domain[n]
               /\ last = Push(first.net, n, Father[n], first.msg, "again" \in fails)
      <4>1. Father[n] \in Ids
        BY <3>2, <1>0 DEF HasFather, TypeOK
      <4>2. first.net = q
        BY <1>1, <3>2
      <4>3. last.msg \in Messages
        <5>1. Pushed(q, n, Father[n], first.msg, last)
          BY <1>0, <1>2, <3>2, <4>1, <4>2, PushFields
        <5> QED BY <5>1 DEF Pushed
      <4>4. PassedOn(q, first.msg, last)
        <5>1. AtNode(n, first.msg.to, R)
          BY <1>2
        <5> QED BY <1>0, <1>2, <3>2, <4>1, <4>2, <5>1, PushRequest
      <4> QED BY <1>2, <4>3, <4>4 DEF PassedOn
    <3> QED BY <2>2, <3>1, <3>2
  <2>4. NetFine(rsp.net) /\ (\A id : Keeps(last.net, rsp.net, id)) /\ rsp.ok \in BOOLEAN
    <3>1. ret \in {"ok", "failed"}
      OBVIOUS
    <3> HIDE DEF ret
    <3>2. Aside(last.net, rsp)
      BY <1>0, <2>3, <3>1, NoticeFine
    <3> HIDE DEF rsp
    <3> QED BY <3>2 DEF Aside
  <2> HIDE DEF rsp, ret
  <2>5. /\ last.ok => Single(rsp.net, m.id)
        /\ ~last.ok => No(rsp.net, m.id)
        /\ \A id : id # m.id => Keeps(q, rsp.net, id)
    BY <2>3, <2>4 DEF Keeps
  <2>6. CASE last.ok /\ ~m.ask
    <3>1. Forward(q, n, m, fails) = Done(last.net, TRUE, <<>>)
      BY <2>1, <2>6
    <3> QED BY <2>3, <2>6, <3>1 DEF Handled, Done
  <2>7. CASE last.ok /\ m.ask
    <3>1. Forward(q, n, m, fails) = Done(rsp.net, last.ok /\ rsp.ok, <<>>)
      BY <2>1, <2>7
    <3> QED BY <2>4, <2>5, <2>7, <3>1 DEF Handled, Done
  <2>8. CASE ~last.ok
    <3>1. Forward(q, n, m, fails) = Done(rsp.net, last.ok /\ rsp.ok, <<"failed">>)
      BY <2>1, <2>8
    <3> QED BY <2>4, <2>5, <2>8, <3>1 DEF Handled, Done
  <2> QED BY <1>0, <2>6, <2>7, <2>8
<1> QED BY <1>3, <1>4

\* on_recv_data_transfer_req.
LEMMA TransferHandles ==
  ASSUME TypeOK, PeersFine, NEW q, NetFine(q), NEW n \in Nodes, NEW m \in Messages, m.cmd = "req",
         m.id \in 1 .. MaxSends, AtNode(n, m.to, ToSet(m.router)), No(q, m.id),
         NEW fails \in SUBSET Failures
  PROVE  Handled(q, m, TransferReq(q, n, m, fails))
<1> DEFINE note == "notice" \in fails
           got == Notice(q, n, m, "ok", note)
           out == Notice(q, n, m, "failed", note)
<1>0. note \in BOOLEAN /\ m.ask \in BOOLEAN
  BY DEF Messages
<1> HIDE DEF note
<1>1. Aside(q, got) /\ Aside(q, out)
  BY <1>0, NoticeFine
<1> HIDE DEF got, out
<1>2. CASE m.to = n /\ m.ask
  <2>1. TransferReq(q, n, m, fails) = Done(got.net, got.ok, <<"got">>)
    BY <1>2 DEF TransferReq, got, note
  <2> QED BY <1>1, <2>1 DEF Aside, Handled, Done, Keeps
<1>3. CASE m.to = n /\ ~m.ask
  <2>1. TransferReq(q, n, m, fails) = Done(q, TRUE, <<"got">>)
    BY <1>3 DEF TransferReq, got, note
  <2> QED BY <2>1 DEF Handled, Done, Keeps
<1>4. CASE m.to # n /\ Len(m.router) >= Ttl[n]
  <2>1. TransferReq(q, n, m, fails) = Done(out.net, FALSE, <<"failed">>)
    BY <1>4 DEF TransferReq, out, note
  <2> QED BY <1>1, <2>1 DEF Aside, Handled, Done, Keeps
<1>5. CASE m.to # n /\ ~(Len(m.router) >= Ttl[n])
  <2>1. TransferReq(q, n, m, fails) = Forward(q, n, m, fails)
    BY <1>5 DEF TransferReq
  <2> QED BY <2>1, ForwardHandles
<1> QED BY <1>0, <1>2, <1>3, <1>4, <1>5

-----------------------------------------------------------------------------
\* node::on_recv's bookkeeping may remove an endpoint with what is under way to it.
LEMMA AccountFine ==
  ASSUME TypeOK, PeersFine, NEW q, NetFine(q), NEW n \in Nodes, NEW p \in Nodes, n # p,
         NEW ok \in BOOLEAN, Account(q, n, p, ok)
  PROVE  /\ peers' \in [Nodes -> SUBSET Nodes] /\ links' \subseteq Pairs
         /\ faults' \in [Pairs -> 0 .. Tolerance]
         /\ PeersFine' /\ NetFine(net') /\ \A id : Keeps(q, net', id)
<1>0. q \in Network /\ <<n, p>> \in Pairs
  BY DEF NetFine, Pairs
<1>1. CASE ok \/ faults[<<n, p>>] < Tolerance
  <2>1. /\ faults' = [faults EXCEPT ![<<n, p>>] = IF ok THEN 0 ELSE @ + 1]
        /\ net' = q /\ UNCHANGED <<peers, links>>
    BY <1>1 DEF Account
  <2>2. faults' \in [Pairs -> 0 .. Tolerance]
    BY <1>0, <1>1, <2>1, BoundAssumption DEF TypeOK
  <2> QED BY <2>1, <2>2 DEF TypeOK, PeersFine, Keeps
<1>2. CASE ~(ok \/ faults[<<n, p>>] < Tolerance)
  <2>1. /\ faults' = [faults EXCEPT ![<<n, p>>] = 0]
        /\ peers' = [peers EXCEPT ![n] = @ \ {p}]
        /\ links' = links \ {<<n, p>>, <<p, n>>}
        /\ net' = Cut(q, n, p)
    BY <1>2 DEF Account
  <2>2. faults' \in [Pairs -> 0 .. Tolerance]
    BY <1>0, <2>1, BoundAssumption DEF TypeOK
  <2>3. peers' \in [Nodes -> SUBSET Nodes] /\ PeersFine' /\ links' \subseteq Pairs
    BY <2>1 DEF TypeOK, PeersFine
  <2>4. NetFine(net') /\ \A id : Keeps(q, net', id)
    BY <1>0, <2>1, CutFine DEF Keeps
  <2> QED BY <2>2, <2>3, <2>4
<1> QED BY <1>1, <1>2

\* A step that touches no request.
LEMMA FatesKept ==
  ASSUME NEW q, NEW r, NEW f, NEW s, FatesFine(q, f, s), \A id : Keeps(q, r, id)
  PROVE  FatesFine(r, f, s)
  BY DEF FatesFine, Keeps

IInv == TypeOK /\ NetFine(net) /\ PeersFine /\ MetFine /\ FatesFine(net, fates, sent)

LEMMA ReceiveInv ==
  ASSUME IInv, NEW l \in Pairs, NEW i \in DOMAIN net[l], NEW fails \in SUBSET Failures,
         Receive(l[2], l[1], i, fails)
  PROVE  IInv'
<1> DEFINE p == l[1]
           n == l[2]
           m == net[l][i]
           q == Minus(net, l, i)
           h == TransferReq(q, n, m, fails)
<1>0. /\ n \in Nodes /\ p \in Nodes /\ p # n /\ l = <<p, n>>
      /\ net \in Network /\ m \in Messages /\ Fine(l, m) /\ NetFine(q)
      /\ MaxSends \in Nat
  <2>1. net[l] \in Seq(Messages)
    BY DEF IInv, TypeOK
  <2>2. m \in Messages
    BY <2>1
  <2>3. NetFine(q)
    BY MinusFine DEF IInv
  <2>4. Fine(l, m) /\ net \in Network
    BY DEF IInv, NetFine
  <2> QED BY <2>2, <2>3, <2>4, BoundAssumption DEF Pairs
<1>1. \A id : (Single(net, id) => Single(q, id)) /\ (No(net, id) => No(q, id))
              /\ (Single(net, id) /\ Is(m, id) => No(q, id))
  <2> TAKE id
  <2>1. No(net, id) => Single(net, id)
    BY DEF No, Single
  <2> QED BY <1>0, <2>1, MinusSingle
<1>2. FatesFine(q, fates, sent)
  BY <1>1 DEF IInv, FatesFine
<1>3. \/ /\ m.cmd = "req" /\ Account(h.net, n, p, h.ok)
         /\ fates' = [fates EXCEPT ![m.id] = @ \o h.fate]
         /\ UNCHANGED <<met, counters>>
      \/ /\ m.cmd \in {"rsp", "cmd"}
         /\ Account(q, n, p, m.ret = "ok")
         /\ UNCHANGED <<met, fates, counters>>
      \/ /\ m.cmd = "syn" /\ met' = met \cup {{n, m.to}}
         /\ Account(q, n, p, TRUE)
         /\ UNCHANGED <<fates, counters>>
  BY <1>0 DEF Receive, Minus
<1> HIDE DEF q, m, n, p
<1>4. CASE /\ m.cmd = "req" /\ Account(h.net, n, p, h.ok)
           /\ fates' = [fates EXCEPT ![m.id] = @ \o h.fate]
           /\ UNCHANGED <<met, counters>>
  <2>1. m.id \in 1 .. MaxSends /\ OnWay(p, n, m)
    BY <1>0, <1>4 DEF Fine
  <2>2. AtNode(n, m.to, ToSet(m.router))
    BY <1>0, <2>1, Comes
  <2>3. No(q, m.id)
    BY <1>1, <1>4, <2>1 DEF IInv, FatesFine, Is
  <2>4. fates[m.id] = <<>> /\ ~(m.id > sent)
    <3>1. ~No(net, m.id)
      BY <1>4 DEF No, Is, m
    <3> QED BY <2>1, <3>1 DEF IInv, FatesFine
  <2>5. Handled(q, m, h)
    BY <1>0, <1>4, <2>1, <2>2, <2>3, TransferHandles DEF IInv
  <2> HIDE DEF h
  <2>6. /\ peers' \in [Nodes -> SUBSET Nodes] /\ links' \subseteq Pairs
        /\ faults' \in [Pairs -> 0 .. Tolerance]
        /\ PeersFine' /\ NetFine(net') /\ \A id : Keeps(h.net, net', id)
    BY <1>0, <1>4, <2>5, AccountFine DEF IInv, Handled
  <2>7. h.fate \in {<<>>, <<"failed">>, <<"got">>} /\ h.fate \in Seq({"got", "failed"})
    <3>1. h.fate \in {<<>>, <<"failed">>, <<"got">>}
      BY <2>5 DEF Handled
    <3>2. <<>> \in Seq({"got", "failed"}) /\ <<"failed">> \in Seq({"got", "failed"})
          /\ <<"got">> \in Seq({"got", "failed"})
      OBVIOUS
    <3> QED BY <3>1, <3>2
  <2>8. /\ fates' = [fates EXCEPT ![m.id] = h.fate]
        /\ fates' \in [1 .. MaxSends -> Seq({"got", "failed"})]
    <3>1. fates \in [1 .. MaxSends -> Seq({"got", "failed"})]
      BY DEF IInv, TypeOK
    <3>2. <<>> \o h.fate = h.fate
      BY <2>7
    <3>3. fates' = [fates EXCEPT ![m.id] = h.fate]
      BY <1>4, <2>1, <2>4, <3>1, <3>2
    <3> QED BY <2>1, <2>7, <3>1, <3>3
  <2>9. FatesFine(net', fates', sent)
    <3> SUFFICES ASSUME NEW id \in 1 .. MaxSends
                 PROVE  /\ Single(net', id)
                        /\ fates'[id] # <<>> => No(net', id) /\ Len(fates'[id]) = 1
                        /\ id > sent => No(net', id) /\ fates'[id] = <<>>
      BY DEF FatesFine
    <3>1. CASE id # m.id
      <4>1. Keeps(q, net', id)
        BY <2>5, <2>6, <3>1, KeepsTrans DEF Handled
      <4>2. fates'[id] = fates[id]
        BY <2>8, <3>1 DEF IInv, TypeOK
      <4> QED BY <1>2, <4>1, <4>2 DEF FatesFine, Keeps
    <3>2. CASE id = m.id
      <4>1. fates'[id] = h.fate
        BY <2>8, <3>2 DEF IInv, TypeOK
      <4>2. No(net', id) => Single(net', id)
        BY DEF No, Single
      <4>3. CASE h.fate = <<>> /\ Single(h.net, m.id)
        BY <2>4, <2>6, <3>2, <4>1, <4>3 DEF Keeps
      <4>4. CASE h.fate \in {<<"failed">>, <<"got">>} /\ No(h.net, m.id)
        <5>1. No(net', id)
          BY <2>6, <3>2, <4>4 DEF Keeps
        <5>2. Len(h.fate) = 1
          BY <4>4
        <5> QED BY <2>4, <3>2, <4>1, <4>2, <5>1, <5>2
      <4> QED BY <2>5, <4>3, <4>4 DEF Handled
    <3> QED BY <3>1, <3>2
  <2>10. net' \in Network
    BY <2>6 DEF NetFine
  <2>11. UNCHANGED <<met, sent, breaks>>
    BY <1>4 DEF counters
  <2> QED BY <2>6, <2>8, <2>9, <2>10, <2>11 DEF IInv, TypeOK, MetFine, Network
<1>5. CASE /\ m.cmd \in {"rsp", "cmd"}
           /\ Account(q, n, p, m.ret = "ok")
           /\ UNCHANGED <<met, fates, counters>>
  <2>0. (m.ret = "ok") \in BOOLEAN
    OBVIOUS
  <2>1. /\ peers' \in [Nodes -> SUBSET Nodes] /\ links' \subseteq Pairs
        /\ faults' \in [Pairs -> 0 .. Tolerance]
        /\ PeersFine' /\ NetFine(net') /\ \A id : Keeps(q, net', id)
    BY <1>0, <1>5, <2>0, AccountFine DEF IInv
  <2>2. FatesFine(net', fates, sent)
    BY <1>2, <2>1, FatesKept
  <2>3. net' \in Network
    BY <2>1 DEF NetFine
  <2>4. UNCHANGED <<met, fates, sent, breaks>>
    BY <1>5 DEF counters
  <2> QED BY <2>1, <2>2, <2>3, <2>4 DEF IInv, TypeOK, MetFine, Network
<1>6. CASE /\ m.cmd = "syn" /\ met' = met \cup {{n, m.to}}
           /\ Account(q, n, p, TRUE)
           /\ UNCHANGED <<fates, counters>>
  <2>1. /\ peers' \in [Nodes -> SUBSET Nodes] /\ links' \subseteq Pairs
        /\ faults' \in [Pairs -> 0 .. Tolerance]
        /\ PeersFine' /\ NetFine(net') /\ \A id : Keeps(q, net', id)
    BY <1>0, <1>6, AccountFine DEF IInv
  <2>2. FatesFine(net', fates, sent)
    BY <1>2, <2>1, FatesKept
  <2>3. m.to \in Nodes /\ Father[m.to] = Father[n]
    BY <1>0, <1>6 DEF Fine
  <2>4. met' \subseteq SUBSET Nodes /\ MetFine'
    <3>1. met \subseteq SUBSET Nodes /\ MetFine
      BY DEF IInv, TypeOK
    <3>2. \A s \in met' : s \in met \/ s = {n, m.to}
      BY <1>6
    <3> QED BY <1>0, <2>3, <3>1, <3>2 DEF MetFine
  <2>5. net' \in Network /\ UNCHANGED <<fates, sent, breaks>>
    BY <1>6, <2>1 DEF NetFine, counters
  <2> QED BY <2>1, <2>2, <2>4, <2>5 DEF IInv, TypeOK, Network
<1> QED BY <1>3, <1>4, <1>5, <1>6

-----------------------------------------------------------------------------
\* node::send_data: request sent' is new, and has been nowhere.
LEMMA SendDataInv ==
  ASSUME IInv, NEW n \in Users, NEW t \in Ids, NEW ask \in BOOLEAN, NEW fails \in BOOLEAN,
         SendData(n, t, ask, fails)
  PROVE  IInv'
<1> DEFINE id == sent + 1
           m == Request(id, n, t, ask)
           s == Push(net, n, t, m, fails)
<1>0. /\ n \in Nodes /\ id \in 1 .. MaxSends /\ sent' = id /\ id > sent /\ sent \in Nat
      /\ UNCHANGED <<peers, links, faults, met, breaks>>
  BY TreeAssumption, BoundAssumption DEF SendData, IInv, TypeOK
<1>1. No(net, id) /\ fates[id] = <<>>
  BY <1>0 DEF IInv, FatesFine
<1>2. m \in Messages /\ m.cmd = "req" /\ m.id = id /\ m.to = t /\ m.router = <<>>
  <2>1. id \in 0 .. MaxSends /\ <<>> \in Seq(Nodes)
    BY <1>0, BoundAssumption
  <2> HIDE DEF id
  <2> QED BY <1>0, <2>1 DEF Request, Messages
<1>3. \/ t = n /\ fates' = [fates EXCEPT ![id] = <<"got">>] /\ UNCHANGED net
      \/ net' = s.net /\ fates' = [fates EXCEPT ![id] = IF s.ok THEN <<>> ELSE <<"failed">>]
  BY <1>0 DEF SendData
<1> HIDE DEF id, m
<1>4. PassedOn(net, m, s)
  <2>1. ToSet(m.router) \subseteq {} \cup {n}
    BY <1>2 DEF ToSet
  <2>2. AtNode(n, m.to, {})
    BY DEF AtNode
  <2>3. t = m.to
    BY <1>2
  <2> QED BY <1>0, <1>2, <2>1, <2>2, <2>3, PushRequest DEF IInv
<1> HIDE DEF s
<1>5. PICK f \in {<<>>, <<"got">>, <<"failed">>} :
        /\ fates' = [fates EXCEPT ![id] = f]
        /\ NetFine(net') /\ \A x : x # id => Keeps(net, net', x)
        /\ IF f = <<>> THEN Single(net', id) ELSE No(net', id)
  <2>1. CASE t = n /\ fates' = [fates EXCEPT ![id] = <<"got">>] /\ UNCHANGED net
    BY <1>1, <2>1 DEF Keeps, IInv
  <2>2. CASE net' = s.net /\ fates' = [fates EXCEPT ![id] = <<>>] /\ s.ok
    BY <1>1, <1>2, <1>4, <2>2 DEF PassedOn
  <2>3. CASE net' = s.net /\ fates' = [fates EXCEPT ![id] = <<"failed">>] /\ ~s.ok
    BY <1>1, <1>2, <1>4, <2>3 DEF PassedOn
  <2> QED BY <1>3, <2>1, <2>2, <2>3
<1>6. /\ fates' \in [1 .. MaxSends -> Seq({"got", "failed"})]
      /\ fates'[id] = f /\ \A x \in 1 .. MaxSends : x # id => fates'[x] = fates[x]
  <2>1. f \in Seq({"got", "failed"})
    <3>1. <<>> \in Seq({"got", "failed"}) /\ <<"failed">> \in Seq({"got", "failed"})
          /\ <<"got">> \in Seq({"got", "failed"})
      OBVIOUS
    <3> QED BY <3>1
  <2> QED BY <1>0, <1>5, <2>1 DEF IInv, TypeOK
<1>7. FatesFine(net', fates', sent')
  <2> SUFFICES ASSUME NEW x \in 1 .. MaxSends
               PROVE  /\ Single(net', x)
                      /\ fates'[x] # <<>> => No(net', x) /\ Len(fates'[x]) = 1
                      /\ x > sent' => No(net', x) /\ fates'[x] = <<>>
    BY DEF FatesFine
  <2>1. CASE x # id
    <3>1. x > sent' => x > sent
      BY <1>0 DEF id
    <3> QED BY <1>5, <1>6, <2>1, <3>1 DEF IInv, FatesFine, Keeps
  <2>2. CASE x = id
    <3>1. ~(x > sent')
      BY <1>0, <2>2
    <3>2. No(net', id) => Single(net', id)
      BY DEF No, Single
    <3>3. f # <<>> => Len(f) = 1
      OBVIOUS
    <3> QED BY <1>5, <1>6, <2>2, <3>1, <3>2, <3>3
  <2> QED BY <2>1, <2>2
<1>8. sent' \in 0 .. MaxSends
  BY <1>0, BoundAssumption
<1> QED BY <1>0, <1>5, <1>6, <1>7, <1>8 DEF IInv, TypeOK, NetFine, Network, PeersFine, MetFine

\* node::send_custom_cmd makes no request; its number is not that of a later one.
LEMMA SendCommandInv ==
  ASSUME IInv, NEW n \in Users, NEW t \in Ids, NEW fails \in BOOLEAN, SendCommand(n, t, fails)
  PROVE  IInv'
<1> DEFINE id == sent + 1
           m == Command(id, n, t)
           s == Push(net, n, t, m, fails)
<1>0. /\ n \in Nodes /\ id \in 0 .. MaxSends /\ sent' = id /\ id > sent /\ sent \in Nat
      /\ UNCHANGED <<peers, links, faults, met, breaks, fates>>
  BY TreeAssumption, BoundAssumption DEF SendCommand, IInv, TypeOK
<1>1. m \in Messages /\ m.cmd = "cmd" /\ m.router = <<>>
  <2>1. <<>> \in Seq(Nodes)
    OBVIOUS
  <2> HIDE DEF id
  <2> QED BY <1>0, <2>1 DEF Command, Request, Messages
<1>2. net' = net \/ net' = s.net
  BY <1>0 DEF SendCommand
<1> HIDE DEF id, m
<1>3. Aside(net, s)
  BY <1>0, <1>1, PushElse DEF IInv
<1> HIDE DEF s
<1>4. NetFine(net') /\ \A x : Keeps(net, net', x)
  BY <1>2, <1>3 DEF Aside, Keeps, IInv
<1>5. FatesFine(net', fates, sent')
  <2>1. FatesFine(net', fates, sent)
    BY <1>4, FatesKept DEF IInv
  <2>2. \A x \in 1 .. MaxSends : x > sent' => x > sent
    BY <1>0 DEF id
  <2> QED BY <2>1, <2>2 DEF FatesFine
<1> QED BY <1>0, <1>2, <1>4, <1>5 DEF IInv, TypeOK, NetFine, Network, PeersFine, MetFine

LEMMA BreakInv ==
  ASSUME IInv, NEW n \in Nodes, NEW p \in Nodes, n # p, Break(n, p)
  PROVE  IInv'
<1>1. NetFine(net') /\ \A x : Keeps(net, net', x)
  BY CutFine DEF Break, IInv, NetFine, Keeps
<1>2. FatesFine(net', fates, sent)
  BY <1>1, FatesKept DEF IInv
<1>3. links' \subseteq Pairs /\ breaks' \in 0 .. MaxBreaks
  BY BoundAssumption DEF Break, IInv, TypeOK
<1> QED BY <1>1, <1>2, <1>3 DEF Break, IInv, TypeOK, NetFine, Network, PeersFine, MetFine

LEMMA CheckInv ==
  ASSUME IInv, NEW n \in Nodes, NEW p \in Nodes, n # p, Check(n, p)
  PROVE  IInv'
<1>1. UNCHANGED <<links, net, met, sent, breaks, fates>>
  BY DEF Check, counters
<1>2. peers' \in [Nodes -> SUBSET Nodes] /\ PeersFine'
  BY DEF Check, IInv, TypeOK, PeersFine
<1>3. faults' \in [Pairs -> 0 .. Tolerance]
  <2>1. <<n, p>> \in Pairs /\ 0 \in 0 .. Tolerance
    BY BoundAssumption DEF Pairs
  <2>2. faults' = [faults EXCEPT ![<<n, p>>] = 0]
    BY DEF Check
  <2> QED BY <2>1, <2>2 DEF IInv, TypeOK
<1> QED BY <1>1, <1>2, <1>3 DEF IInv, TypeOK, MetFine

\* Who joins is related: kin, or introduced as brothers.
LEMMA JoinInv ==
  ASSUME IInv, NEW n \in Nodes, NEW p \in Nodes, n # p, Join(n, p)
  PROVE  IInv'
<1>1. UNCHANGED <<net, faults, met, sent, breaks, fates>>
  BY DEF Join, counters
<1>2. Related(n, p) /\ Related(p, n)
  BY DEF Join, Kin, Related, IInv, MetFine
<1>3. /\ peers' = [peers EXCEPT ![n] = @ \cup {p}, ![p] = @ \cup {n}]
      /\ links' = links \cup {<<n, p>>, <<p, n>>}
  BY DEF Join
<1>4. peers' \in [Nodes -> SUBSET Nodes] /\ links' \subseteq Pairs
  <2>1. peers \in [Nodes -> SUBSET Nodes] /\ links \subseteq Pairs
    BY DEF IInv, TypeOK
  <2>2. <<n, p>> \in Pairs /\ <<p, n>> \in Pairs
    BY DEF Pairs
  <2>3. links' \subseteq Pairs
    BY <1>3, <2>1, <2>2
  <2> QED BY <1>3, <2>1, <2>3
<1>5. PeersFine'
  <2> SUFFICES ASSUME NEW a \in Nodes, NEW b \in peers'[a] PROVE b # a /\ Related(a, b)
    BY DEF PeersFine
  <2>1. b \in peers[a] \/ (a = n /\ b = p) \/ (a = p /\ b = n)
    BY <1>3 DEF IInv, TypeOK
  <2> QED BY <1>2, <2>1 DEF IInv, PeersFine
<1> QED BY <1>1, <1>4, <1>5 DEF IInv, TypeOK, MetFine

LEMMA InitInv == Init => IInv
<1> SUFFICES ASSUME Init PROVE IInv
  OBVIOUS
<1>1. /\ <<>> \in Seq(Messages) /\ <<>> \in Seq({"got", "failed"})
      /\ net = [l \in Pairs |-> <<>>] /\ fates = [i \in 1 .. MaxSends |-> <<>>]
  BY DEF Init
<1>2. net \in Network /\ \A l \in Pairs : DOMAIN net[l] = {}
  BY <1>1 DEF Network
<1>3. PeersFine
  BY DEF Init, PeersFine, Kin, Related
<1>4. NetFine(net) /\ FatesFine(net, fates, sent) /\ MetFine
  BY <1>1, <1>2 DEF Init, NetFine, FatesFine, Single, No, MetFine
<1>5. TypeOK
  BY <1>1, <1>2, BoundAssumption DEF Init, TypeOK, Network
<1> QED BY <1>3, <1>4, <1>5 DEF IInv

LEMMA NextInv == IInv /\ [Next]_vars => IInv'
<1> SUFFICES ASSUME IInv, [Next]_vars PROVE IInv'
  OBVIOUS
<1>1. CASE UNCHANGED vars
  BY <1>1 DEF vars, IInv, TypeOK, PeersFine, MetFine
<1>2. CASE Next
  <2>1. ASSUME NEW n \in Users, NEW t \in Ids, NEW fails \in BOOLEAN, SendCommand(n, t, fails)
        PROVE  IInv'
    BY <2>1, SendCommandInv
  <2>2. ASSUME NEW n \in Users, NEW t \in Ids, NEW fails \in BOOLEAN, NEW ask \in BOOLEAN,
               SendData(n, t, ask, fails)
        PROVE  IInv'
    BY <2>2, SendDataInv
  <2>3. ASSUME NEW l \in Pairs, NEW i \in DOMAIN net[l], NEW fails \in SUBSET Failures,
               Receive(l[2], l[1], i, fails)
        PROVE  IInv'
    BY <2>3, ReceiveInv
  <2>4. ASSUME NEW l \in Pairs, Break(l[1], l[2]) \/ Check(l[1], l[2]) \/ Join(l[1], l[2])
        PROVE  IInv'
    <3>1. l[1] \in Nodes /\ l[2] \in Nodes /\ l[1] # l[2]
      BY DEF Pairs
    <3> QED BY <2>4, <3>1, BreakInv, CheckInv, JoinInv
  <2> QED BY <1>2, <2>1, <2>2, <2>3, <2>4 DEF Next
<1> QED BY <1>1, <1>2

-----------------------------------------------------------------------------
\* Every node has endpoints only for its father, its children and its brothers, whatever is
\* introduced, broken and made again; every request goes up out of the domains it has been in,
\* or into one it has not; and none is in two places.
THEOREM TreeCoherent == Spec => []IInv
  BY InitInv, NextInv, PTL DEF Spec

\* Tables, links, messages and fault counts are what they should be: node::add_endpoint_fault
\* removes a peer before its count passes conf_t::fault_tolerant.
THEOREM TypeCorrect == Spec => []TypeOK
<1>1. IInv => TypeOK
  BY DEF IInv
<1> QED BY <1>1, TreeCoherent, PTL

LEMMA FineMeansOneFate == IInv => OneFate
<1> SUFFICES ASSUME IInv, NEW id \in 1 .. MaxSends
             PROVE  Cardinality(Copies(id)) + Len(fates[id]) <= 1
  BY DEF OneFate
<1>1. \A x \in Copies(id) : x[1] \in Pairs /\ x[2] \in DOMAIN net[x[1]] /\ x = <<x[1], x[2]>>
                            /\ Is(net[x[1]][x[2]], id)
  BY DEF Copies, Under, Is
<1>2. Single(net, id) /\ (fates[id] # <<>> => No(net, id) /\ Len(fates[id]) = 1)
  BY DEF IInv, FatesFine
<1>3. Copies(id) = {} \/ \E x : Copies(id) = {x}
  <2>1. ASSUME NEW x \in Copies(id), NEW y \in Copies(id) PROVE x = y
    <3>1. x[1] = y[1] /\ x[2] = y[2]
      BY <1>1, <1>2 DEF Single
    <3> QED BY <1>1, <3>1
  <2> QED BY <2>1
<1>4. No(net, id) => Copies(id) = {}
  BY <1>1 DEF No
<1>5. Cardinality({}) = 0 /\ \A x : Cardinality({x}) = 1
  BY FS_EmptySet, FS_Singleton
<1>6. fates[id] = <<>> => Len(fates[id]) = 0
  OBVIOUS
<1> DEFINE c == Cardinality(Copies(id))
           k == Len(fates[id])
<1>7. c \in {0, 1} /\ k \in {0, 1} /\ (c = 0 \/ k = 0)
  <2>1. c \in {0, 1} /\ (Copies(id) = {} => c = 0)
    BY <1>3, <1>5
  <2>2. k \in {0, 1} /\ (Copies(id) = {} \/ k = 0)
    BY <1>2, <1>4, <1>6
  <2> QED BY <2>1, <2>2
<1> HIDE DEF c, k
<1>8. c + k <= 1
  BY <1>7
<1> QED BY <1>8 DEF c, k

\* However often a push fails and is tried on another way, and whatever connections are lost:
\* a request is delivered once, given up once, or under way once.
THEOREM RequestsHaveOneFate == Spec => []OneFate
  BY TreeCoherent, FineMeansOneFate, PTL

\* No request comes to a node that has sent it on before: without conf_t::ttl none would circle.
THEOREM NeverCircles == Spec => []NoLoop
<1>1. IInv => NoLoop
  <2> SUFFICES ASSUME IInv, NEW l \in Pairs, NEW i \in DOMAIN net[l]
               PROVE  l[2] \notin ToSet(net[l][i].router)
    BY DEF NoLoop
  <2>1. Fine(l, net[l][i]) /\ l[1] \in Nodes /\ l[2] \in Nodes /\ l[1] # l[2]
    BY DEF IInv, NetFine, Pairs
  <2>2. CASE net[l][i].cmd = "req"
    BY <2>1, <2>2, Comes DEF Fine
  <2>3. CASE net[l][i].cmd # "req"
    BY <2>1, <2>3 DEF Fine, ToSet
  <2> QED BY <2>2, <2>3
<1> QED BY <1>1, TreeCoherent, PTL
=============================================================================
