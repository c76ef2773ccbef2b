-------------------------- MODULE SearchPages_proofs --------------------------
(***************************************************************************)
(* A walk over the pages of a search shows every row that stands still     *)
(* once, and authority never the less relevant first: for any chunks,      *)
(* corpora, rankings, weights, requests and packages in between.           *)
(***************************************************************************)
EXTENDS SearchPages, FiniteSetTheorems, SequenceTheorems, TLAPS

-----------------------------------------------------------------------------
(* Scores.                                                                 *)

LEMMA RoundedBounds ==
  ASSUME NEW num \in Nat, NEW den \in Nat \ {0}
  PROVE  LET q == Rounded(num, den)
         IN  q \in Nat /\ (2 * den) * q <= 2 * num + den /\ 2 * num + den < (2 * den) * q + 2 * den
<1> DEFINE a == 2 * num + den
           b == 2 * den
           q == a \div b
<1>1. a \in Nat /\ b \in Nat \ {0}
  OBVIOUS
<1>2. q \in Nat /\ b * q <= a /\ a < b * q + b
  <2> HIDE DEF a, b
  <2> QED
    BY <1>1
<1> QED
  BY <1>2 DEF Rounded

LEMMA RequestType ==
  ASSUME BoundsAssumption, NEW req \in Requests
  PROVE  /\ req.group \in Groups /\ req.mode \in Modes /\ req.topK \in Nat \ {0}
         /\ req.authority \in BOOLEAN
BY DEF BoundsAssumption

LEMMA DeepestType ==
  ASSUME BoundsAssumption, NEW req \in Requests
  PROVE  Deepest(req) \in Nat /\ Deepest(req) <= Cardinality(Chunks)
<1>1. Cardinality(Chunks) \in Nat
  BY FS_CardinalityType DEF BoundsAssumption
<1>2. 2 * req.topK * PoolMultiplier \in Nat
  BY RequestType DEF BoundsAssumption
<1> QED
  BY <1>1, <1>2 DEF Deepest, Least

(* Deeper in an arm the score is strictly lower, and it tells the rank.    *)
LEMMA CrossFalls ==
  ASSUME BoundsAssumption, ScoresAssumption, NEW req \in Requests, NEW r \in 1..Deepest(req)
  PROVE  /\ Cross(r) \in Nat \ {0}
         /\ ImpliedRank(Cross(r)) \in Nat /\ ImpliedRank(Cross(r)) >= r
         /\ \A s \in 1..Deepest(req) : r < s => Cross(s) < Cross(r)
<1> DEFINE n == Deepest(req)
           x == K + r
           q == Rounded(Scale, x)
<1>1. n \in Nat /\ K \in Nat \ {0} /\ Scale \in Nat \ {0} /\ x \in Nat \ {0} /\ x > K
  BY DeepestType DEF BoundsAssumption
<1>2. (K + n + 1) * (K + n + 1) <= Scale
  BY DEF ScoresAssumption
<1>3. \A y \in Nat : y < K + n + 1 => y * y <= Scale
  <2> TAKE y \in Nat
  <2> HAVE y < K + n + 1
  <2> DEFINE z == K + n + 1
  <2>1. z \in Nat /\ z * z <= Scale /\ y < z
    BY <1>1, <1>2
  <2>2. y * y <= z * z
    <3> HIDE DEF z
    <3>1. y * y <= y * z
      BY <2>1
    <3>2. y * z <= z * z
      BY <2>1
    <3>3. y * y \in Nat /\ y * z \in Nat /\ z * z \in Nat
      BY <2>1
    <3> QED
      BY <3>1, <3>2, <3>3
  <2>3. y * y \in Nat /\ z * z \in Nat
    BY <2>1
  <2> QED
    BY <2>1, <2>2, <2>3, <1>1
<1>4. q \in Nat /\ (2 * x) * q <= 2 * Scale + x /\ 2 * Scale + x < (2 * x) * q + 2 * x
  BY <1>1, RoundedBounds
<1>5. x * x <= Scale
  BY <1>1, <1>3
<1>6. q >= x
  <2> SUFFICES ASSUME q < x PROVE FALSE
    BY <1>1, <1>4
  <2>1. (2 * x) * q <= (2 * x) * (x - 1)
    BY <1>1, <1>4
  <2>2. (2 * x) * (x - 1) = 2 * (x * x) - 2 * x
    BY <1>1
  <2>3. (2 * x) * q \in Nat /\ x * x \in Nat
    BY <1>1, <1>4
  <2> HIDE DEF x, q
  <2> QED
    BY <1>1, <1>4, <1>5, <2>1, <2>2, <2>3
<1>7. Cross(r) = q /\ q # 0
  BY <1>1, <1>4, <1>6 DEF Cross
<1>8. ImpliedRank(q) >= r /\ ImpliedRank(q) \in Nat
  <2> DEFINE c == (Scale + q - 1) \div q
  <2>1. c \in Nat /\ q * c <= Scale + q - 1 /\ Scale + q - 1 < q * c + q
    <3> DEFINE a == Scale + q - 1
    <3>1. a \in Nat /\ q \in Nat \ {0}
      BY <1>1, <1>4, <1>7
    <3>2. a \div q \in Nat /\ q * (a \div q) <= a /\ a < q * (a \div q) + q
      <4> HIDE DEF a, q
      <4> QED
        BY <3>1
    <3> QED
      BY <3>2
  <2>2. c >= x
    <3> SUFFICES ASSUME c <= x - 1 PROVE FALSE
      BY <1>1, <2>1
    <3>1. q * c <= q * (x - 1)
      BY <1>1, <1>4, <2>1
    <3>2. q * (x - 1) = q * x - q /\ (2 * x) * q = 2 * (q * x)
      <4>1. q \in Nat /\ x \in Nat
        BY <1>1, <1>4
      <4> HIDE DEF q, x
      <4> QED
        BY <4>1
    <3>3. q * c \in Nat /\ q * x \in Nat /\ q * x >= x * x
      BY <1>1, <1>4, <1>6, <2>1
    <3>4. Scale - 1 < q * x - q
      BY <1>1, <1>4, <2>1, <3>1, <3>2, <3>3
    <3> HIDE DEF x, q, c
    <3>5. Scale <= q * x - q
      BY <1>1, <1>4, <3>3, <3>4
    <3>6. 2 * (q * x) <= 2 * Scale + x
      BY <1>4, <3>2
    <3> QED
      BY <1>1, <1>4, <1>6, <3>3, <3>5, <3>6
  <2>3. CeilDiv(Scale, q) = c
    BY DEF CeilDiv
  <2> HIDE DEF c, q
  <2>4. c > K /\ c - K >= r /\ c - K \in Nat
    BY <1>1, <2>1, <2>2
  <2> QED
    BY <2>3, <2>4 DEF ImpliedRank
<1>9. ASSUME NEW s \in 1..n, r < s PROVE Cross(s) < q
  <2> DEFINE y == K + s
             p == Rounded(Scale, y)
  <2>1. y \in Nat \ {0} /\ x < y /\ y < K + n + 1
    BY <1>1, <1>9
  <2>2. p \in Nat /\ (2 * y) * p <= 2 * Scale + y
    BY <1>1, <2>1, RoundedBounds
  <2>3. y * y <= Scale
    BY <1>3, <2>1
  <2> HIDE DEF x, y, p, q
  <2>4. q >= y
    <3> SUFFICES ASSUME q < y PROVE FALSE
      BY <1>4, <2>1
    <3>1. x * q <= x * (y - 1)
      BY <1>1, <1>4, <2>1
    <3>2. x * (y - 1) = x * y - x /\ (2 * x) * q = 2 * (x * q)
      BY <1>1, <1>4, <2>1
    <3>3. x * y <= y * y /\ x * y \in Nat /\ x * q \in Nat /\ y * y \in Nat
      BY <1>1, <1>4, <2>1
    <3>4. 2 * Scale + x < 2 * (x * q) + 2 * x
      BY <1>4, <3>2
    <3> QED
      BY <1>1, <2>3, <3>1, <3>2, <3>3, <3>4
  <2>5. p < q
    <3> SUFFICES ASSUME p >= q PROVE FALSE
      BY <1>4, <2>2
    <3>1. y * q <= y * p /\ y * q \in Nat /\ y * p \in Nat /\ (2 * y) * p = 2 * (y * p) /\ x * q \in Nat
          /\ (2 * x) * q = 2 * (x * q)
      BY <1>1, <1>4, <2>1, <2>2
    <3>2. y * q = x * q + (y - x) * q /\ (y - x) * q \in Nat
      BY <1>1, <1>4, <2>1
    <3>3. (y - x) * q >= q
      BY <1>1, <1>4, <2>1
    <3>4. 2 * (y * q) <= 2 * Scale + y
      BY <1>1, <2>1, <2>2, <3>1
    <3>5. 2 * Scale < 2 * (x * q) + x
      BY <1>1, <1>4, <3>1
    <3> QED
      BY <1>1, <1>4, <2>1, <2>4, <3>1, <3>2, <3>3, <3>4, <3>5
  <2> QED
    BY <2>5 DEF Cross, p, y
<1> HIDE DEF q
<1> QED
  BY <1>4, <1>7, <1>8, <1>9

-----------------------------------------------------------------------------
Place(S, L, x) == Cardinality({y \in S : <<y, x>> \in L})

Orders(L, S) ==
  /\ \A x \in S : <<x, x>> \notin L
  /\ \A x, y, z \in S : <<x, y>> \in L /\ <<y, z>> \in L => <<x, z>> \in L
  /\ \A x, y \in S : x # y => <<x, y>> \in L \/ <<y, x>> \in L

(* A strict total order of a finite set numbers its elements.              *)
LEMMA PlacesNumber ==
  ASSUME NEW S, IsFiniteSet(S), NEW L, Orders(L, S)
  PROVE  /\ \A x \in S : Place(S, L, x) \in 0 .. (Cardinality(S) - 1)
         /\ \A x, y \in S : <<x, y>> \in L <=> Place(S, L, x) < Place(S, L, y)
         /\ \A x, y \in S : Place(S, L, x) = Place(S, L, y) => x = y
         /\ \A m \in 0 .. (Cardinality(S) - 1) : \E x \in S : Place(S, L, x) = m
<1> DEFINE before(x) == {y \in S : <<y, x>> \in L}
           n == Cardinality(S)
<1>1. n \in Nat /\ \A x \in S : IsFiniteSet(before(x)) /\ Cardinality(before(x)) \in Nat
  BY FS_CardinalityType, FS_Subset
<1>2. \A x \in S : Place(S, L, x) \in 0 .. (n - 1)
  <2> TAKE x \in S
  <2>1. before(x) \in SUBSET S /\ before(x) # S
    BY DEF Orders
  <2>2. Cardinality(before(x)) <= n /\ Cardinality(before(x)) # n
    BY <2>1, FS_Subset
  <2> QED
    BY <1>1, <2>2 DEF Place
<1>3. ASSUME NEW x \in S, NEW y \in S, <<x, y>> \in L PROVE Place(S, L, x) < Place(S, L, y)
  <2>1. before(x) \in SUBSET before(y) /\ before(x) # before(y)
    BY <1>3 DEF Orders
  <2>2. Cardinality(before(x)) <= Cardinality(before(y)) /\ Cardinality(before(x)) # Cardinality(before(y))
    BY <1>1, <2>1, FS_Subset
  <2> QED
    BY <1>1, <2>2 DEF Place
<1>4. \A x, y \in S : <<x, y>> \in L <=> Place(S, L, x) < Place(S, L, y)
  <2> TAKE x, y \in S
  <2>1. CASE <<x, y>> \in L
    BY <1>3, <2>1
  <2>2. CASE <<x, y>> \notin L
    <3>1. x = y \/ <<y, x>> \in L
      BY <2>2 DEF Orders
    <3>2. Place(S, L, x) = Place(S, L, y) \/ Place(S, L, y) < Place(S, L, x)
      BY <1>3, <3>1
    <3> QED
      BY <1>2, <2>2, <3>2
  <2> QED
    BY <2>1, <2>2
<1>5. \A x, y \in S : Place(S, L, x) = Place(S, L, y) => x = y
  <2> SUFFICES ASSUME NEW x \in S, NEW y \in S, Place(S, L, x) = Place(S, L, y), x # y PROVE FALSE
    OBVIOUS
  <2>1. Place(S, L, x) < Place(S, L, y) \/ Place(S, L, y) < Place(S, L, x)
    BY <1>4 DEF Orders
  <2> QED
    BY <1>2, <2>1
<1>6. \A m \in 0 .. (n - 1) : \E x \in S : Place(S, L, x) = m
  <2> DEFINE T == 0 .. (n - 1)
             f == [x \in S |-> Place(S, L, x)]
  <2>1. f \in Injection(S, T)
    BY <1>2, <1>5 DEF Injection, IsInjective
  <2>2. IsFiniteSet(T) /\ Cardinality(T) = n
    BY <1>1, FS_Interval
  <2>3. f \in Surjection(S, T)
    BY <2>1, <2>2, FS_Injection
  <2> QED
    BY <2>3 DEF Surjection
<1> QED
  BY <1>2, <1>4, <1>5, <1>6

TopOf(S, L, n) ==
  [i \in 1 .. Least(n, Cardinality(S)) |-> CHOOSE x \in S : Place(S, L, x) = i - 1]

(* The first rows of a set are in order, and what is not among them comes  *)
(* after all of them.                                                      *)
LEMMA TopIsSorted ==
  ASSUME NEW S, IsFiniteSet(S), NEW L, Orders(L, S), NEW n \in Nat
  PROVE  /\ TopOf(S, L, n) \in Seq(S) /\ Len(TopOf(S, L, n)) = Least(n, Cardinality(S))
         /\ \A i \in DOMAIN TopOf(S, L, n) : Place(S, L, TopOf(S, L, n)[i]) = i - 1
         /\ \A i, j \in DOMAIN TopOf(S, L, n) : i < j => <<TopOf(S, L, n)[i], TopOf(S, L, n)[j]>> \in L
         /\ \A x \in S : (\A i \in DOMAIN TopOf(S, L, n) : TopOf(S, L, n)[i] # x)
              => /\ Len(TopOf(S, L, n)) = n
                 /\ \A i \in DOMAIN TopOf(S, L, n) : <<TopOf(S, L, n)[i], x>> \in L
<1> DEFINE top == TopOf(S, L, n)
           m == Least(n, Cardinality(S))
<1>1. Cardinality(S) \in Nat /\ m \in Nat /\ m <= n /\ m <= Cardinality(S) /\ (m # n => m = Cardinality(S))
  BY FS_CardinalityType DEF Least
<1>2. DOMAIN top = 1..m /\ \A i \in 1..m : top[i] \in S /\ Place(S, L, top[i]) = i - 1
  <2>1. DOMAIN top = 1..m /\ \A i \in 1..m : top[i] = CHOOSE x \in S : Place(S, L, x) = i - 1
    BY DEF TopOf
  <2>2. \A i \in 1..m : \E x \in S : Place(S, L, x) = i - 1
    <3> TAKE i \in 1..m
    <3>1. i - 1 \in 0 .. (Cardinality(S) - 1)
      BY <1>1
    <3> QED
      BY <3>1, PlacesNumber
  <2> HIDE DEF top, m
  <2> QED
    BY <2>1, <2>2
<1>3. top \in Seq(S) /\ Len(top) = m
  <2>1. top \in [1..m -> S]
    BY <1>2 DEF TopOf
  <2> HIDE DEF top, m
  <2> QED
    BY <1>1, <2>1
<1>4. \A i, j \in 1..m : i < j => <<top[i], top[j]>> \in L
  <2> HIDE DEF top
  <2> QED
    BY <1>1, <1>2, PlacesNumber
<1>5. ASSUME NEW x \in S, \A i \in 1..m : top[i] # x
      PROVE  m = n /\ \A i \in 1..m : <<top[i], x>> \in L
  <2> HIDE DEF top
  <2>1. Place(S, L, x) >= m
    <3> SUFFICES ASSUME Place(S, L, x) < m PROVE FALSE
      BY <1>1, PlacesNumber
    <3> DEFINE i == Place(S, L, x) + 1
    <3>1. i \in 1..m
      BY <1>1, PlacesNumber
    <3>2. Place(S, L, top[i]) = Place(S, L, x)
      BY <1>1, <1>2, <3>1, PlacesNumber
    <3> QED
      BY <1>2, <1>5, <3>1, <3>2, PlacesNumber
  <2>2. m = n
    BY <1>1, <2>1, PlacesNumber
  <2>3. \A i \in 1..m : Place(S, L, top[i]) < Place(S, L, x)
    BY <1>1, <1>2, <2>1, PlacesNumber
  <2> QED
    BY <1>2, <2>2, <2>3, PlacesNumber
<1> HIDE DEF top, m
<1> QED
  BY <1>2, <1>3, <1>4, <1>5 DEF top, m

-----------------------------------------------------------------------------
SearchAssumptions ==
  BoundsAssumption /\ ContentsAssumption /\ ScoresAssumption /\ NoneAssumption

ContentsOK ==
  DOMAIN contents = Searchable /\ \A c \in Searchable : contents[c] \in Contents[c]

LEMMA PrefixOf ==
  ASSUME NEW T, NEW seq \in Seq(T), NEW n \in Nat
  PROVE  /\ Prefix(seq, n) \in Seq(T) /\ Len(Prefix(seq, n)) = Least(n, Len(seq))
         /\ \A i \in 1 .. Least(n, Len(seq)) : Prefix(seq, n)[i] = seq[i]
<1> DEFINE m == Least(n, Len(seq))
<1>1. m \in Nat /\ m <= Len(seq)
  BY DEF Least
<1>2. Prefix(seq, n) = [i \in 1..m |-> seq[i]]
  <2>1. Prefix(seq, n) = SubSeq(seq, 1, m)
    BY DEF Prefix
  <2> HIDE DEF m
  <2> QED
    BY <1>1, <2>1
<1>3. [i \in 1..m |-> seq[i]] \in [1..m -> T]
  <2> HIDE DEF m
  <2> QED
    BY <1>1
<1> HIDE DEF m
<1>4. Prefix(seq, n) \in Seq(T) /\ Len(Prefix(seq, n)) = m
  BY <1>1, <1>2, <1>3
<1>5. \A i \in 1..m : Prefix(seq, n)[i] = seq[i]
  BY <1>2
<1> QED
  BY <1>4, <1>5 DEF m

LEMMA PoolType ==
  ASSUME SearchAssumptions, ContentsOK, NEW c \in Searchable, NEW req \in Requests
  PROVE  /\ Lexical(c, req) \in Seq(Chunks) /\ Dense(c, req) \in Seq(Chunks)
         /\ Len(Lexical(c, req)) <= req.topK * PoolMultiplier
         /\ Len(Dense(c, req)) <= req.topK * PoolMultiplier
         /\ Pool(c, req) \subseteq Chunks /\ Pool(c, req) \subseteq Ranked(contents[c])
<1> DEFINE arms == Arms(c, req)
           n == req.topK * PoolMultiplier
<1>1. n \in Nat
  BY RequestType DEF SearchAssumptions, BoundsAssumption
<1>2. /\ arms.lexical \in Seq(Chunks) /\ arms.dense \in Seq(Chunks)
      /\ ToSet(arms.lexical) \subseteq Ranked(contents[c]) /\ ToSet(arms.dense) \subseteq Ranked(contents[c])
  <2> DEFINE Rankings == [lexical : Seq(Chunks), dense : Seq(Chunks)]
  <2>1. contents[c].chunks \in Rankings /\ contents[c].zones \in Rankings
    BY DEF SearchAssumptions, ContentsAssumption, ContentsOK
  <2>2. CASE req.zone
    BY <2>1, <2>2 DEF Arms, Ranked
  <2>3. CASE ~req.zone
    BY <2>1, <2>3 DEF Arms, Ranked
  <2> QED
    BY <2>2, <2>3
<1> HIDE DEF arms, n
<1>3. ASSUME NEW seq \in Seq(Chunks), ToSet(seq) \subseteq Ranked(contents[c])
      PROVE  Prefix(seq, n) \in Seq(Chunks) /\ ToSet(Prefix(seq, n)) \subseteq Ranked(contents[c])
             /\ ToSet(Prefix(seq, n)) \subseteq Chunks /\ Len(Prefix(seq, n)) <= n
  <2>1. /\ Prefix(seq, n) \in Seq(Chunks) /\ Len(Prefix(seq, n)) = Least(n, Len(seq))
        /\ \A i \in 1 .. Least(n, Len(seq)) : Prefix(seq, n)[i] = seq[i]
    BY <1>1, PrefixOf
  <2>2. Least(n, Len(seq)) \in Nat /\ Least(n, Len(seq)) <= Len(seq) /\ Least(n, Len(seq)) <= n
    BY <1>1 DEF Least
  <2>3. \A i \in DOMAIN Prefix(seq, n) : i \in DOMAIN seq /\ Prefix(seq, n)[i] = seq[i]
    BY <2>1, <2>2
  <2> QED
    BY <1>3, <2>1, <2>2, <2>3 DEF ToSet
<1>4. <<>> \in Seq(Chunks) /\ ToSet(<<>>) = {} /\ Len(<<>>) <= n
  BY <1>1 DEF ToSet
<1>5. /\ Lexical(c, req) \in Seq(Chunks) /\ ToSet(Lexical(c, req)) \subseteq Ranked(contents[c])
      /\ ToSet(Lexical(c, req)) \subseteq Chunks /\ Len(Lexical(c, req)) <= n
  BY <1>2, <1>3, <1>4 DEF Lexical, arms, n
<1>6. /\ Dense(c, req) \in Seq(Chunks) /\ ToSet(Dense(c, req)) \subseteq Ranked(contents[c])
      /\ ToSet(Dense(c, req)) \subseteq Chunks /\ Len(Dense(c, req)) <= n
  BY <1>2, <1>3, <1>4 DEF Dense, arms, n
<1> QED
  BY <1>5, <1>6 DEF Pool, n

(* The pool has at most the rows of its two arms.                          *)
LEMMA PoolIsBounded ==
  ASSUME SearchAssumptions, ContentsOK, NEW c \in Searchable, NEW req \in Requests
  PROVE  IsFiniteSet(Pool(c, req)) /\ Cardinality(Pool(c, req)) <= Deepest(req)
<1> DEFINE n == req.topK * PoolMultiplier
           l == ToSet(Lexical(c, req))
           d == ToSet(Dense(c, req))
<1>0. n \in Nat /\ 2 * req.topK * PoolMultiplier = n + n
  <2>1. req.topK \in Nat /\ PoolMultiplier \in Nat
    BY RequestType DEF SearchAssumptions, BoundsAssumption
  <2> QED
    BY <2>1
<1>1. n \in Nat
  BY <1>0
<1>2. /\ Lexical(c, req) \in Seq(Chunks) /\ Len(Lexical(c, req)) <= n
      /\ Dense(c, req) \in Seq(Chunks) /\ Len(Dense(c, req)) <= n
  BY <1>1, PoolType
<1>3. ASSUME NEW seq \in Seq(Chunks), Len(seq) <= n
      PROVE  IsFiniteSet(ToSet(seq)) /\ Cardinality(ToSet(seq)) \in Nat /\ Cardinality(ToSet(seq)) <= n
  <2>0. Len(seq) \in Nat /\ DOMAIN seq = 1..Len(seq)
    BY <1>3
  <2> DEFINE m == Len(seq)
             f == [i \in 1..m |-> seq[i]]
  <2>1. IsFiniteSet(1..m) /\ Cardinality(1..m) = m
    <3> HIDE DEF m, n
    <3>1. m \in Nat
      BY <2>0 DEF m
    <3> QED
      BY <3>1, FS_Interval
  <2>2. f \in Surjection(1..m, ToSet(seq))
    BY <2>0 DEF ToSet, Surjection
  <2> HIDE DEF f
  <2>3. IsFiniteSet(ToSet(seq)) /\ Cardinality(ToSet(seq)) <= Len(seq)
    BY <2>1, <2>2, FS_Surjection
  <2> HIDE DEF n
  <2> QED
    BY <1>1, <1>3, <2>3, FS_CardinalityType
<1>4. /\ IsFiniteSet(l) /\ Cardinality(l) \in Nat /\ Cardinality(l) <= n
      /\ IsFiniteSet(d) /\ Cardinality(d) \in Nat /\ Cardinality(d) <= n
  <2> HIDE DEF n
  <2> QED
    BY <1>2, <1>3
<1>5. Pool(c, req) = l \cup d
  BY DEF Pool
<1> HIDE DEF n, l, d
<1>6. IsFiniteSet(Pool(c, req)) /\ Cardinality(Pool(c, req)) \in Nat /\ Cardinality(Pool(c, req)) <= n + n
  <2>1. IsFiniteSet(l \cup d) /\ Cardinality(l \cup d) = Cardinality(l) + Cardinality(d) - Cardinality(l \cap d)
    BY <1>4, FS_Union
  <2>2. Cardinality(l \cap d) \in Nat
    BY <1>4, FS_Intersection, FS_CardinalityType
  <2>3. Cardinality(l \cup d) \in Nat
    BY <2>1, FS_CardinalityType
  <2>4. Cardinality(l \cup d) <= n + n
    BY <1>1, <1>4, <2>1, <2>2, <2>3
  <2> QED
    BY <1>5, <2>1, <2>3, <2>4
<1>7. Cardinality(Pool(c, req)) <= Cardinality(Chunks) /\ Cardinality(Chunks) \in Nat
  BY PoolType, FS_Subset, FS_CardinalityType DEF SearchAssumptions, BoundsAssumption
<1> QED
  BY <1>0, <1>6, <1>7 DEF Deepest, Least

LEMMA ScoreType ==
  ASSUME SearchAssumptions, ContentsOK, NEW c \in Searchable, NEW req \in Requests,
         NEW chunk \in Pool(c, req)
  PROVE  FusedScore(c, req, chunk) \in Nat
<1> DEFINE l == K + Position(Lexical(c, req), chunk)
           d == K + Position(Dense(c, req), chunk)
<1>1. \A seq \in Seq(Chunks) : chunk \in ToSet(seq) => Position(seq, chunk) \in Nat
  BY DEF ToSet, Position
<1>2. {K, Scale, LexicalWeight, DenseWeight} \subseteq Nat \ {0}
  BY DEF SearchAssumptions, BoundsAssumption
<1>3. chunk \in ToSet(Lexical(c, req)) => l \in Nat \ {0}
  BY <1>1, <1>2, PoolType
<1>4. chunk \in ToSet(Dense(c, req)) => d \in Nat \ {0}
  BY <1>1, <1>2, PoolType
<1>5. chunk \in ToSet(Lexical(c, req)) \/ chunk \in ToSet(Dense(c, req))
  BY DEF Pool
<1>6. (req.mode = "bm25" => Dense(c, req) = <<>>) /\ (req.mode = "dense" => Lexical(c, req) = <<>>)
      /\ ToSet(<<>>) = {}
  BY DEF Dense, Lexical, ToSet
<1>7. \A num \in Nat, den \in Nat \ {0} : Rounded(num, den) \in Nat
  BY RoundedBounds
<1> HIDE DEF l, d
<1>8. CASE req.mode = "bm25"
  <2>1. FusedScore(c, req, chunk) = Rounded(Scale, l)
    BY <1>8 DEF FusedScore, l
  <2> QED
    BY <1>2, <1>3, <1>5, <1>6, <1>7, <1>8, <2>1
<1>9. CASE req.mode = "dense"
  <2>1. FusedScore(c, req, chunk) = Rounded(Scale, d)
    BY <1>9 DEF FusedScore, d
  <2> QED
    BY <1>2, <1>4, <1>5, <1>6, <1>7, <1>9, <2>1
<1>10. CASE req.mode = "hybrid" /\ chunk \notin ToSet(Dense(c, req))
  <2>1. FusedScore(c, req, chunk) = Rounded(Scale * LexicalWeight, 10 * l)
    BY <1>10 DEF FusedScore, l
  <2>2. Scale * LexicalWeight \in Nat /\ 10 * l \in Nat \ {0}
    BY <1>2, <1>3, <1>5, <1>10
  <2> QED
    BY <1>7, <2>1, <2>2
<1>11. CASE req.mode = "hybrid" /\ chunk \in ToSet(Dense(c, req)) /\ chunk \notin ToSet(Lexical(c, req))
  <2>1. FusedScore(c, req, chunk) = Rounded(Scale * DenseWeight, 10 * d)
    BY <1>11 DEF FusedScore, d
  <2>2. Scale * DenseWeight \in Nat /\ 10 * d \in Nat \ {0}
    BY <1>2, <1>4, <1>11
  <2> QED
    BY <1>7, <2>1, <2>2
<1>12. CASE req.mode = "hybrid" /\ chunk \in ToSet(Dense(c, req)) /\ chunk \in ToSet(Lexical(c, req))
  <2>1. FusedScore(c, req, chunk) = Rounded(Scale * (LexicalWeight * d + DenseWeight * l), 10 * l * d)
    BY <1>12 DEF FusedScore, l, d
  <2>2. LexicalWeight * d + DenseWeight * l \in Nat /\ 10 * l * d \in Nat \ {0}
    BY <1>2, <1>3, <1>4, <1>12
  <2>3. Scale * (LexicalWeight * d + DenseWeight * l) \in Nat
    BY <1>2, <2>2
  <2> QED
    BY <1>7, <2>1, <2>2, <2>3
<1> QED
  BY <1>8, <1>9, <1>10, <1>11, <1>12, RequestType DEF SearchAssumptions, Modes

LEMMA FirstExists ==
  ASSUME NEW S, S # {}, IsFiniteSet(S), NEW L, Orders(L, S)
  PROVE  \E x \in S : \A y \in S : <<y, x>> \notin L
<1>1. 0 \in 0 .. (Cardinality(S) - 1)
  BY FS_CardinalityType, FS_EmptySet
<1>2. PICK x \in S : Place(S, L, x) = 0
  BY <1>1, PlacesNumber
<1> QED
  BY <1>2, PlacesNumber

LEMMA GreatestExists ==
  ASSUME NEW S \in SUBSET Nat, S # {}, IsFiniteSet(S)
  PROVE  Max(S) \in S
<1> DEFINE L == {p \in S \X S : p[1] > p[2]}
<1>1. Orders(L, S)
  BY DEF Orders
<1>2. PICK x \in S : \A y \in S : <<y, x>> \notin L
  <2> HIDE DEF L
  <2> QED
    BY <1>1, FirstExists
<1>3. \A y \in S : x >= y
  <2> TAKE y \in S
  <2>1. <<y, x>> \in S \X S /\ <<y, x>>[1] = y /\ <<y, x>>[2] = x /\ y \in Nat /\ x \in Nat
    OBVIOUS
  <2> QED
    BY <1>2, <2>1
<1> QED
  BY <1>3 DEF Max

-----------------------------------------------------------------------------
(* A corpus ranks finitely many rows, one for each of its chunks at most,  *)
(* and a row is known by its id.                                           *)
LEMMA RowsType ==
  ASSUME SearchAssumptions, ContentsOK, NEW c \in Searchable, NEW req \in Requests
  PROVE  /\ Rows(c, req) \subseteq [id : Nat, corpus : {c}, score : Nat]
         /\ IsFiniteSet(Rows(c, req)) /\ Cardinality(Rows(c, req)) <= Deepest(req)
         /\ \A a, b \in Rows(c, req) : a.id = b.id => a = b
         /\ \A a \in Rows(c, req) : \E chunk \in Ranked(contents[c]) : a.id = IdOf(req, chunk)
<1> DEFINE pool == Pool(c, req)
           of(i) == {x \in pool : IdOf(req, x) = i}
           scores(i) == {FusedScore(c, req, chunk) : chunk \in of(i)}
           row(i) == [id |-> i, corpus |-> c, score |-> Max(scores(i))]
           f == [chunk \in pool |-> row(IdOf(req, chunk))]
<1>1. pool \subseteq Chunks /\ pool \subseteq Ranked(contents[c]) /\ IsFiniteSet(pool)
      /\ Cardinality(pool) <= Deepest(req)
  BY PoolType, PoolIsBounded
<1>2. Rows(c, req) = {row(i) : i \in {IdOf(req, chunk) : chunk \in pool}}
  BY DEF Rows
<1>3. \A chunk \in pool : IdOf(req, chunk) \in Nat
  BY <1>1 DEF IdOf, SearchAssumptions, BoundsAssumption
<1>4. ASSUME NEW x \in pool PROVE Max(scores(IdOf(req, x))) \in Nat
  <2> DEFINE i == IdOf(req, x)
             g == [chunk \in of(i) |-> FusedScore(c, req, chunk)]
  <2>1. scores(i) \subseteq Nat
    BY ScoreType
  <2>2. IsFiniteSet(of(i)) /\ x \in of(i)
    BY <1>1, FS_Subset
  <2>3. g \in Surjection(of(i), scores(i))
    BY DEF Surjection
  <2>4. IsFiniteSet(scores(i)) /\ scores(i) # {}
    BY <2>2, <2>3, FS_Surjection
  <2> QED
    BY <2>1, <2>4, GreatestExists
<1>5. Rows(c, req) \subseteq [id : Nat, corpus : {c}, score : Nat]
  <2> HIDE DEF pool, scores, of
  <2> QED
    BY <1>2, <1>3, <1>4
<1>6. f \in Surjection(pool, Rows(c, req))
  <2> HIDE DEF pool, scores
  <2> QED
    BY <1>2 DEF Surjection
<1>7. IsFiniteSet(Rows(c, req)) /\ Cardinality(Rows(c, req)) <= Cardinality(pool)
  BY <1>1, <1>6, FS_Surjection
<1>8. Cardinality(Rows(c, req)) <= Deepest(req)
  BY <1>1, <1>7, DeepestType, FS_CardinalityType DEF SearchAssumptions
<1>9. /\ \A a, b \in Rows(c, req) : a.id = b.id => a = b
      /\ \A a \in Rows(c, req) : \E chunk \in Ranked(contents[c]) : a.id = IdOf(req, chunk)
  <2> HIDE DEF pool, scores
  <2> QED
    BY <1>1, <1>2
<1> QED
  BY <1>5, <1>7, <1>8, <1>9

(* Documents, and chunks, of two corpora are different.                    *)
LEMMA IdsAreApart ==
  ASSUME SearchAssumptions, ContentsOK, NEW req \in Requests,
         NEW c \in Searchable, NEW d \in Searchable,
         NEW i \in Ranked(contents[c]), NEW j \in Ranked(contents[d]),
         IdOf(req, i) = IdOf(req, j)
  PROVE  c = d
<1>1. DocOf[i] = DocOf[j]
  BY DEF IdOf
<1> QED
  BY <1>1 DEF SearchAssumptions, ContentsAssumption, ContentsOK

-----------------------------------------------------------------------------
(* Rows in the order a client walks them.                                  *)

Placed(rows) ==
  \A a, b \in rows :
    /\ a.score \in Nat /\ a.corpus \in Nat /\ a.id \in Nat
    /\ a.score = b.score /\ a.corpus = b.corpus /\ a.id = b.id => a = b

WalkOrder(rows) == {p \in rows \X rows : Follows(p[1], p[2])}

LEMMA WalkOrders ==
  ASSUME NEW rows, Placed(rows)
  PROVE  Orders(WalkOrder(rows), rows)
<1>1. \A a, b \in rows : <<a, b>> \in WalkOrder(rows) <=> Follows(a, b)
  BY DEF WalkOrder
<1>2. \A a \in rows : ~Follows(a, a)
  BY DEF Follows, Placed
<1>3. \A a, b, c \in rows : Follows(a, b) /\ Follows(b, c) => Follows(a, c)
  BY DEF Follows, Placed
<1>4. \A a, b \in rows : a # b => Follows(a, b) \/ Follows(b, a)
  <2> TAKE a, b \in rows
  <2>1. a.score = b.score /\ a.corpus = b.corpus /\ a.id = b.id => a = b
    BY DEF Placed
  <2>2. /\ a.score \in Nat /\ a.corpus \in Nat /\ a.id \in Nat
        /\ b.score \in Nat /\ b.corpus \in Nat /\ b.id \in Nat
    BY DEF Placed
  <2> QED
    BY <2>1, <2>2 DEF Follows
<1> QED
  BY <1>1, <1>2, <1>3, <1>4 DEF Orders

-----------------------------------------------------------------------------
(* One corpus among several: its rows by their rank.                       *)

LEMMA RowsArePlaced ==
  ASSUME SearchAssumptions, ContentsOK, NEW c \in Searchable, NEW req \in Requests
  PROVE  /\ Placed(Rows(c, req)) /\ Orders(WalkOrder(Rows(c, req)), Rows(c, req))
         /\ \A a, b \in Rows(c, req) : Before(a, b) <=> <<a, b>> \in WalkOrder(Rows(c, req))
<1>1. /\ \A a \in Rows(c, req) : a.id \in Nat /\ a.corpus = c /\ a.score \in Nat
      /\ \A a, b \in Rows(c, req) : a.id = b.id => a = b
      /\ c \in Nat
  BY RowsType DEF SearchAssumptions, BoundsAssumption
<1>2. Placed(Rows(c, req))
  BY <1>1 DEF Placed
<1>3. \A a, b \in Rows(c, req) : Before(a, b) <=> Follows(a, b)
  BY <1>1 DEF Before, Follows
<1>4. \A a, b \in Rows(c, req) : <<a, b>> \in WalkOrder(Rows(c, req)) <=> Follows(a, b)
  BY DEF WalkOrder
<1>5. QED
  BY <1>2, <1>3, <1>4, WalkOrders

RankOf(c, req, r) == Place(Rows(c, req), WalkOrder(Rows(c, req)), r) + 1

ArmRow(c, req, r) ==
  [id |-> r.id, corpus |-> c, score |-> Cross(RankOf(c, req, r)), rank |-> RankOf(c, req, r)]

LEMMA ArmIs ==
  ASSUME SearchAssumptions, ContentsOK, NEW c \in Searchable, NEW req \in Requests, NEW depth
  PROVE  /\ \A r \in Rows(c, req) : RankOf(c, req, r) <= depth => ArmRow(c, req, r) \in ArmRows(c, req, depth)
         /\ \A a \in ArmRows(c, req, depth) : \E r \in Rows(c, req) :
              RankOf(c, req, r) <= depth /\ a = ArmRow(c, req, r)
<1> DEFINE rows == Rows(c, req)
           ranked == {[row |-> r, rank |-> Ahead(rows, Before, r) + 1] : r \in rows}
<1>1. \A r \in rows : Ahead(rows, Before, r) + 1 = RankOf(c, req, r)
  <2> TAKE r \in rows
  <2>1. {y \in rows : Before(y, r)} = {y \in rows : <<y, r>> \in WalkOrder(rows)}
    BY RowsArePlaced
  <2>2. QED
    BY <2>1 DEF Ahead, RankOf, Place
<1>2. ranked = {[row |-> r, rank |-> RankOf(c, req, r)] : r \in rows}
  <2> HIDE DEF rows
  <2> QED
    BY <1>1
<1>3. ArmRows(c, req, depth)
        = {[id |-> x.row.id, corpus |-> c, score |-> Cross(x.rank), rank |-> x.rank] :
             x \in {y \in ranked : y.rank <= depth}}
  BY DEF ArmRows
<1> HIDE DEF ranked
<1>4. ASSUME NEW r \in Rows(c, req), RankOf(c, req, r) <= depth
      PROVE  ArmRow(c, req, r) \in ArmRows(c, req, depth)
  <2> DEFINE x == [row |-> r, rank |-> RankOf(c, req, r)]
  <2>1. x \in ranked /\ x.rank <= depth
    BY <1>2, <1>4
  <2>2. [id |-> x.row.id, corpus |-> c, score |-> Cross(x.rank), rank |-> x.rank] \in ArmRows(c, req, depth)
    <3> HIDE DEF x
    <3> QED
      BY <1>3, <2>1
  <2> QED
    BY <2>2 DEF ArmRow
<1>5. ASSUME NEW a \in ArmRows(c, req, depth)
      PROVE  \E r \in Rows(c, req) : RankOf(c, req, r) <= depth /\ a = ArmRow(c, req, r)
  BY <1>2, <1>3 DEF ArmRow
<1>6. QED
  BY <1>4, <1>5

LEMMA ArmType ==
  ASSUME SearchAssumptions, ContentsOK, NEW c \in Searchable, NEW req \in Requests, NEW depth \in Nat
  PROVE  /\ ArmRows(c, req, depth)
              \subseteq [id : Nat, corpus : {c}, score : Nat, rank : 1..Deepest(req)]
         /\ IsFiniteSet(ArmRows(c, req, depth))
         /\ \A a \in ArmRows(c, req, depth) :
              /\ a.score = Cross(a.rank) /\ a.rank <= depth /\ a.rank <= Cardinality(Rows(c, req))
              /\ \E chunk \in Ranked(contents[c]) : a.id = IdOf(req, chunk)
         /\ \A a, b \in ArmRows(c, req, depth) : a.id = b.id \/ a.rank = b.rank => a = b
         /\ \A k \in 1..Cardinality(Rows(c, req)) : k <= depth => \E a \in ArmRows(c, req, depth) : a.rank = k
<1> DEFINE rows == Rows(c, req)
           n == Cardinality(rows)
           L == WalkOrder(rows)
           arm == ArmRows(c, req, depth)
           f == [r \in {s \in rows : RankOf(c, req, s) <= depth} |-> ArmRow(c, req, r)]
<1>1. IsFiniteSet(rows) /\ Orders(L, rows) /\ n \in Nat /\ n <= Deepest(req) /\ Deepest(req) \in Nat
  BY RowsType, RowsArePlaced, DeepestType, FS_CardinalityType DEF SearchAssumptions
<1>2. /\ \A r \in rows : RankOf(c, req, r) \in 1..n
      /\ \A r, s \in rows : RankOf(c, req, r) = RankOf(c, req, s) => r = s
      /\ \A k \in 1..n : \E r \in rows : RankOf(c, req, r) = k
  <2>1. /\ \A r \in rows : Place(rows, L, r) \in 0 .. (n - 1)
        /\ \A r, s \in rows : Place(rows, L, r) = Place(rows, L, s) => r = s
        /\ \A m \in 0 .. (n - 1) : \E r \in rows : Place(rows, L, r) = m
    BY <1>1, PlacesNumber
  <2>2. \A r \in rows : RankOf(c, req, r) = Place(rows, L, r) + 1
    BY DEF RankOf
  <2> HIDE DEF rows, L, n
  <2>3. \A r \in rows : RankOf(c, req, r) \in 1..n
    BY <1>1, <2>1, <2>2
  <2>4. \A r, s \in rows : RankOf(c, req, r) = RankOf(c, req, s) => r = s
    BY <1>1, <2>1, <2>2
  <2>5. ASSUME NEW k \in 1..n PROVE \E r \in rows : RankOf(c, req, r) = k
    <3>1. k - 1 \in 0 .. (n - 1)
      BY <1>1
    <3>2. PICK r \in rows : Place(rows, L, r) = k - 1
      BY <2>1, <3>1
    <3>3. RankOf(c, req, r) = k
      BY <1>1, <2>2, <3>2
    <3> QED
      BY <3>3
  <2> QED
    BY <2>3, <2>4, <2>5
<1>3. \A a \in arm : \E r \in rows : RankOf(c, req, r) <= depth /\ a = ArmRow(c, req, r)
  BY ArmIs
<1>4. \A r \in rows : RankOf(c, req, r) <= depth => ArmRow(c, req, r) \in arm
  BY ArmIs
<1>5. /\ \A r \in rows : r.id \in Nat
      /\ \A r, s \in rows : r.id = s.id => r = s
      /\ \A r \in rows : \E chunk \in Ranked(contents[c]) : r.id = IdOf(req, chunk)
  BY RowsType
<1>6. \A k \in 1..n : Cross(k) \in Nat
  BY <1>1, CrossFalls DEF SearchAssumptions
<1> HIDE DEF rows, n, L, arm
<1>7. IsFiniteSet(arm)
  <2>1. IsFiniteSet({s \in rows : RankOf(c, req, s) <= depth})
    BY <1>1, FS_Subset
  <2>2. f \in Surjection({s \in rows : RankOf(c, req, s) <= depth}, arm)
    BY <1>3, <1>4 DEF Surjection
  <2> HIDE DEF f
  <2> QED
    BY <2>1, <2>2, FS_Surjection
<1>8. ASSUME NEW a \in arm
      PROVE  /\ a \in [id : Nat, corpus : {c}, score : Nat, rank : 1..Deepest(req)]
             /\ a.score = Cross(a.rank) /\ a.rank <= depth /\ a.rank <= n
             /\ \E chunk \in Ranked(contents[c]) : a.id = IdOf(req, chunk)
  <2>1. PICK r \in rows : RankOf(c, req, r) <= depth /\ a = ArmRow(c, req, r)
    BY <1>3
  <2>2. RankOf(c, req, r) \in 1..n /\ RankOf(c, req, r) \in 1..Deepest(req) /\ RankOf(c, req, r) <= n
    BY <1>1, <1>2
  <2>3. a = [id |-> r.id, corpus |-> c, score |-> Cross(RankOf(c, req, r)), rank |-> RankOf(c, req, r)]
    BY <2>1 DEF ArmRow
  <2> QED
    BY <1>5, <1>6, <2>1, <2>2, <2>3
<1>9. ASSUME NEW a \in arm, NEW b \in arm, a.id = b.id \/ a.rank = b.rank PROVE a = b
  <2>1. PICK r \in rows : a = ArmRow(c, req, r)
    BY <1>3
  <2>2. PICK s \in rows : b = ArmRow(c, req, s)
    BY <1>3
  <2>3. a.id = r.id /\ b.id = s.id /\ a.rank = RankOf(c, req, r) /\ b.rank = RankOf(c, req, s)
    BY <2>1, <2>2 DEF ArmRow
  <2>4. r = s
    BY <1>2, <1>5, <1>9, <2>3
  <2> QED
    BY <2>1, <2>2, <2>4
<1>10. ASSUME NEW k \in 1..n, k <= depth PROVE \E a \in arm : a.rank = k
  <2>1. PICK r \in rows : RankOf(c, req, r) = k
    BY <1>2
  <2>2. ArmRow(c, req, r) \in arm /\ ArmRow(c, req, r).rank = k
    BY <1>4, <1>10, <2>1 DEF ArmRow
  <2> QED
    BY <2>2
<1>11. /\ arm \subseteq [id : Nat, corpus : {c}, score : Nat, rank : 1..Deepest(req)]
       /\ \A a \in arm : /\ a.score = Cross(a.rank) /\ a.rank <= depth /\ a.rank <= n
                         /\ \E chunk \in Ranked(contents[c]) : a.id = IdOf(req, chunk)
  BY <1>8
<1> QED
  BY <1>7, <1>9, <1>10, <1>11 DEF arm, n, rows

(* A deeper reading of an arm has the rows of a shallower one.             *)
LEMMA ArmDeepens ==
  ASSUME SearchAssumptions, ContentsOK, NEW c \in Searchable, NEW req \in Requests,
         NEW d \in Nat, NEW e \in Nat, NEW a \in ArmRows(c, req, d), a.rank <= e
  PROVE  a \in ArmRows(c, req, e)
<1>1. PICK r \in Rows(c, req) : a = ArmRow(c, req, r)
  BY ArmIs
<1>2. RankOf(c, req, r) <= e
  BY <1>1 DEF ArmRow
<1> QED
  BY <1>1, <1>2, ArmIs

-----------------------------------------------------------------------------
(* What a walk ranks: finitely many rows, told apart by their ids.         *)

ActiveOK == active \in (SUBSET Searchable) \ {{}}

RowsOf(req, multi, c) == IF multi THEN ArmRows(c, req, Cardinality(Chunks)) ELSE Rows(c, req)

LEMMA StandingIs ==
  ASSUME NEW req, NEW multi \in BOOLEAN
  PROVE  Standing(req, multi) = UNION {RowsOf(req, multi, c) : c \in active}
BY DEF Standing, RowsOf

LEMMA RowsOfType ==
  ASSUME SearchAssumptions, ContentsOK, NEW c \in Searchable, NEW req \in Requests, NEW multi \in BOOLEAN
  PROVE  /\ RowsOf(req, multi, c) \subseteq RowSet /\ IsFiniteSet(RowsOf(req, multi, c))
         /\ \A a \in RowsOf(req, multi, c) :
              a.corpus = c /\ \E chunk \in Ranked(contents[c]) : a.id = IdOf(req, chunk)
         /\ \A a, b \in RowsOf(req, multi, c) : a.id = b.id => a = b
<1>1. Cardinality(Chunks) \in Nat /\ Searchable \subseteq Nat /\ Deepest(req) \in Nat
  BY DeepestType, FS_CardinalityType DEF SearchAssumptions, BoundsAssumption
<1>2. CASE multi
  BY <1>1, <1>2, ArmType DEF RowsOf, RowSet
<1>3. CASE ~multi
  BY <1>3, RowsType DEF RowsOf, RowSet
<1> QED
  BY <1>2, <1>3

LEMMA StandingType ==
  ASSUME SearchAssumptions, ContentsOK, ActiveOK, NEW req \in Requests, NEW multi \in BOOLEAN
  PROVE  /\ Standing(req, multi) \subseteq RowSet /\ IsFiniteSet(Standing(req, multi))
         /\ Placed(Standing(req, multi))
         /\ \A a, b \in Standing(req, multi) : a.id = b.id => a = b
<1> DEFINE W == Standing(req, multi)
           f == [c \in active |-> RowsOf(req, multi, c)]
           parts == {RowsOf(req, multi, c) : c \in active}
<1>1. W = UNION parts /\ active \subseteq Searchable
  BY StandingIs DEF ActiveOK
<1>2. IsFiniteSet(parts)
  <2>1. IsFiniteSet(active)
    BY FS_Subset DEF ActiveOK, SearchAssumptions, BoundsAssumption
  <2>2. f \in Surjection(active, parts)
    BY DEF Surjection
  <2> HIDE DEF f, parts
  <2> QED
    BY <2>1, <2>2, FS_Surjection
<1>3. \A part \in parts : IsFiniteSet(part)
  BY <1>1, RowsOfType
<1>4. IsFiniteSet(W)
  <2> HIDE DEF parts, W
  <2> QED
    BY <1>1, <1>2, <1>3, FS_UNION
<1>5. W \subseteq RowSet
  BY <1>1, RowsOfType
<1>6. ASSUME NEW a \in W, NEW b \in W, a.id = b.id PROVE a = b
  <2>1. PICK c \in active : a \in RowsOf(req, multi, c)
    BY <1>1
  <2>2. PICK d \in active : b \in RowsOf(req, multi, d)
    BY <1>1
  <2>3. PICK i \in Ranked(contents[c]) : a.id = IdOf(req, i)
    BY <1>1, <2>1, RowsOfType
  <2>4. PICK j \in Ranked(contents[d]) : b.id = IdOf(req, j)
    BY <1>1, <2>2, RowsOfType
  <2>5. c = d
    BY <1>1, <1>6, <2>3, <2>4, IdsAreApart
  <2> QED
    BY <1>1, <1>6, <2>1, <2>2, <2>5, RowsOfType
<1>7. \A a \in W : a.score \in Nat /\ a.corpus \in Nat /\ a.id \in Nat
  BY <1>5 DEF RowSet, SearchAssumptions, BoundsAssumption
<1> HIDE DEF W
<1>8. Placed(W)
  BY <1>6, <1>7 DEF Placed
<1> QED
  BY <1>4, <1>5, <1>6, <1>8 DEF W

-----------------------------------------------------------------------------
(* A page is the first rows of the walk beyond the cursor.                 *)

Beyond(cursor, row) == cursor = None \/ Follows(cursor, row)

CursorOK(req, cursor) ==
  \/ cursor = None
  \/ /\ cursor \in Cursors
     /\ cursor.kind = "multi" => \E k \in 1..Deepest(req) : cursor.score = Cross(k)

LEMMA OrderedPart ==
  ASSUME NEW W, NEW S \in SUBSET W, IsFiniteSet(W), Placed(W)
  PROVE  IsFiniteSet(S) /\ Placed(S) /\ Orders(WalkOrder(S), S)
         /\ \A a, b \in S : <<a, b>> \in WalkOrder(S) <=> Follows(a, b)
<1>1. IsFiniteSet(S)
  BY FS_Subset
<1>2. Placed(S)
  BY DEF Placed
<1> QED
  BY <1>1, <1>2, WalkOrders DEF WalkOrder

LEMMA TopOfWalk ==
  ASSUME NEW S, IsFiniteSet(S), Placed(S), NEW n \in Nat
  PROVE  LET top == TopOf(S, WalkOrder(S), n)
         IN  /\ top \in Seq(S) /\ Len(top) = Least(n, Cardinality(S)) /\ Len(top) <= n
             /\ \A i \in DOMAIN top : Place(S, WalkOrder(S), top[i]) = i - 1
             /\ \A i, j \in DOMAIN top : i < j => Follows(top[i], top[j])
             /\ \A x \in S : (\A i \in DOMAIN top : top[i] # x)
                  => Len(top) = n /\ \A i \in DOMAIN top : Follows(top[i], x)
<1>1. Orders(WalkOrder(S), S)
  BY WalkOrders
<1>2. Least(n, Cardinality(S)) <= n
  BY FS_CardinalityType DEF Least
<1> DEFINE top == TopOf(S, WalkOrder(S), n)
<1>3. /\ top \in Seq(S) /\ Len(top) = Least(n, Cardinality(S))
      /\ \A i \in DOMAIN top : Place(S, WalkOrder(S), top[i]) = i - 1
      /\ \A i, j \in DOMAIN top : i < j => <<top[i], top[j]>> \in WalkOrder(S)
      /\ \A x \in S : (\A i \in DOMAIN top : top[i] # x)
              => Len(top) = n /\ \A i \in DOMAIN top : <<top[i], x>> \in WalkOrder(S)
  BY <1>1, TopIsSorted
<1> HIDE DEF top
<1>4. \A a, b : <<a, b>> \in WalkOrder(S) => Follows(a, b)
  BY DEF WalkOrder
<1>5. QED
  BY <1>2, <1>3, <1>4 DEF top

LEMMA LimitType == ASSUME SearchAssumptions, NEW req \in Requests PROVE Limit(req) \in Nat /\ req.topK < Limit(req)
<1>1. req.topK \in Nat \ {0} /\ WindowFactor \in Nat \ {0} /\ PoolMultiplier \in Nat \ {0}
  BY RequestType DEF SearchAssumptions, BoundsAssumption
<1>2. Least(WindowFactor, PoolMultiplier) \in Nat \ {0}
  BY <1>1 DEF Least
<1> DEFINE m == Least(WindowFactor, PoolMultiplier)
           k == req.topK
<1>3. k * m >= k /\ k * m \in Nat
  <2>1. k \in Nat /\ m \in Nat \ {0}
    BY <1>1, <1>2
  <2> HIDE DEF k, m
  <2>2. k * m = k + k * (m - 1) /\ k * (m - 1) \in Nat
    BY <2>1
  <2> QED
    BY <2>1, <2>2
<1>4. Limit(req) = k * m + 1 \/ Limit(req) = k + 1
  BY DEF Limit
<1> HIDE DEF m
<1> QED
  BY <1>1, <1>3, <1>4

IsTop(page, W, cursor, limit) ==
  /\ page \in Seq(W) /\ Len(page) <= limit
  /\ \A i \in DOMAIN page : Beyond(cursor, page[i])
  /\ \A i, j \in DOMAIN page : i < j => Follows(page[i], page[j])
  /\ \A w \in W : Beyond(cursor, w) /\ (\A i \in DOMAIN page : page[i] # w)
       => Len(page) = limit /\ \A i \in DOMAIN page : Follows(page[i], w)

(* One corpus: the database ranks and keysets.                             *)
LEMMA SinglePage ==
  ASSUME SearchAssumptions, ContentsOK, ActiveOK, NEW req \in Requests, NEW cursor,
         Cardinality(active) = 1
  PROVE  IsTop(Page(req, cursor), Standing(req, FALSE), cursor, Limit(req))
<1> DEFINE c == CHOOSE x \in active : TRUE
           rows == Rows(c, req)
           R == After(cursor, rows)
           n == Limit(req)
<1>1. active = {c} /\ c \in Searchable
  <2>1. IsFiniteSet(active)
    BY FS_Subset DEF ActiveOK, SearchAssumptions, BoundsAssumption
  <2>2. \E x : active = {x}
    BY <2>1, FS_Singleton
  <2> QED
    BY <2>2 DEF ActiveOK
<1>2. Standing(req, FALSE) = rows
  BY <1>1 DEF Standing
<1>3. IsFiniteSet(rows) /\ Placed(rows)
  BY <1>1, <1>2, StandingType
<1>4. R \in SUBSET rows /\ \A w \in rows : w \in R <=> Beyond(cursor, w)
  BY DEF After, Beyond
<1>5. n \in Nat
  BY LimitType
<1>6. Page(req, cursor) = TopOf(R, WalkOrder(R), n)
  <2>1. Page(req, cursor) = FirstRows(R, Before, n)
    BY DEF Page
  <2>2. \A a, b \in rows : Before(a, b) <=> Follows(a, b)
    BY <1>1, RowsArePlaced DEF WalkOrder
  <2>3. \A x \in R : Ahead(R, Before, x) = Place(R, WalkOrder(R), x)
    <3> TAKE x \in R
    <3> HIDE DEF R, rows
    <3>1. {y \in R : Before(y, x)} = {y \in R : <<y, x>> \in WalkOrder(R)}
      BY <1>4, <2>2 DEF WalkOrder
    <3> QED
      BY <3>1 DEF Ahead, Place
  <2> HIDE DEF R
  <2>4. \A i : (CHOOSE x \in R : Ahead(R, Before, x) = i - 1) = CHOOSE x \in R : Place(R, WalkOrder(R), x) = i - 1
    BY <2>3
  <2> QED
    BY <2>1, <2>4 DEF FirstRows, TopOf
<1> HIDE DEF R, rows, n
<1>7. /\ IsFiniteSet(R) /\ Placed(R)
  BY <1>3, <1>4, OrderedPart
<1> DEFINE page == Page(req, cursor)
<1>8. /\ page \in Seq(R) /\ Len(page) <= n
      /\ \A i, j \in DOMAIN page : i < j => Follows(page[i], page[j])
      /\ \A x \in R : (\A i \in DOMAIN page : page[i] # x)
           => Len(page) = n /\ \A i \in DOMAIN page : Follows(page[i], x)
  BY <1>5, <1>6, <1>7, TopOfWalk
<1> HIDE DEF page
<1>9. page \in Seq(rows) /\ \A i \in DOMAIN page : page[i] \in R
  BY <1>4, <1>8
<1>10. QED
  BY <1>2, <1>4, <1>8, <1>9 DEF IsTop, page, n

(* Several corpora: each is read to the depth of a page beyond the rank    *)
(* the cursor implies, so a row that was not read stands behind a page of  *)
(* rows of its own corpus alone.                                           *)
LEMMA SeveralPages ==
  ASSUME SearchAssumptions, ContentsOK, ActiveOK, NEW req \in Requests,
         NEW cursor, CursorOK(req, cursor), cursor # None => cursor.kind = "multi",
         Cardinality(active) # 1
  PROVE  IsTop(Page(req, cursor), Standing(req, TRUE), cursor, Limit(req))
<1> DEFINE W == Standing(req, TRUE)
           n == Limit(req)
           N == Cardinality(Chunks)
           M == Deepest(req)
           k == IF cursor = None THEN 0 ELSE ImpliedRank(cursor.score)
           depth == k + n + 1
           fetched == UNION {ArmRows(c, req, depth) : c \in active}
           R == After(cursor, fetched)
           page == Page(req, cursor)
<1>1. n \in Nat /\ n > 0 /\ N \in Nat /\ M \in Nat /\ M <= N
  BY LimitType, RequestType, DeepestType, FS_CardinalityType DEF SearchAssumptions, BoundsAssumption
<1>2. k \in Nat /\ (cursor # None => \A j \in 1..M : j > k => Cross(j) < cursor.score)
  <2>1. CASE cursor = None
    BY <2>1
  <2>2. CASE cursor # None
    <3>1. PICK r \in 1..M : cursor.score = Cross(r)
      BY <2>2 DEF CursorOK
    <3>2. k = ImpliedRank(Cross(r))
      BY <2>2, <3>1
    <3>3. k \in Nat /\ k >= r /\ \A j \in 1..M : r < j => Cross(j) < Cross(r)
      BY <3>2, CrossFalls DEF SearchAssumptions
    <3> HIDE DEF k, M
    <3>4. \A j \in 1..M : j > k => r < j
      BY <3>3, <1>1
    <3> QED
      BY <3>1, <3>3, <3>4
  <2> QED
    BY <2>1, <2>2
<1>3. depth \in Nat /\ Depth(cursor, n) = depth
  <2>1. Depth(cursor, n) = depth
    BY DEF Depth
  <2> HIDE DEF k, n
  <2> QED
    BY <1>1, <1>2, <2>1
<1> HIDE DEF k
<1>4. active \subseteq Searchable /\ Searchable \subseteq Nat
  BY DEF ActiveOK, SearchAssumptions, BoundsAssumption
<1>5. W = UNION {ArmRows(c, req, N) : c \in active}
  BY DEF Standing
<1>6. IsFiniteSet(W) /\ Placed(W)
  BY StandingType
<1>7. \A c \in active : \A a \in ArmRows(c, req, N) :
        a.corpus = c /\ a.score = Cross(a.rank) /\ a.rank \in 1..M /\ a.rank <= Cardinality(Rows(c, req))
  BY <1>1, <1>4, ArmType
<1>8. \A c \in active : ArmRows(c, req, depth) \subseteq ArmRows(c, req, N)
  <2> TAKE c \in active
  <2>1. \A a \in ArmRows(c, req, depth) : a.rank \in 1..M
    <3> HIDE DEF depth
    <3> QED
      BY <1>3, <1>4, ArmType
  <2> HIDE DEF depth, N, M
  <2>2. \A a \in ArmRows(c, req, depth) : a.rank <= N
    BY <1>1, <2>1
  <2> QED
    BY <1>1, <1>3, <1>4, <2>2, ArmDeepens
<1>9. R \in SUBSET W /\ fetched \subseteq W /\ \A w \in fetched : w \in R <=> Beyond(cursor, w)
  <2>1. fetched \subseteq W
    <3> HIDE DEF depth, N, W
    <3> QED
      BY <1>5, <1>8
  <2> HIDE DEF fetched
  <2> QED
    BY <2>1 DEF After, Beyond
<1>10. \A a, b \in W : Fused(a, b) <=> Follows(a, b)
  <2> TAKE a, b \in W
  <2>1. PICK c \in active : a \in ArmRows(c, req, N)
    BY <1>5
  <2>2. PICK d \in active : b \in ArmRows(d, req, N)
    BY <1>5
  <2>3. /\ a.corpus = c /\ a.score = Cross(a.rank) /\ a.rank \in 1..M
        /\ b.corpus = d /\ b.score = Cross(b.rank) /\ b.rank \in 1..M
    BY <1>7, <2>1, <2>2
  <2>4. /\ a.rank < b.rank => b.score < a.score
        /\ b.rank < a.rank => a.score < b.score
    BY <2>3, CrossFalls DEF SearchAssumptions
  <2>5. a.rank = b.rank /\ c = d => a = b
    BY <1>1, <1>4, <2>1, <2>2, ArmType
  <2>6. a.score \in Nat /\ b.score \in Nat /\ a.id \in Nat /\ b.id \in Nat /\ c \in Nat /\ d \in Nat
    BY <1>4, <1>6 DEF Placed
  <2>7. a.rank \in Nat /\ b.rank \in Nat
    BY <1>1, <2>3
  <2>8. a.rank = b.rank => a.score = b.score
    BY <2>3
  <2>9. CASE a.rank < b.rank
    BY <2>4, <2>6, <2>7, <2>9 DEF Fused, Follows
  <2>10. CASE b.rank < a.rank
    BY <2>4, <2>6, <2>7, <2>10 DEF Fused, Follows
  <2>11. CASE a.rank = b.rank
    <3>1. a.score = b.score
      BY <2>8, <2>11
    <3>2. Fused(a, b) <=> c < d
      BY <2>3, <2>7, <2>11 DEF Fused
    <3>3. Follows(a, b) <=> d > c \/ (c = d /\ b.id > a.id)
      BY <2>3, <2>6, <3>1 DEF Follows
    <3> QED
      BY <2>5, <2>6, <2>11, <3>2, <3>3
  <2> QED
    BY <2>7, <2>9, <2>10, <2>11
<1>11. page = TopOf(R, WalkOrder(R), n)
  <2>1. page = FirstRows(R, Fused, n)
    BY <1>3 DEF Page
  <2> HIDE DEF R, W, page
  <2>2. \A x \in R : Ahead(R, Fused, x) = Place(R, WalkOrder(R), x)
    <3> TAKE x \in R
    <3>1. {y \in R : Fused(y, x)} = {y \in R : <<y, x>> \in WalkOrder(R)}
      BY <1>9, <1>10 DEF WalkOrder
    <3> QED
      BY <3>1 DEF Ahead, Place
  <2>3. \A i : (CHOOSE x \in R : Ahead(R, Fused, x) = i - 1) = CHOOSE x \in R : Place(R, WalkOrder(R), x) = i - 1
    BY <2>2
  <2> QED
    BY <2>1, <2>3 DEF FirstRows, TopOf
<1>12. IsFiniteSet(R) /\ Placed(R) /\ Orders(WalkOrder(R), R)
       /\ \A a, b \in R : <<a, b>> \in WalkOrder(R) <=> Follows(a, b)
  <2> HIDE DEF R, W
  <2> QED
    BY <1>6, <1>9, OrderedPart
<1>13. /\ page \in Seq(R) /\ Len(page) = Least(n, Cardinality(R)) /\ Len(page) <= n
       /\ \A i \in DOMAIN page : Place(R, WalkOrder(R), page[i]) = i - 1
       /\ \A i, j \in DOMAIN page : i < j => Follows(page[i], page[j])
       /\ \A x \in R : (\A i \in DOMAIN page : page[i] # x)
            => Len(page) = n /\ \A i \in DOMAIN page : Follows(page[i], x)
  <2> HIDE DEF R, n, page
  <2> QED
    BY <1>1, <1>11, <1>12, TopOfWalk
<1>14. ASSUME NEW w \in W, Beyond(cursor, w), w \notin fetched
       PROVE  Len(page) = n /\ \A i \in DOMAIN page : Follows(page[i], w)
  <2>1. PICK c \in active : w \in ArmRows(c, req, N)
    BY <1>5
  <2> DEFINE Q == {a \in ArmRows(c, req, depth) : a.rank \in (k + 1)..(k + n)}
             g == [a \in Q |-> a.rank]
  <2>2. w.rank \in 1..M /\ w.rank > k + n /\ w.rank <= Cardinality(Rows(c, req))
    <3>1. w.rank \in 1..M /\ w.rank <= Cardinality(Rows(c, req))
      BY <1>7, <2>1
    <3>2. ~(w.rank <= depth)
      <4> SUFFICES ASSUME w.rank <= depth PROVE FALSE
        OBVIOUS
      <4>1. w \in ArmRows(c, req, depth)
        <5> HIDE DEF depth, N, fetched
        <5> QED
          BY <1>1, <1>3, <1>4, <2>1, ArmDeepens
      <4> QED
        BY <1>14, <4>1
    <3> HIDE DEF n, N, M
    <3> QED
      BY <1>1, <1>2, <3>1, <3>2
  <2>3. Q \subseteq R
    <3> SUFFICES ASSUME NEW a \in Q PROVE a \in R
      OBVIOUS
    <3>1. a \in ArmRows(c, req, depth) /\ a \in fetched /\ a \in ArmRows(c, req, N)
      BY <1>8
    <3>2. a.rank \in 1..M /\ a.score = Cross(a.rank)
      BY <1>7, <3>1
    <3>3. a.rank > k
      <4> HIDE DEF n
      <4> QED
        BY <1>1, <1>2
    <3>4. Beyond(cursor, a)
      BY <1>2, <3>2, <3>3 DEF Beyond, Follows
    <3> QED
      BY <1>9, <3>1, <3>4
  <2>4. g \in Bijection(Q, (k + 1)..(k + n))
    <3>1. \A a, b \in Q : a.rank = b.rank => a = b
      <4> HIDE DEF depth
      <4> QED
        BY <1>3, <1>4, ArmType
    <3>2. ASSUME NEW j \in (k + 1)..(k + n) PROVE \E a \in Q : a.rank = j
      <4>1. j \in 1..Cardinality(Rows(c, req)) /\ j <= depth
        <5>1. Cardinality(Rows(c, req)) \in Nat
          BY <1>4, RowsType, FS_CardinalityType
        <5> HIDE DEF n, N, M
        <5> QED
          BY <1>1, <1>2, <2>2, <5>1
      <4>2. PICK a \in ArmRows(c, req, depth) : a.rank = j
        <5> HIDE DEF depth
        <5> QED
          BY <1>3, <1>4, <4>1, ArmType
      <4> QED
        BY <4>2
    <3> HIDE DEF depth, n
    <3>3. g \in [Q -> (k + 1)..(k + n)]
      OBVIOUS
    <3> QED
      BY <3>1, <3>2, <3>3 DEF Bijection, Injection, Surjection, IsInjective
  <2>5. IsFiniteSet(Q) /\ Cardinality(Q) = n
    <3>1. IsFiniteSet((k + 1)..(k + n)) /\ Cardinality((k + 1)..(k + n)) = n
      <4> HIDE DEF n
      <4>1. k + 1 \in Int /\ k + n \in Int /\ n > 0
        BY <1>1, <1>2
      <4>2. (k + n) - (k + 1) + 1 = n /\ ~(k + 1 > k + n)
        BY <1>1, <1>2
      <4>3. /\ IsFiniteSet((k + 1)..(k + n))
            /\ Cardinality((k + 1)..(k + n)) = IF k + 1 > k + n THEN 0 ELSE (k + n) - (k + 1) + 1
        BY <4>1, FS_Interval
      <4> QED
        BY <4>2, <4>3
    <3>2. IsFiniteSet(Q)
      <4> HIDE DEF Q, R
      <4> QED
        BY <1>12, <2>3, FS_Subset
    <3> HIDE DEF Q, g, n
    <3>3. Cardinality(Q) = Cardinality((k + 1)..(k + n))
      BY <2>4, <3>2, FS_Bijection DEF ExistsBijection
    <3> QED
      BY <3>1, <3>2, <3>3
  <2>6. \A a \in Q : Follows(a, w)
    <3> TAKE a \in Q
    <3>1. a \in ArmRows(c, req, N)
      BY <1>8
    <3>2. a.rank \in 1..M /\ a.score = Cross(a.rank) /\ w.score = Cross(w.rank)
      BY <1>7, <2>1, <3>1
    <3>3. a.rank < w.rank
      <4> HIDE DEF n, N, M
      <4> QED
        BY <1>1, <1>2, <2>2
    <3>4. w.score < a.score
      BY <2>2, <3>2, <3>3, CrossFalls DEF SearchAssumptions
    <3> QED
      BY <3>4 DEF Follows
  <2>7. Cardinality(R) \in Nat /\ n <= Cardinality(R)
    <3> HIDE DEF R, Q, n
    <3> QED
      BY <1>12, <2>3, <2>5, FS_Subset, FS_CardinalityType
  <2>8. Len(page) = n
    <3> HIDE DEF R, n, page
    <3> QED
      BY <1>1, <1>13, <2>7 DEF Least
  <2>9. ASSUME NEW i \in DOMAIN page PROVE Follows(page[i], w)
    <3>1. page[i] \in R /\ i \in 1..n
      <4> HIDE DEF R, n, page
      <4> QED
        BY <1>13, <2>8
    <3>2. page[i] \in W /\ page[i] # w
      BY <1>9, <1>14, <3>1 DEF After
    <3>3. Orders(WalkOrder(W), W) /\ \A a, b \in W : <<a, b>> \in WalkOrder(W) <=> Follows(a, b)
      <4> HIDE DEF W
      <4> QED
        BY <1>6, OrderedPart
    <3> SUFFICES ASSUME ~Follows(page[i], w) PROVE FALSE
      OBVIOUS
    <3>4. Follows(w, page[i])
      BY <3>2, <3>3 DEF Orders
    <3>5. \A a \in Q : Follows(a, page[i])
      <4> HIDE DEF Q, R, W, page
      <4> QED
        BY <1>9, <2>3, <2>6, <3>2, <3>3, <3>4 DEF Orders
    <3> DEFINE B == {y \in R : <<y, page[i]>> \in WalkOrder(R)}
    <3>6. Q \subseteq B
      <4> HIDE DEF Q, R, page
      <4> QED
        BY <1>12, <2>3, <3>1, <3>5
    <3>7. IsFiniteSet(B) /\ Cardinality(B) = i - 1
      <4>1. B \subseteq R
        OBVIOUS
      <4>2. IsFiniteSet(B)
        <5> HIDE DEF B, R
        <5> QED
          BY <1>12, <4>1, FS_Subset
      <4>3. Cardinality(B) = Place(R, WalkOrder(R), page[i])
        BY DEF Place
      <4> HIDE DEF B, R, page
      <4> QED
        BY <1>13, <4>2, <4>3
    <3>8. n <= i - 1
      <4> HIDE DEF B, Q, n
      <4> QED
        BY <2>5, <3>6, <3>7, FS_Subset
    <3> HIDE DEF n
    <3> QED
      BY <1>1, <3>1, <3>8
  <2> QED
    BY <2>8, <2>9
<1>15. ASSUME NEW w \in W, Beyond(cursor, w), \A i \in DOMAIN page : page[i] # w
       PROVE  Len(page) = n /\ \A i \in DOMAIN page : Follows(page[i], w)
  <2>1. CASE w \in fetched
    <3>1. w \in R
      BY <1>9, <1>15, <2>1
    <3> HIDE DEF R, page, n
    <3> QED
      BY <1>13, <1>15, <3>1
  <2>2. CASE w \notin fetched
    BY <1>14, <1>15, <2>2
  <2> QED
    BY <2>1, <2>2
<1>16. page \in Seq(W) /\ \A i \in DOMAIN page : Beyond(cursor, page[i])
  <2>1. \A r \in R : Beyond(cursor, r)
    BY DEF After, Beyond
  <2> HIDE DEF R, W, page
  <2> QED
    BY <1>9, <1>13, <2>1
<1> HIDE DEF W, page, n
<1> QED
  BY <1>13, <1>15, <1>16 DEF IsTop, W, page, n

LEMMA PageIsTop ==
  ASSUME SearchAssumptions, ContentsOK, ActiveOK, NEW req \in Requests,
         NEW cursor, CursorOK(req, cursor), cursor # None => cursor.kind = CursorKind(req),
         NEW multi \in BOOLEAN, multi <=> Cardinality(active) # 1
  PROVE  IsTop(Page(req, cursor), Standing(req, multi), cursor, Limit(req))
<1>1. CASE multi
  BY <1>1, SeveralPages DEF CursorKind
<1>2. CASE ~multi
  BY <1>2, SinglePage
<1> QED
  BY <1>1, <1>2

-----------------------------------------------------------------------------
(* The authority re-rank.                                                  *)

LEMMA LeastOf ==
  ASSUME NEW n \in Nat, NEW S \in SUBSET (0..n), S # {}
  PROVE  \E x \in S : \A y \in S : x <= y
<1> DEFINE L == {p \in S \X S : p[1] < p[2]}
<1>1. Orders(L, S)
  BY DEF Orders
<1>2. IsFiniteSet(S)
  <2>1. IsFiniteSet(0..n)
    BY FS_Interval
  <2> QED
    BY <2>1, FS_Subset
<1>3. PICK x \in S : \A y \in S : <<y, x>> \notin L
  <2> HIDE DEF L
  <2> QED
    BY <1>1, <1>2, FirstExists
<1>4. \A y \in S : x <= y
  <2> TAKE y \in S
  <2>1. <<y, x>> \in S \X S /\ <<y, x>>[1] = y /\ <<y, x>>[2] = x /\ y \in Nat /\ x \in Nat
    OBVIOUS
  <2> QED
    BY <1>3, <2>1
<1> QED
  BY <1>4

LeadsAt(page, f, i) ==
  f[i] = IF i > 1 /\ InBand(page[f[i - 1]], page[i]) THEN f[i - 1] ELSE i

LEMMA LeadersExist ==
  ASSUME NEW page, NEW n \in Nat, NEW m \in 0..n
  PROVE  \E f \in [1..m -> 1..n] : \A i \in 1..m : LeadsAt(page, f, i)
<1> DEFINE Good(j) == \E f \in [1..j -> 1..n] : \A i \in 1..j : LeadsAt(page, f, i)
           S == {j \in 0..n : ~Good(j)}
<1> SUFFICES S = {}
  OBVIOUS
<1> SUFFICES ASSUME S # {} PROVE FALSE
  OBVIOUS
<1>1. PICK j \in S : \A y \in S : j <= y
  <2> HIDE DEF Good
  <2> QED
    BY LeastOf
<1>2. Good(0)
  <2> DEFINE f == [i \in 1..0 |-> 1]
  <2>1. f \in [1..0 -> 1..n] /\ \A i \in 1..0 : LeadsAt(page, f, i)
    OBVIOUS
  <2> QED
    BY <2>1
<1>3. j \in 1..n /\ Good(j - 1)
  <2> HIDE DEF Good
  <2>1. j # 0
    BY <1>2
  <2>2. j \in 1..n
    BY <2>1
  <2>3. j - 1 \in 0..n /\ ~(j <= j - 1)
    BY <2>2
  <2> QED
    BY <1>1, <2>2, <2>3
<1>4. PICK f \in [1..(j - 1) -> 1..n] : \A i \in 1..(j - 1) : LeadsAt(page, f, i)
  BY <1>3
<1> DEFINE last == IF j > 1 /\ InBand(page[f[j - 1]], page[j]) THEN f[j - 1] ELSE j
           g == [i \in 1..j |-> IF i = j THEN last ELSE f[i]]
<1>5. j > 1 => j - 1 \in 1..(j - 1) /\ f[j - 1] \in 1..n
  BY <1>3
<1>6. last \in 1..n
  BY <1>3, <1>5
<1>7. g \in [1..j -> 1..n]
  <2>1. \A i \in 1..j : i # j => i \in 1..(j - 1)
    BY <1>3
  <2> HIDE DEF last
  <2> QED
    BY <1>6, <2>1
<1>8. ASSUME NEW i \in 1..j PROVE LeadsAt(page, g, i)
  <2>1. CASE i = j
    <3>1. g[i] = last
      BY <2>1
    <3>2. j > 1 => g[j - 1] = f[j - 1]
      BY <1>3
    <3> QED
      BY <1>3, <2>1, <3>1, <3>2 DEF LeadsAt
  <2>2. CASE i # j
    <3>1. i \in 1..(j - 1) /\ g[i] = f[i] /\ (i > 1 => g[i - 1] = f[i - 1])
      BY <1>3, <2>2
    <3>2. LeadsAt(page, f, i)
      BY <1>4, <3>1
    <3> HIDE DEF g
    <3> QED
      BY <3>1, <3>2 DEF LeadsAt
  <2> QED
    BY <2>1, <2>2
<1>9. Good(j)
  <2> HIDE DEF g
  <2> QED
    BY <1>7, <1>8
<1> QED
  BY <1>9

(* The clusters of a page are intervals, each of its leader and of rows in *)
(* the leader's band.                                                      *)
LEMMA LeadersType ==
  ASSUME NEW page, NEW n \in Nat, DOMAIN page = 1..n
  PROVE  LET lead == Leaders(page)
         IN  /\ lead \in [1..n -> 1..n]
             /\ \A i \in 1..n : LeadsAt(page, lead, i)
<1>1. PICK f \in [1..n -> 1..n] : \A i \in 1..n : LeadsAt(page, f, i)
  <2>1. n \in 0..n
    OBVIOUS
  <2> QED
    BY <2>1, LeadersExist
<1> DEFINE Is(g) == g = [i \in DOMAIN page |->
                           IF i > 1 /\ InBand(page[g[i - 1]], page[i]) THEN g[i - 1] ELSE i]
<1>2. Is(f)
  <2> DEFINE h == [i \in DOMAIN page |->
                     IF i > 1 /\ InBand(page[f[i - 1]], page[i]) THEN f[i - 1] ELSE i]
  <2>1. f = [i \in 1..n |-> f[i]]
    OBVIOUS
  <2>2. \A i \in 1..n : f[i] = IF i > 1 /\ InBand(page[f[i - 1]], page[i]) THEN f[i - 1] ELSE i
    BY <1>1 DEF LeadsAt
  <2>3. f = h
    BY <2>1, <2>2
  <2> QED
    BY <2>3
<1>3. Leaders(page) = CHOOSE g : Is(g)
  BY DEF Leaders
<1> HIDE DEF Is
<1>4. Is(Leaders(page))
  BY <1>2, <1>3
<1> DEFINE lead == Leaders(page)
<1>5. lead = [i \in 1..n |-> IF i > 1 /\ InBand(page[lead[i - 1]], page[i]) THEN lead[i - 1] ELSE i]
  BY <1>4 DEF Is
<1> HIDE DEF lead
<1>6. \A i \in 1..n : LeadsAt(page, lead, i)
  BY <1>5 DEF LeadsAt
<1>7. DOMAIN lead = 1..n
  BY <1>5
<1>8. \A i \in 1..n : lead[i] \in 1..n
  <2> DEFINE S == {i \in 1..n : lead[i] \notin 1..n}
  <2> SUFFICES ASSUME S # {} PROVE FALSE
    OBVIOUS
  <2>1. S \in SUBSET (0..n)
    OBVIOUS
  <2>2. PICK i \in S : \A j \in S : i <= j
    <3> HIDE DEF S
    <3> QED
      BY <2>1, LeastOf
  <2>3. CASE i > 1 /\ InBand(page[lead[i - 1]], page[i])
    <3>1. lead[i] = lead[i - 1] /\ i - 1 \in 1..n /\ i - 1 \notin S
      BY <1>6, <2>2, <2>3 DEF LeadsAt
    <3> QED
      BY <3>1
  <2>4. CASE ~(i > 1 /\ InBand(page[lead[i - 1]], page[i]))
    BY <1>6, <2>2, <2>4 DEF LeadsAt
  <2> QED
    BY <2>3, <2>4
<1> QED
  BY <1>5, <1>6, <1>8 DEF lead

LEMMA Clusters ==
  ASSUME NEW page, NEW n \in Nat, DOMAIN page = 1..n
  PROVE  LET lead == Leaders(page)
         IN  /\ \A i \in 1..n : lead[i] \in 1..n /\ lead[i] <= i
             /\ \A i, j \in 1..n : i <= j => lead[i] <= lead[j]
             /\ \A i \in 1..n : lead[i] = i \/ InBand(page[lead[i]], page[i])
<1> DEFINE lead == Leaders(page)
<1>1. lead \in [1..n -> 1..n] /\ \A i \in 1..n : LeadsAt(page, lead, i)
  BY LeadersType
<1> HIDE DEF lead
<1>2. \A i \in 1..n : i > 1 => i - 1 \in 1..n
  OBVIOUS
<1>3. \A i \in 1..n : lead[i] <= i
  <2> DEFINE S == {i \in 1..n : ~(lead[i] <= i)}
  <2> SUFFICES ASSUME S # {} PROVE FALSE
    OBVIOUS
  <2>1. S \in SUBSET (0..n)
    OBVIOUS
  <2>2. PICK i \in S : \A j \in S : i <= j
    <3> HIDE DEF S
    <3> QED
      BY <2>1, LeastOf
  <2>3. CASE i > 1 /\ InBand(page[lead[i - 1]], page[i])
    <3>1. lead[i] = lead[i - 1] /\ i - 1 \in 1..n /\ i - 1 \notin S
      BY <1>1, <2>2, <2>3 DEF LeadsAt
    <3> QED
      BY <1>1, <3>1
  <2>4. CASE ~(i > 1 /\ InBand(page[lead[i - 1]], page[i]))
    BY <1>1, <2>2, <2>4 DEF LeadsAt
  <2> QED
    BY <2>3, <2>4
<1>4. ASSUME NEW i \in 1..n PROVE \A j \in 1..n : i <= j => lead[i] <= lead[j]
  <2> DEFINE S == {j \in 1..n : i <= j /\ ~(lead[i] <= lead[j])}
  <2> SUFFICES ASSUME S # {} PROVE FALSE
    OBVIOUS
  <2>1. S \in SUBSET (0..n)
    OBVIOUS
  <2>2. PICK j \in S : \A k \in S : j <= k
    <3> HIDE DEF S
    <3> QED
      BY <2>1, LeastOf
  <2>3. j > i /\ j - 1 \in 1..n /\ i <= j - 1 /\ j - 1 \notin S
    <3>1. j # i
      BY <1>1
    <3> QED
      BY <2>2, <3>1
  <2>4. lead[i] <= lead[j - 1]
    BY <2>3
  <2>5. lead[j] = lead[j - 1] \/ lead[j] = j
    BY <1>1 DEF LeadsAt
  <2>6. lead[i] \in 1..n /\ lead[j] \in 1..n /\ lead[i] <= i
    BY <1>1, <1>3
  <2> QED
    BY <2>3, <2>4, <2>5, <2>6
<1>5. ASSUME NEW i \in 1..n PROVE lead[i] = i \/ InBand(page[lead[i]], page[i])
  <2>1. CASE i > 1 /\ InBand(page[lead[i - 1]], page[i])
    <3>1. lead[i] = lead[i - 1]
      BY <1>1, <2>1 DEF LeadsAt
    <3> QED
      BY <2>1, <3>1
  <2>2. CASE ~(i > 1 /\ InBand(page[lead[i - 1]], page[i]))
    BY <1>1, <2>2 DEF LeadsAt
  <2> QED
    BY <2>1, <2>2
<1> QED
  BY <1>1, <1>3, <1>4, <1>5 DEF lead

(* A row that is in the band of the leader is in the band of any row that  *)
(* is ranked between the two.                                              *)
LEMMA BandShrinks ==
  ASSUME BoundsAssumption, NEW a, NEW b, NEW c, a.score \in Nat, b.score \in Nat, c.score \in Nat,
         b.score <= a.score, InBand(a, c)
  PROVE  InBand(b, c)
<1> DEFINE A == a.score
           B == b.score
           C == c.score
           P == BandPercent
<1>1. A \in Nat /\ B \in Nat /\ C \in Nat /\ B <= A /\ (A - C) * 100 <= P * A
  BY DEF InBand
<1>2. P \in Nat /\ P <= 100
  BY DEF BoundsAssumption
<1>3. InBand(b, c) <=> (B - C) * 100 <= P * B
  BY DEF InBand
<1> HIDE DEF A, B, C, P
<1> DEFINE D == A - B
<1>4. D \in Nat /\ A = B + D
  BY <1>1
<1> HIDE DEF D
<1>5. P * A = P * B + P * D /\ P * B \in Nat /\ P * D \in Nat
  BY <1>1, <1>2, <1>4
<1>6. P * D <= 100 * D
  <2> DEFINE E == 100 - P
  <2>1. E \in Nat /\ P + E = 100
    BY <1>2
  <2> HIDE DEF E
  <2>2. E * D \in Nat /\ (P + E) * D = P * D + E * D
    BY <1>2, <1>4, <2>1
  <2>3. (P + E) * D = 100 * D
    BY <2>1
  <2> QED
    BY <1>4, <1>5, <2>2, <2>3
<1> DEFINE X == P * B
           Y == P * D
<1>7. X \in Nat /\ Y \in Nat /\ (A - C) * 100 <= X + Y /\ Y <= 100 * D
  BY <1>1, <1>5, <1>6
<1>8. (B - C) * 100 <= X
  <2> HIDE DEF X, Y
  <2> QED
    BY <1>1, <1>4, <1>7
<1> QED
  BY <1>3, <1>8

LEMMA TierType ==
  ASSUME NEW doc
  PROVE  AuthorityTier(doc).top \in Nat /\ AuthorityTier(doc).tier \in Nat
<1>1. CASE Source[doc] = "cass"
  BY <1>1 DEF AuthorityTier
<1>2. CASE Source[doc] = "inca"
  BY <1>2 DEF AuthorityTier
<1>3. CASE Source[doc] = "capp"
  BY <1>3 DEF AuthorityTier
<1>4. CASE Source[doc] = "jade"
  <2>1. AuthorityTier(doc) = [order |-> "administrative", top |-> 2,
             tier |-> CASE Marker[doc] = "A" -> 2 [] Marker[doc] = "B" -> 1 [] OTHER -> 0]
    BY <1>4 DEF AuthorityTier
  <2>2. (CASE Marker[doc] = "A" -> 2 [] Marker[doc] = "B" -> 1 [] OTHER -> 0) \in Nat
    <3>1. CASE Marker[doc] = "A"
      BY <3>1
    <3>2. CASE Marker[doc] = "B"
      BY <3>2
    <3>3. CASE Marker[doc] # "A" /\ Marker[doc] # "B"
      BY <3>3
    <3> QED
      BY <3>1, <3>2, <3>3
  <2> QED
    BY <2>1, <2>2
<1>5. CASE Source[doc] \notin {"cass", "inca", "capp", "jade"}
  BY <1>5 DEF AuthorityTier
<1> QED
  BY <1>1, <1>2, <1>3, <1>4, <1>5

(* Where the row that ends up at position i was.                           *)
At(req, page, i) == IF RowTier(req, page[i]).order = "unknown" THEN i ELSE Dealt(req, page, i)

LEMMA RerankedIs ==
  ASSUME NEW req, NEW page, NEW n \in Nat, DOMAIN page = 1..n
  PROVE  Reranked(req, page) = [i \in 1..n |-> page[At(req, page, i)]]
BY DEF Reranked, At

Dealing(req, page, slots) == {p \in slots \X slots : Better(req, page, p[1], p[2])}
Standings(slots) == {p \in slots \X slots : p[1] < p[2]}

LEMMA SlotsNumbered ==
  ASSUME BoundsAssumption, NEW req, NEW page, NEW n \in Nat, DOMAIN page = 1..n,
         \A i \in 1..n : page[i].score \in Nat, NEW i \in 1..n
  PROVE  LET slots == Slots(req, page, i)
             B == Dealing(req, page, slots)
             L == Standings(slots)
         IN  /\ slots \subseteq 1..n /\ i \in slots
             /\ \A j \in slots : Slots(req, page, j) = slots
             /\ Dealt(req, page, i) \in slots
             /\ Place(slots, B, Dealt(req, page, i)) = Place(slots, L, i)
             /\ \A x, y \in slots : Place(slots, B, x) = Place(slots, B, y) => x = y
             /\ \A x, y \in slots : Place(slots, L, x) = Place(slots, L, y) => x = y
<1> DEFINE slots == Slots(req, page, i)
           B == Dealing(req, page, slots)
           L == Standings(slots)
<1>1. slots \subseteq 1..n /\ i \in slots /\ \A j \in slots : Slots(req, page, j) = slots
  BY DEF Slots
<1>2. IsFiniteSet(slots) /\ Cardinality(slots) \in Nat
  <2>1. IsFiniteSet(1..n)
    BY FS_Interval
  <2> HIDE DEF slots
  <2> QED
    BY <1>1, <2>1, FS_Subset, FS_CardinalityType
<1>3. \A j \in 1..n : Adjusted(req, page[j]) \in Nat
  <2> TAKE j \in 1..n
  <2> DEFINE t == RowTier(req, page[j])
  <2>1. t.top \in Nat /\ t.tier \in Nat /\ Weight \in Nat /\ page[j].score \in Nat
    BY TierType DEF RowTier, BoundsAssumption
  <2>2. Adjusted(req, page[j]) = page[j].score * (t.top + Weight * t.tier)
    BY DEF Adjusted
  <2> HIDE DEF t
  <2>3. Weight * t.tier \in Nat
    BY <2>1
  <2>4. t.top + Weight * t.tier \in Nat
    BY <2>1, <2>3
  <2> DEFINE m == t.top + Weight * t.tier
  <2> HIDE DEF m
  <2> QED
    BY <2>1, <2>2, <2>4 DEF m
<1> HIDE DEF slots
<1>a. \A j \in slots : j \in Nat /\ Adjusted(req, page[j]) \in Nat
  BY <1>1, <1>3
<1>4. Orders(L, slots)
  <2>1. \A x, y \in slots : <<x, y>> \in L <=> x < y
    BY DEF Standings
  <2> HIDE DEF L
  <2> QED
    BY <1>a, <2>1 DEF Orders
<1>5. Orders(B, slots)
  <2>1. \A x, y \in slots : <<x, y>> \in B <=> Better(req, page, x, y)
    BY DEF Dealing
  <2>2. \A x \in slots : ~Better(req, page, x, x)
    BY <1>a DEF Better
  <2>3. \A x, y, z \in slots : Better(req, page, x, y) /\ Better(req, page, y, z) => Better(req, page, x, z)
    BY <1>a DEF Better
  <2>4. \A x, y \in slots : x # y => Better(req, page, x, y) \/ Better(req, page, y, x)
    BY <1>a DEF Better
  <2> HIDE DEF B
  <2> QED
    BY <2>1, <2>2, <2>3, <2>4 DEF Orders
<1>6. \A j \in slots : /\ {k \in slots : Better(req, page, k, j)} = {k \in slots : <<k, j>> \in B}
                       /\ {k \in slots : k < i} = {k \in slots : <<k, i>> \in L}
  BY <1>1 DEF Dealing, Standings
<1>7. Dealt(req, page, i) = CHOOSE j \in slots : Place(slots, B, j) = Place(slots, L, i)
  <2>1. \A j \in slots : Cardinality({k \in slots : Better(req, page, k, j)}) = Place(slots, B, j)
    BY <1>6 DEF Place
  <2>2. Cardinality({k \in slots : k < i}) = Place(slots, L, i)
    BY <1>1, <1>6 DEF Place
  <2>3. Dealt(req, page, i) = CHOOSE j \in slots : Cardinality({k \in slots : Better(req, page, k, j)})
            = Cardinality({k \in slots : k < i})
    BY DEF Dealt, slots
  <2> HIDE DEF B, L
  <2> QED
    BY <2>1, <2>2, <2>3
<1> HIDE DEF B, L
<1>8. /\ \A x \in slots : Place(slots, L, x) \in 0..(Cardinality(slots) - 1)
      /\ \A x, y \in slots : Place(slots, L, x) = Place(slots, L, y) => x = y
      /\ \A x, y \in slots : Place(slots, B, x) = Place(slots, B, y) => x = y
      /\ \A m \in 0..(Cardinality(slots) - 1) : \E x \in slots : Place(slots, B, x) = m
  BY <1>2, <1>4, <1>5, PlacesNumber
<1>9. \E j \in slots : Place(slots, B, j) = Place(slots, L, i)
  BY <1>1, <1>8
<1>10. Dealt(req, page, i) \in slots /\ Place(slots, B, Dealt(req, page, i)) = Place(slots, L, i)
  BY <1>7, <1>9
<1> QED
  BY <1>1, <1>8, <1>10 DEF slots, B, L

(* The re-rank moves rows about inside of their clusters.                  *)
LEMMA RerankPermutes ==
  ASSUME BoundsAssumption, NEW req, NEW page, NEW n \in Nat, DOMAIN page = 1..n,
         \A i \in 1..n : page[i].score \in Nat
  PROVE  /\ \A i \in 1..n : At(req, page, i) \in 1..n /\ Leaders(page)[At(req, page, i)] = Leaders(page)[i]
         /\ \A i, j \in 1..n : At(req, page, i) = At(req, page, j) => i = j
         /\ \A m \in 1..n : \E i \in 1..n : At(req, page, i) = m
<1>1. ASSUME NEW i \in 1..n
      PROVE  /\ At(req, page, i) \in 1..n /\ Leaders(page)[At(req, page, i)] = Leaders(page)[i]
             /\ RowTier(req, page[At(req, page, i)]).order = RowTier(req, page[i]).order
  <2>1. CASE RowTier(req, page[i]).order = "unknown"
    BY <2>1 DEF At
  <2>2. CASE RowTier(req, page[i]).order # "unknown"
    <3>1. At(req, page, i) \in Slots(req, page, i) /\ Slots(req, page, i) \subseteq 1..n
      BY <2>2, SlotsNumbered DEF At
    <3> QED
      BY <3>1 DEF Slots
  <2> QED
    BY <2>1, <2>2
<1>2. ASSUME NEW i \in 1..n, NEW j \in 1..n, At(req, page, i) = At(req, page, j) PROVE i = j
  <2>1. RowTier(req, page[i]).order = RowTier(req, page[j]).order
    BY <1>1, <1>2
  <2>2. CASE RowTier(req, page[i]).order = "unknown"
    BY <1>2, <2>1, <2>2 DEF At
  <2>3. CASE RowTier(req, page[i]).order # "unknown"
    <3> DEFINE x == Dealt(req, page, i)
               T == Slots(req, page, i)
    <3>1. x = Dealt(req, page, j)
      BY <1>2, <2>1, <2>3 DEF At
    <3>2. /\ Dealt(req, page, i) \in T /\ i \in T /\ Slots(req, page, Dealt(req, page, i)) = T
          /\ Place(T, Dealing(req, page, T), Dealt(req, page, i)) = Place(T, Standings(T), i)
      <4>1. /\ T \subseteq 1..n /\ i \in T
            /\ \A k \in T : Slots(req, page, k) = T
        BY DEF Slots
      <4>2. Dealt(req, page, i) \in T
        BY SlotsNumbered
      <4>3. Place(T, Dealing(req, page, T), Dealt(req, page, i)) = Place(T, Standings(T), i)
        BY SlotsNumbered
      <4> HIDE DEF T
      <4> QED
        BY <4>1, <4>2, <4>3
    <3>n. \A y, z \in T : Place(T, Standings(T), y) = Place(T, Standings(T), z) => y = z
      <4>1. IsFiniteSet(1..n) /\ T \subseteq 1..n
        BY FS_Interval DEF Slots
      <4>2. IsFiniteSet(T)
        <5> HIDE DEF T
        <5> QED
          BY <4>1, FS_Subset
      <4>3. \A y, z \in T : <<y, z>> \in Standings(T) <=> y < z
        BY DEF Standings
      <4> HIDE DEF T
      <4>4. Orders(Standings(T), T)
        BY <4>1, <4>3 DEF Orders
      <4> QED
        BY <4>2, <4>4, PlacesNumber
    <3> DEFINE U == Slots(req, page, j)
    <3>3. /\ Dealt(req, page, j) \in U /\ j \in U /\ Slots(req, page, Dealt(req, page, j)) = U
          /\ Place(U, Dealing(req, page, U), Dealt(req, page, j)) = Place(U, Standings(U), j)
      BY SlotsNumbered
    <3> HIDE DEF T, U
    <3>4. U = T
      BY <3>1, <3>2, <3>3
    <3>5. j \in T /\ Place(T, Dealing(req, page, T), x) = Place(T, Standings(T), j)
      BY <3>1, <3>3, <3>4
    <3> QED
      BY <3>2, <3>n, <3>5
  <2> QED
    BY <2>2, <2>3
<1> DEFINE f == [i \in 1..n |-> At(req, page, i)]
<1>3. f \in Surjection(1..n, 1..n)
  <2>1. f \in Injection(1..n, 1..n)
    BY <1>1, <1>2 DEF Injection, IsInjective
  <2>2. IsFiniteSet(1..n)
    BY FS_Interval
  <2> HIDE DEF f
  <2> QED
    BY <2>1, <2>2, FS_Injection
<1>4. \A m \in 1..n : \E i \in 1..n : At(req, page, i) = m
  BY <1>3 DEF Surjection
<1> QED
  BY <1>1, <1>2, <1>4

(* No row of the walk is beaten by one that is more relevant by more than  *)
(* the band, unless that one is shown before it.                           *)
LEMMA RerankDominates ==
  ASSUME SearchAssumptions, NEW req, NEW W, Placed(W), NEW page, NEW limit \in Nat,
         IsTop(page, W, None, limit)
  PROVE  /\ Reranked(req, page) \in Seq(W) /\ Len(Reranked(req, page)) = Len(page)
         /\ \A i, j \in DOMAIN Reranked(req, page) : Reranked(req, page)[i] = Reranked(req, page)[j] => i = j
         /\ \A i \in DOMAIN Reranked(req, page), row \in W :
              \/ \E m \in 1..i : Reranked(req, page)[m] = row
              \/ row.score <= Reranked(req, page)[i].score
              \/ InBand(row, Reranked(req, page)[i])
<1> DEFINE n == Len(page)
           lead == Leaders(page)
           at(i) == At(req, page, i)
           reranked == Reranked(req, page)
<1>1. /\ n \in Nat /\ DOMAIN page = 1..n /\ \A i \in 1..n : page[i] \in W
      /\ \A i, j \in 1..n : i < j => Follows(page[i], page[j])
  BY DEF IsTop
<1>2. \A w \in W : w.score \in Nat /\ w.corpus \in Nat /\ w.id \in Nat
  BY DEF Placed
<1>3. \A a, b \in W : Follows(a, b) => b.score <= a.score /\ a # b
  BY <1>2 DEF Follows
<1> HIDE DEF n
<1>4. /\ \A i \in 1..n : at(i) \in 1..n /\ lead[at(i)] = lead[i]
      /\ \A i, j \in 1..n : at(i) = at(j) => i = j
      /\ \A m \in 1..n : \E i \in 1..n : at(i) = m
  BY <1>1, <1>2, RerankPermutes DEF SearchAssumptions
<1>5. /\ \A i \in 1..n : lead[i] \in 1..n /\ lead[i] <= i
      /\ \A i, j \in 1..n : i <= j => lead[i] <= lead[j]
      /\ \A i \in 1..n : lead[i] = i \/ InBand(page[lead[i]], page[i])
  BY <1>1, Clusters
<1>6. reranked = [i \in 1..n |-> page[at(i)]]
  BY <1>1, RerankedIs
<1>7. \A i, j \in 1..n : page[i] = page[j] => i = j
  <2> SUFFICES ASSUME NEW i \in 1..n, NEW j \in 1..n, page[i] = page[j], i # j PROVE FALSE
    OBVIOUS
  <2>1. i < j \/ j < i
    BY <1>1
  <2> QED
    BY <1>1, <1>3, <2>1
<1> HIDE DEF at, lead, reranked
<1>8. reranked \in Seq(W) /\ Len(reranked) = n /\ DOMAIN reranked = 1..n
  <2>1. reranked \in [1..n -> W]
    BY <1>1, <1>4, <1>6
  <2> QED
    BY <1>1, <2>1
<1>9. \A i, j \in 1..n : reranked[i] = reranked[j] => i = j
  BY <1>4, <1>6, <1>7
<1>10. ASSUME NEW i \in 1..n, NEW row \in W, \A m \in 1..i : reranked[m] # row
       PROVE  row.score <= reranked[i].score \/ InBand(row, reranked[i])
  <2>1. reranked[i] = page[at(i)] /\ at(i) \in 1..n /\ page[at(i)] \in W
    BY <1>1, <1>4, <1>6
  <2>2. CASE \A j \in 1..n : page[j] # row
    <3>1. Follows(page[at(i)], row)
      BY <1>1, <2>1, <2>2 DEF IsTop, Beyond
    <3> QED
      BY <1>3, <2>1, <3>1
  <2>3. CASE \E j \in 1..n : page[j] = row
    <3>1. PICK j \in 1..n : page[j] = row
      BY <2>3
    <3>2. PICK m \in 1..n : at(m) = j
      BY <1>4
    <3>3. m > i
      <4>1. reranked[m] = row
        BY <1>6, <3>1, <3>2
      <4>2. m \notin 1..i
        BY <1>10, <4>1
      <4> QED
        BY <1>1, <4>2
    <3>4. lead[j] = lead[m] /\ lead[at(i)] = lead[i] /\ lead[i] <= lead[m]
      <4>1. lead[at(m)] = lead[m] /\ lead[at(i)] = lead[i]
        BY <1>4
      <4>2. i <= m
        BY <1>1, <3>3
      <4>3. lead[i] <= lead[m]
        BY <1>5, <4>2
      <4> QED
        BY <3>2, <4>1, <4>3
    <3>5. CASE at(i) <= j
      <4>1. page[at(i)] = row \/ Follows(page[at(i)], row)
        <5>1. at(i) = j \/ at(i) < j
          BY <1>1, <2>1, <3>5
        <5> QED
          BY <1>1, <2>1, <3>1, <5>1
      <4> QED
        BY <1>2, <1>3, <2>1, <4>1
    <3>6. CASE j < at(i)
      <4>1. lead[j] <= lead[at(i)]
        BY <1>1, <1>5, <2>1, <3>6
      <4>2. lead[j] = lead[at(i)] /\ lead[j] \in 1..n /\ lead[j] <= j
        BY <1>1, <1>5, <2>1, <3>4, <4>1
      <4> DEFINE top == page[lead[j]]
      <4>3. top \in W /\ row.score <= top.score
        <5>1. lead[j] = j \/ lead[j] < j
          BY <1>1, <4>2
        <5>2. top = row \/ Follows(top, row)
          BY <1>1, <3>1, <4>2, <5>1
        <5> QED
          BY <1>1, <1>2, <1>3, <4>2, <5>2
      <4>4. InBand(top, page[at(i)])
        <5>1. lead[at(i)] # at(i)
          BY <1>1, <2>1, <3>6, <4>2
        <5> QED
          BY <1>5, <2>1, <4>2, <5>1
      <4> HIDE DEF top
      <4> QED
        BY <1>2, <2>1, <4>3, <4>4, BandShrinks DEF SearchAssumptions
    <3> QED
      BY <1>1, <2>1, <3>5, <3>6
  <2> QED
    BY <2>2, <2>3
<1>11. \A i \in DOMAIN reranked, row \in W :
         (\E m \in 1..i : reranked[m] = row) \/ row.score <= reranked[i].score \/ InBand(row, reranked[i])
  BY <1>8, <1>10
<1> QED
  BY <1>8, <1>9, <1>11 DEF reranked, n

-----------------------------------------------------------------------------
(* A walk.  Of the rows that stood still, those shown are the ones up to   *)
(* the cursor.                                                             *)

WalkFollows ==
  walk.phase = "open" =>
    /\ walk.req \in Requests /\ ~walk.req.authority
    /\ CursorOK(walk.req, walk.cursor)
    /\ \A row \in walk.steady : row.id \in Ids(ToSet(walk.shown)) <=> ~Follows(walk.cursor, row)

IInv == TypeOK /\ WalkFollows /\ SteadyRowsShownOnce /\ RelevanceDominates

(* The same of a walk that is about to be.                                 *)
Walks ==
  [phase : {"none", "open", "ended", "refused", "exact", "reranked"},
   req : Requests \cup {None}, cursor : Cursors \cup {None},
   shown : Seq(RowSet), steady : SUBSET RowSet]

NoRepeat(w) ==
  \A i, j \in DOMAIN w.shown : w.shown[i].id = w.shown[j].id /\ i # j => w.shown[i].id \notin Ids(w.steady)

WalkGood(w) ==
  /\ w \in Walks /\ (w.phase = "open" <=> w.cursor # None)
  /\ w.phase = "open" =>
       /\ w.req \in Requests /\ ~w.req.authority
       /\ CursorOK(w.req, w.cursor)
       /\ \A row \in w.steady : row.id \in Ids(ToSet(w.shown)) <=> ~Follows(w.cursor, row)
  /\ NoRepeat(w)
  /\ w.phase = "ended" => Ids(w.steady) \subseteq Ids(ToSet(w.shown))
  /\ w.phase = "reranked" =>
       \A i \in DOMAIN w.shown, row \in w.steady :
         \/ row.id \in Ids(ToSet(SubSeq(w.shown, 1, i)))
         \/ row.score <= w.shown[i].score
         \/ InBand(row, w.shown[i])

LEMMA WalkGoodIs ==
  /\ IInv <=> /\ DOMAIN contents = Searchable /\ \A c \in Searchable : contents[c] \in Contents[c]
              /\ active \in (SUBSET Searchable) \ {{}}
              /\ fingerprint \in [Searchable -> Fingerprints]
              /\ applies \in 0..MaxApplies
              /\ WalkGood(walk)
BY DEF IInv, TypeOK, WalkGood, Walks, NoRepeat, WalkFollows, SteadyRowsShownOnce, RelevanceDominates

LEMMA IdsOf ==
  ASSUME NEW T, NEW seq \in Seq(T), NEW x
  PROVE  x \in Ids(ToSet(seq)) <=> \E i \in 1..Len(seq) : seq[i].id = x
BY DEF Ids, ToSet

Apart(W) == \A a, b \in W : a.id = b.id => a = b

(* No row of the set is shown twice; those shown are the ones up to the    *)
(* cursor.                                                                 *)
OnceAtMost(shown, steady) ==
  \A i, j \in DOMAIN shown : shown[i].id = shown[j].id /\ i # j => shown[i].id \notin Ids(steady)

UpTo(cursor, shown, steady) ==
  \A row \in steady : row.id \in Ids(ToSet(shown)) <=> ~Beyond(cursor, row)

(* A page goes on where the pages before it ended.                         *)
LEMMA PageGoesOn ==
  ASSUME BoundsAssumption, NEW W, W \subseteq RowSet, Placed(W), Apart(W),
         NEW cursor, cursor = None \/ cursor \in Cursors,
         NEW limit \in Nat, NEW n \in Nat \ {0}, n < limit,
         NEW page, IsTop(page, W, cursor, limit),
         NEW steady \in SUBSET W, NEW shown \in Seq(RowSet),
         UpTo(cursor, shown, steady), OnceAtMost(shown, steady)
  PROVE  /\ shown \o Prefix(page, n) \in Seq(RowSet)
         /\ OnceAtMost(shown \o Prefix(page, n), steady)
         /\ Len(page) <= n => Ids(steady) \subseteq Ids(ToSet(shown \o Prefix(page, n)))
         /\ Len(page) > n => \A row \in steady :
              row.id \in Ids(ToSet(shown \o Prefix(page, n))) <=> ~Follows(page[n], row)
<1> USE DEF Apart, UpTo, OnceAtMost
<1> DEFINE q == Prefix(page, n)
           all == shown \o q
           m == Len(q)
           l == Len(shown)
<1>1. /\ page \in Seq(W) /\ Len(page) <= limit /\ \A i \in 1..Len(page) : page[i] \in W
      /\ \A i \in 1..Len(page) : Beyond(cursor, page[i])
      /\ \A i, j \in 1..Len(page) : i < j => Follows(page[i], page[j])
      /\ Len(page) \in Nat
  BY DEF IsTop
<1>2. /\ q \in Seq(W) /\ m = Least(n, Len(page)) /\ \A i \in 1..m : q[i] = page[i]
  <2>1. n \in Nat
    OBVIOUS
  <2>2. /\ Prefix(page, n) \in Seq(W) /\ Len(Prefix(page, n)) = Least(n, Len(page))
        /\ \A i \in 1 .. Least(n, Len(page)) : Prefix(page, n)[i] = page[i]
    BY <1>1, <2>1, PrefixOf
  <2> HIDE DEF q
  <2> QED
    BY <2>2 DEF q
<1>3. /\ m \in Nat /\ m <= n /\ m <= Len(page) /\ (Len(page) <= n => m = Len(page))
      /\ (Len(page) > n => m = n)
  BY <1>1, <1>2 DEF Least
<1> HIDE DEF q
<1>4. /\ all \in Seq(RowSet) /\ Len(all) = l + m /\ l \in Nat
      /\ \A i \in 1..l : all[i] = shown[i]
      /\ \A i \in 1..(l + m) : i > l => i - l \in 1..m /\ all[i] = q[i - l]
      /\ \A i \in 1..m : l + i \in 1..(l + m) /\ all[l + i] = q[i]
  <2>1. q \in Seq(RowSet)
    BY <1>2
  <2> QED
    BY <1>3, <2>1
<1> HIDE DEF all, m, l
<1>5. \A a, b \in W : a.score \in Nat /\ a.corpus \in Nat /\ a.id \in Nat
  BY DEF Placed
<1>6. /\ \A a \in W : ~Follows(a, a)
      /\ \A a, b \in W : Follows(a, b) => ~Follows(b, a)
  BY <1>5 DEF Follows
<1>7. \A a, b \in W : Beyond(cursor, a) /\ Follows(a, b) => Beyond(cursor, b)
  <2>1. cursor # None => cursor.score \in Nat /\ cursor.corpus \in Nat /\ cursor.id \in Nat
    BY DEF Cursors, BoundsAssumption
  <2> QED
    BY <1>5, <2>1 DEF Beyond, Follows
<1>8. \A row \in steady : row.id \in Ids(ToSet(all)) <=>
         row.id \in Ids(ToSet(shown)) \/ \E i \in 1..m : q[i] = row
  <2> TAKE row \in steady
  <2>1. row.id \in Ids(ToSet(all)) <=> \E i \in 1..(l + m) : all[i].id = row.id
    BY <1>4, IdsOf
  <2>2. row.id \in Ids(ToSet(shown)) <=> \E i \in 1..l : shown[i].id = row.id
    BY IdsOf DEF l
  <2>3. \A i \in 1..m : q[i].id = row.id <=> q[i] = row
    BY <1>2, <1>1, <1>3
  <2>4. ASSUME NEW i \in 1..(l + m), all[i].id = row.id
        PROVE  (\E j \in 1..l : shown[j].id = row.id) \/ \E j \in 1..m : q[j].id = row.id
    <3>1. CASE i <= l
      <4>1. i \in 1..l
        BY <1>3, <1>4, <3>1
      <4>2. shown[i].id = row.id
        BY <1>4, <2>4, <4>1
      <4> QED
        BY <4>1, <4>2
    <3>2. CASE i > l
      <4>1. i - l \in 1..m /\ q[i - l].id = row.id
        BY <1>4, <2>4, <3>2
      <4> QED
        BY <4>1
    <3>3. i \in Nat /\ l \in Nat
      BY <1>3, <1>4
    <3> QED
      BY <3>1, <3>2, <3>3
  <2>5. ASSUME NEW j \in 1..l, shown[j].id = row.id PROVE \E i \in 1..(l + m) : all[i].id = row.id
    <3>1. j \in 1..(l + m)
      BY <1>3, <1>4
    <3> QED
      BY <1>4, <2>5, <3>1
  <2>6. ASSUME NEW j \in 1..m, q[j].id = row.id PROVE \E i \in 1..(l + m) : all[i].id = row.id
    BY <1>4, <2>6
  <2> QED
    BY <2>1, <2>2, <2>3, <2>4, <2>5, <2>6
<1>9. ASSUME NEW i \in 1..(l + m), NEW j \in 1..(l + m), all[i].id = all[j].id, i < j,
             NEW row \in steady, all[i].id = row.id
      PROVE  FALSE
  <2>1. CASE j <= l
    <3>1. i \in 1..l /\ j \in 1..l /\ i # j
      BY <1>3, <1>4, <1>9, <2>1
    <3>2. row.id \in Ids(steady)
      BY DEF Ids
    <3>3. shown[i].id = shown[j].id /\ shown[i].id = row.id
      BY <1>4, <1>9, <3>1
    <3>4. i \in DOMAIN shown /\ j \in DOMAIN shown
      BY <3>1 DEF l
    <3> HIDE DEF l
    <3> QED
      BY <3>1, <3>2, <3>3, <3>4
  <2>2. CASE i <= l /\ j > l
    <3>1. i \in 1..l /\ all[i] = shown[i]
      BY <1>3, <1>4, <2>2
    <3>2. row.id \in Ids(ToSet(shown))
      <4>1. \E k \in 1..Len(shown) : shown[k].id = row.id
        BY <1>9, <3>1 DEF l
      <4> QED
        BY <4>1, IdsOf
    <3>3. ~Beyond(cursor, row)
      BY <3>2
    <3>4. j - l \in 1..m /\ q[j - l].id = row.id
      BY <1>4, <1>9, <2>2
    <3>5. q[j - l] = page[j - l] /\ j - l \in 1..Len(page)
      BY <1>1, <1>2, <1>3, <3>4
    <3>6. q[j - l] = row
      BY <1>1, <3>4, <3>5
    <3> QED
      BY <1>1, <3>3, <3>5, <3>6
  <2>3. CASE i > l
    <3>1. i - l \in 1..m /\ j - l \in 1..m /\ i - l < j - l /\ q[i - l].id = q[j - l].id
      <4>1. i \in Nat /\ j \in Nat /\ l \in Nat /\ i < j /\ i > l
        BY <1>3, <1>4, <1>9, <2>3
      <4>2. i > l /\ j > l /\ i - l < j - l
        BY <4>1
      <4>3. i - l \in 1..m /\ all[i] = q[i - l]
        BY <1>4, <4>2
      <4>4. j - l \in 1..m /\ all[j] = q[j - l]
        BY <1>4, <4>2
      <4> QED
        BY <1>9, <4>2, <4>3, <4>4
    <3> DEFINE u == i - l
               v == j - l
    <3> HIDE DEF u, v
    <3>2. u \in 1..Len(page) /\ v \in 1..Len(page) /\ u < v /\ q[u] = page[u] /\ q[v] = page[v]
      BY <1>1, <1>2, <1>3, <3>1 DEF u, v
    <3>3. page[u] = page[v]
      BY <1>1, <3>1, <3>2 DEF u, v
    <3> QED
      BY <1>1, <1>6, <3>2, <3>3
  <2> QED
    BY <1>3, <1>4, <2>1, <2>2, <2>3
<1>10. \A i, j \in DOMAIN all : all[i].id = all[j].id /\ i # j => all[i].id \notin Ids(steady)
  <2> SUFFICES ASSUME NEW i \in DOMAIN all, NEW j \in DOMAIN all, all[i].id = all[j].id, i # j,
                      all[i].id \in Ids(steady)
               PROVE  FALSE
    OBVIOUS
  <2>1. i \in 1..(l + m) /\ j \in 1..(l + m)
    BY <1>4
  <2>2. PICK row \in steady : row.id = all[i].id
    BY DEF Ids
  <2>3. i < j \/ j < i
    BY <1>3, <1>4, <2>1
  <2> QED
    BY <1>9, <2>1, <2>2, <2>3
<1>11. ASSUME Len(page) <= n, NEW row \in steady PROVE row.id \in Ids(ToSet(all))
  <2>1. CASE ~Beyond(cursor, row)
    BY <1>8, <2>1
  <2>2. CASE Beyond(cursor, row)
    <3>1. Len(page) # limit
      BY <1>1, <1>11
    <3>2. \E i \in DOMAIN page : page[i] = row
      BY <2>2, <3>1 DEF IsTop
    <3>3. \E i \in 1..m : q[i] = row
      BY <1>1, <1>2, <1>3, <1>11, <3>2
    <3> QED
      BY <1>8, <3>3
  <2> QED
    BY <2>1, <2>2
<1>12. ASSUME Len(page) > n, NEW row \in steady
       PROVE  row.id \in Ids(ToSet(all)) <=> ~Follows(page[n], row)
  <2>1. n \in 1..Len(page) /\ m = n /\ page[n] \in W /\ Beyond(cursor, page[n])
    BY <1>1, <1>3, <1>12
  <2>2. ASSUME row.id \in Ids(ToSet(shown)) PROVE ~Follows(page[n], row)
    <3>1. ~Beyond(cursor, row)
      BY <2>2
    <3> QED
      BY <1>7, <2>1, <3>1
  <2>3. ASSUME NEW i \in 1..m, q[i] = row PROVE ~Follows(page[n], row)
    <3>1. i \in 1..Len(page) /\ page[i] = row /\ (i = n \/ i < n)
      BY <1>1, <1>2, <1>3, <2>1, <2>3
    <3>2. page[n] = row \/ Follows(row, page[n])
      BY <1>1, <2>1, <3>1
    <3> QED
      BY <1>6, <2>1, <3>2
  <2>4. ASSUME ~Follows(page[n], row), Beyond(cursor, row) PROVE \E i \in 1..m : q[i] = row
    <3>1. PICK i \in DOMAIN page : page[i] = row
      BY <1>1, <2>1, <2>4 DEF IsTop
    <3>2. i \in 1..Len(page) /\ ~(n < i)
      BY <1>1, <2>1, <2>4, <3>1
    <3>3. i \in 1..m /\ q[i] = row
      BY <1>1, <1>2, <2>1, <3>1, <3>2
    <3> QED
      BY <3>3
  <2> QED
    BY <1>8, <2>2, <2>3, <2>4
<1> QED
  BY <1>4, <1>10, <1>11, <1>12 DEF all, q, Ids

LEMMA OneOrSeveral ==
  ASSUME SearchAssumptions, ActiveOK
  PROVE  Cardinality(active) > 1 <=> Cardinality(active) # 1
<1>1. IsFiniteSet(active) /\ active # {}
  BY FS_Subset DEF ActiveOK, SearchAssumptions, BoundsAssumption
<1>2. Cardinality(active) \in Nat /\ Cardinality(active) # 0
  BY <1>1, FS_CardinalityType, FS_EmptySet
<1> QED
  BY <1>2

(* A page of a walk without authority.                                     *)
LEMMA PageKeeps ==
  ASSUME SearchAssumptions, ContentsOK, ActiveOK, NEW req \in Requests, ~req.authority,
         NEW cursor, CursorOK(req, cursor), cursor # None => cursor.kind = CursorKind(req),
         NEW multi \in BOOLEAN, multi <=> Cardinality(active) # 1,
         NEW before \in Walks, before.req = req, before.steady \subseteq Standing(req, multi), NoRepeat(before),
         \A row \in before.steady : row.id \in Ids(ToSet(before.shown)) <=> ~Beyond(cursor, row),
         NEW page, page = Page(req, cursor), NEW next, next = NextCursor(req, page)
  PROVE  WalkGood([before EXCEPT !.phase = IF next # None THEN "open" ELSE "ended",
                                 !.cursor = next, !.shown = @ \o Prefix(page, req.topK)])
<1> DEFINE W == Standing(req, multi)
           n == req.topK
           all == before.shown \o Prefix(page, n)
           w == [before EXCEPT !.phase = IF next # None THEN "open" ELSE "ended",
                               !.cursor = next, !.shown = @ \o Prefix(page, req.topK)]
<1>1. W \subseteq RowSet /\ Placed(W) /\ \A a, b \in W : a.id = b.id => a = b
  BY StandingType
<1>2. IsTop(page, W, cursor, Limit(req))
  BY PageIsTop
<1>3. n \in Nat \ {0} /\ Limit(req) \in Nat /\ n < Limit(req)
  BY LimitType, RequestType DEF SearchAssumptions
<1>4. cursor = None \/ cursor \in Cursors
  BY DEF CursorOK
<1>5. before.shown \in Seq(RowSet) /\ before.steady \in SUBSET W /\ before.steady \in SUBSET RowSet
      /\ \A i, j \in DOMAIN before.shown :
           before.shown[i].id = before.shown[j].id /\ i # j => before.shown[i].id \notin Ids(before.steady)
  BY DEF Walks, NoRepeat
<1>6. /\ all \in Seq(RowSet)
      /\ \A i, j \in DOMAIN all : all[i].id = all[j].id /\ i # j => all[i].id \notin Ids(before.steady)
      /\ Len(page) <= n => Ids(before.steady) \subseteq Ids(ToSet(all))
      /\ Len(page) > n => \A row \in before.steady : row.id \in Ids(ToSet(all)) <=> ~Follows(page[n], row)
  <2> DEFINE steady == before.steady
             shown == before.shown
             limit == Limit(req)
  <2>1. /\ shown \in Seq(RowSet) /\ steady \in SUBSET W /\ W \subseteq RowSet /\ Placed(W) /\ Apart(W)
        /\ UpTo(cursor, shown, steady) /\ OnceAtMost(shown, steady)
    BY <1>1, <1>5 DEF Apart, UpTo, OnceAtMost
  <2>2. BoundsAssumption /\ limit \in Nat /\ n < limit /\ IsTop(page, W, cursor, limit)
    BY <1>2, <1>3 DEF SearchAssumptions
  <2> HIDE DEF W, steady, shown, n, limit
  <2>3. /\ shown \o Prefix(page, n) \in Seq(RowSet)
        /\ OnceAtMost(shown \o Prefix(page, n), steady)
        /\ Len(page) <= n => Ids(steady) \subseteq Ids(ToSet(shown \o Prefix(page, n)))
        /\ Len(page) > n => \A row \in steady :
              row.id \in Ids(ToSet(shown \o Prefix(page, n))) <=> ~Follows(page[n], row)
    BY <1>3, <1>4, <2>1, <2>2, PageGoesOn
  <2> QED
    BY <2>3 DEF steady, shown, OnceAtMost
<1>7. /\ Len(page) \in Nat
      /\ Len(page) > n => page[n] \in W
  BY <1>2, <1>3 DEF IsTop
<1>8. CASE Len(page) > n
  <2>1. next = [kind |-> CursorKind(req), score |-> page[n].score, corpus |-> page[n].corpus, id |-> page[n].id]
    BY <1>3, <1>7, <1>8 DEF NextCursor
  <2>2. /\ page[n].score \in Nat /\ page[n].id \in Nat /\ page[n].corpus \in Searchable
    BY <1>1, <1>7, <1>8 DEF RowSet
  <2>3. next \in Cursors
    BY <2>1, <2>2, RequestType DEF Cursors, CursorKind, SearchAssumptions
  <2>4. CursorOK(req, next)
    <3> SUFFICES ASSUME next.kind = "multi" PROVE \E k \in 1..Deepest(req) : next.score = Cross(k)
      BY <2>3 DEF CursorOK
    <3>1. multi
      BY <2>1, RequestType DEF CursorKind, Groups, SearchAssumptions
    <3>2. PICK c \in active : page[n] \in ArmRows(c, req, Cardinality(Chunks))
      BY <1>7, <1>8, <3>1 DEF Standing
    <3>3. page[n].score = Cross(page[n].rank) /\ page[n].rank \in 1..Deepest(req)
      <4>1. c \in Searchable /\ Cardinality(Chunks) \in Nat
        BY FS_CardinalityType DEF ActiveOK, SearchAssumptions, BoundsAssumption
      <4> DEFINE N == Cardinality(Chunks)
                 a == page[n]
      <4>2. N \in Nat /\ a \in ArmRows(c, req, N)
        BY <3>2, <4>1
      <4> HIDE DEF a
      <4> QED
        BY <4>1, <4>2, ArmType DEF a
    <3> QED
      BY <2>1, <3>3
  <2>5. next # None
    BY <2>3 DEF SearchAssumptions, NoneAssumption
  <2>6. \A row \in before.steady : Follows(next, row) <=> Follows(page[n], row)
    BY <2>1 DEF Follows
  <2>7. w = [before EXCEPT !.phase = "open", !.cursor = next, !.shown = all]
    BY <2>5
  <2>8. w \in Walks /\ w.phase = "open" /\ w.cursor = next /\ w.shown = all /\ w.steady = before.steady /\ w.req = req
    <3> HIDE DEF all
    <3> QED
      BY <1>6, <2>3, <2>7 DEF Walks
  <2>9. \A row \in before.steady : row.id \in Ids(ToSet(all)) <=> ~Follows(next, row)
    BY <1>6, <1>8, <2>6
  <2> HIDE DEF w, all
  <2> QED
    BY <1>6, <2>4, <2>5, <2>8, <2>9 DEF WalkGood, NoRepeat, w
<1>9. CASE ~(Len(page) > n)
  <2>1. next = None
    BY <1>3, <1>7, <1>9 DEF NextCursor
  <2>2. w = [before EXCEPT !.phase = "ended", !.cursor = None, !.shown = all]
    BY <2>1
  <2>3. w \in Walks /\ w.phase = "ended" /\ w.cursor = None /\ w.shown = all /\ w.steady = before.steady
    <3> HIDE DEF all
    <3> QED
      BY <1>6, <2>2 DEF Walks
  <2>4. Len(page) <= n
    BY <1>3, <1>7, <1>9
  <2> HIDE DEF w, all
  <2> QED
    BY <1>6, <2>3, <2>4 DEF WalkGood, NoRepeat, w
<1> QED
  BY <1>8, <1>9

(* What is shown of a re-ranked page is a part of it in its order.         *)
LEMMA ShownOfReranked ==
  ASSUME SearchAssumptions, NEW req, NEW W, Placed(W), NEW limit \in Nat, NEW n \in Nat,
         NEW first, IsTop(first, W, None, limit), NEW page, page = Reranked(req, first),
         NEW all, all = Prefix(page, n)
  PROVE  /\ all \in Seq(W)
         /\ \A i, j \in DOMAIN all : all[i] = all[j] => i = j
         /\ \A i \in DOMAIN all, row \in W :
              \/ row \in ToSet(SubSeq(all, 1, i))
              \/ row.score <= all[i].score
              \/ InBand(row, all[i])
<1>1. /\ page \in Seq(W)
      /\ \A i, j \in DOMAIN page : page[i] = page[j] => i = j
      /\ \A i \in DOMAIN page, row \in W :
           (\E m \in 1..i : page[m] = row) \/ row.score <= page[i].score \/ InBand(row, page[i])
  BY RerankDominates
<1> DEFINE m == Least(n, Len(page))
<1>2. all \in Seq(W) /\ Len(all) = m /\ \A i \in 1..m : all[i] = page[i]
  BY <1>1, PrefixOf
<1>3. m \in Nat /\ m <= Len(page) /\ Len(page) \in Nat /\ DOMAIN page = 1..Len(page) /\ DOMAIN all = 1..m
  BY <1>1, <1>2 DEF Least
<1> HIDE DEF m
<1>4. \A i \in 1..m : i \in DOMAIN page
  BY <1>3
<1>5. \A i, j \in DOMAIN all : all[i] = all[j] => i = j
  BY <1>1, <1>2, <1>3, <1>4
<1>6. ASSUME NEW i \in 1..m, NEW row \in W
      PROVE  row \in ToSet(SubSeq(all, 1, i)) \/ row.score <= all[i].score \/ InBand(row, all[i])
  <2>1. CASE \E k \in 1..i : page[k] = row
    <3>1. PICK k \in 1..i : page[k] = row
      BY <2>1
    <3>2. k \in 1..m /\ all[k] = row
      BY <1>2, <1>3, <3>1
    <3>3. SubSeq(all, 1, i) = [j \in 1..i |-> all[j]]
      BY <1>2, <1>3
    <3> QED
      BY <3>1, <3>2, <3>3 DEF ToSet
  <2>2. CASE ~\E k \in 1..i : page[k] = row
    BY <1>1, <1>2, <1>4, <2>2
  <2> QED
    BY <2>1, <2>2
<1> QED
  BY <1>2, <1>3, <1>5, <1>6

(* The one page of an authority search.                                    *)
LEMMA RerankKeeps ==
  ASSUME SearchAssumptions, ContentsOK, ActiveOK, NEW req \in Requests, req.authority,
         NEW multi \in BOOLEAN, multi <=> Cardinality(active) # 1,
         NEW before \in Walks, before.steady \subseteq Standing(req, multi), before.shown = <<>>,
         NEW page, page = Reranked(req, Page(req, None))
  PROVE  WalkGood([before EXCEPT !.phase = "reranked", !.cursor = None, !.shown = @ \o Prefix(page, req.topK)])
<1> DEFINE W == Standing(req, multi)
           n == req.topK
           all == Prefix(page, n)
           w == [before EXCEPT !.phase = "reranked", !.cursor = None, !.shown = @ \o Prefix(page, req.topK)]
<1>1. W \subseteq RowSet /\ Placed(W) /\ \A a, b \in W : a.id = b.id => a = b
  BY StandingType
<1>2. IsTop(Page(req, None), W, None, Limit(req))
  BY PageIsTop DEF CursorOK
<1>3. n \in Nat /\ Limit(req) \in Nat
  BY LimitType, RequestType DEF SearchAssumptions
<1>4. /\ all \in Seq(W)
      /\ \A i, j \in DOMAIN all : all[i] = all[j] => i = j
      /\ \A i \in DOMAIN all, row \in W :
           row \in ToSet(SubSeq(all, 1, i)) \/ row.score <= all[i].score \/ InBand(row, all[i])
  <2> DEFINE first == Page(req, None)
             limit == Limit(req)
  <2>1. IsTop(first, W, None, limit) /\ limit \in Nat /\ Placed(W) /\ page = Reranked(req, first)
        /\ all = Prefix(page, n) /\ n \in Nat
    BY <1>1, <1>2, <1>3
  <2> HIDE DEF first, limit, w, all, n, W
  <2> QED
    BY <2>1, ShownOfReranked
<1>5. all \in Seq(RowSet)
  BY <1>1, <1>4
<1>6. \A i \in DOMAIN all : all[i] \in W
  BY <1>4
<1>7. \A i, j \in DOMAIN all : all[i].id = all[j].id => i = j
  BY <1>1, <1>4, <1>6
<1>8. \A i \in DOMAIN all, row \in W :
         row.id \in Ids(ToSet(SubSeq(all, 1, i))) \/ row.score <= all[i].score \/ InBand(row, all[i])
  BY <1>4 DEF Ids
<1>9. w \in Walks /\ w.phase = "reranked" /\ w.cursor = None /\ w.shown = all /\ w.steady = before.steady
  <2>1. before.shown \o all = all
    BY <1>5
  <2>2. w = [before EXCEPT !.phase = "reranked", !.cursor = None, !.shown = all]
    BY <2>1
  <2> HIDE DEF all
  <2> QED
    BY <1>5, <2>2 DEF Walks
<1>10. before.steady \subseteq W
  OBVIOUS
<1> HIDE DEF w, all, W
<1> QED
  BY <1>7, <1>8, <1>9, <1>10 DEF WalkGood, NoRepeat, w

-----------------------------------------------------------------------------
(* What a request does to a walk.                                          *)

(* A walk that ends without a page is as sound as it was.                  *)
LEMMA EndingKeeps ==
  ASSUME NEW before \in Walks, NoRepeat(before), NEW phase \in {"refused", "exact"}
  PROVE  WalkGood([before EXCEPT !.phase = phase, !.cursor = None])
<1> DEFINE w == [before EXCEPT !.phase = phase, !.cursor = None]
<1>1. w \in Walks /\ w.phase = phase /\ w.cursor = None /\ w.shown = before.shown /\ w.steady = before.steady
  BY DEF Walks
<1> HIDE DEF w
<1>2. WalkGood(w)
  BY <1>1 DEF WalkGood, NoRepeat
<1> QED
  BY <1>2 DEF w

LEMMA AnswerKeeps ==
  ASSUME SearchAssumptions, ContentsOK, ActiveOK, NEW req \in Requests,
         NEW cursor, CursorOK(req, cursor),
         NEW multi \in BOOLEAN, ~Refused(req, cursor) => (multi <=> Cardinality(active) # 1),
         NEW before \in Walks, before.req = req, before.steady \subseteq Standing(req, multi), NoRepeat(before),
         \A row \in before.steady : row.id \in Ids(ToSet(before.shown)) <=> ~Beyond(cursor, row),
         req.authority => cursor = None /\ before.shown = <<>>
  PROVE  WalkGood(Answered(req, cursor, before))
<1>1. CASE Resolved(req) # {}
  <2>1. Answered(req, cursor, before) = [before EXCEPT !.phase = "exact", !.cursor = None]
    BY <1>1 DEF Answered
  <2> QED
    BY <2>1, EndingKeeps
<1>2. CASE Resolved(req) = {} /\ Refused(req, cursor)
  <2>1. Answered(req, cursor, before) = [before EXCEPT !.phase = "refused", !.cursor = None]
    BY <1>2 DEF Answered
  <2> QED
    BY <2>1, EndingKeeps
<1>3. CASE Resolved(req) = {} /\ ~Refused(req, cursor) /\ req.authority
  <2> DEFINE page == Reranked(req, Page(req, None))
  <2>1. NextCursor(req, page) = None
    BY <1>3 DEF NextCursor
  <2>2. Answered(req, cursor, before)
          = [before EXCEPT !.phase = "reranked", !.cursor = None, !.shown = @ \o Prefix(page, req.topK)]
    BY <1>3, <2>1 DEF Answered
  <2>3. page = Reranked(req, Page(req, None))
    OBVIOUS
  <2> HIDE DEF page
  <2>4. WalkGood([before EXCEPT !.phase = "reranked", !.cursor = None, !.shown = @ \o Prefix(page, req.topK)])
    BY <1>3, <2>3, RerankKeeps
  <2> QED
    BY <2>2, <2>4
<1>4. CASE Resolved(req) = {} /\ ~Refused(req, cursor) /\ ~req.authority
  <2> DEFINE page == Page(req, cursor)
             next == NextCursor(req, page)
  <2>1. Answered(req, cursor, before)
          = [before EXCEPT !.phase = IF next # None THEN "open" ELSE "ended",
                           !.cursor = next, !.shown = @ \o Prefix(page, req.topK)]
    BY <1>4 DEF Answered
  <2>2. cursor # None => cursor.kind = CursorKind(req)
    BY <1>4 DEF Refused
  <2>3. page = Page(req, cursor) /\ next = NextCursor(req, page)
    OBVIOUS
  <2> HIDE DEF page, next
  <2>4. WalkGood([before EXCEPT !.phase = IF next # None THEN "open" ELSE "ended",
                                !.cursor = next, !.shown = @ \o Prefix(page, req.topK)])
    BY <1>4, <2>2, <2>3, PageKeeps
  <2> QED
    BY <2>1, <2>4
<1> QED
  BY <1>1, <1>2, <1>3, <1>4

-----------------------------------------------------------------------------
(* The steps.                                                              *)

LEMMA InitGood == ASSUME SearchAssumptions, Init PROVE IInv
<1>1. /\ DOMAIN contents = Searchable /\ \A c \in Searchable : contents[c] \in Contents[c]
      /\ active \in (SUBSET Searchable) \ {{}}
      /\ fingerprint \in [Searchable -> Fingerprints]
      /\ applies \in 0..MaxApplies
  BY DEF Init, Fingerprints, SearchAssumptions, BoundsAssumption
<1>2. walk \in Walks /\ walk.phase = "none" /\ walk.cursor = None /\ walk.shown = <<>> /\ walk.steady = {}
  BY DEF Init, NoWalk, Walks
<1>3. WalkGood(walk)
  BY <1>2 DEF WalkGood, NoRepeat, Ids
<1> QED
  BY <1>1, <1>3, WalkGoodIs

LEMMA SearchGood ==
  ASSUME SearchAssumptions, IInv, NEW req \in Requests, Search(req) PROVE WalkGood(walk')
<1> DEFINE multi == Cardinality(active) > 1
           before == [NoWalk EXCEPT !.req = req, !.steady = Standing(req, multi)]
<1>1. ContentsOK /\ ActiveOK
  BY DEF IInv, TypeOK, ContentsOK, ActiveOK
<1>2. multi \in BOOLEAN /\ (multi <=> Cardinality(active) # 1)
  BY <1>1, OneOrSeveral
<1>3. Standing(req, multi) \subseteq RowSet
  <2> HIDE DEF multi
  <2> QED
    BY <1>1, <1>2, StandingType
<1>4. before \in Walks /\ before.req = req /\ before.steady = Standing(req, multi) /\ before.shown = <<>>
  <2> DEFINE standing == Standing(req, multi)
  <2>1. standing \in SUBSET RowSet
    BY <1>3
  <2>2. before = [phase |-> "none", req |-> req, cursor |-> None, shown |-> <<>>, steady |-> standing]
    <3> HIDE DEF standing
    <3>1. before = [NoWalk EXCEPT !.req = req, !.steady = standing]
      BY DEF standing
    <3> HIDE DEF before
    <3> QED
      BY <3>1 DEF NoWalk
  <2> HIDE DEF before
  <2>3. before.steady = standing /\ before.req = req /\ before.shown = <<>>
    BY <2>2
  <2> HIDE DEF standing
  <2>4. before \in Walks
    BY <2>1, <2>2 DEF Walks
  <2> QED
    BY <2>3, <2>4 DEF standing
<1>5. walk' = Answered(req, None, before)
  BY DEF Search
<1> HIDE DEF before, multi
<1>6. NoRepeat(before)
  BY <1>4 DEF NoRepeat
<1>7. \A row \in before.steady : row.id \in Ids(ToSet(before.shown)) <=> ~Beyond(None, row)
  BY <1>4 DEF Ids, ToSet, Beyond
<1>8. CursorOK(req, None)
  BY DEF CursorOK
<1>9. WalkGood(Answered(req, None, before))
  BY <1>1, <1>2, <1>4, <1>6, <1>7, <1>8, AnswerKeeps
<1> QED
  BY <1>5, <1>9

LEMMA NextPageGood ==
  ASSUME SearchAssumptions, IInv, NextPage PROVE WalkGood(walk')
<1> DEFINE req == walk.req
           cursor == walk.cursor
           multi == cursor.kind = "multi"
           before == [walk EXCEPT !.steady = @ \cap Standing(req, multi)]
<1>1. ContentsOK /\ ActiveOK /\ WalkGood(walk) /\ walk.phase = "open"
  BY WalkGoodIs DEF IInv, TypeOK, ContentsOK, ActiveOK, NextPage
<1>2. /\ walk \in Walks /\ req \in Requests /\ ~req.authority /\ cursor # None /\ CursorOK(req, cursor)
      /\ NoRepeat(walk)
      /\ \A row \in walk.steady : row.id \in Ids(ToSet(walk.shown)) <=> ~Follows(cursor, row)
  BY <1>1 DEF WalkGood
<1>3. walk' = Answered(req, cursor, before)
  BY DEF NextPage
<1>4. multi \in BOOLEAN
  OBVIOUS
<1>5. ASSUME ~Refused(req, cursor) PROVE multi <=> Cardinality(active) # 1
  <2>1. cursor.kind = CursorKind(req)
    BY <1>2, <1>5 DEF Refused
  <2>2. req.group \in Groups
    BY <1>2, RequestType DEF SearchAssumptions
  <2> QED
    BY <2>1, <2>2 DEF CursorKind, Groups
<1>6. /\ before \in Walks /\ before.req = req /\ before.shown = walk.shown
      /\ before.steady = walk.steady \cap Standing(req, multi)
  BY <1>2 DEF Walks
<1> HIDE DEF before, multi, req, cursor
<1>7. NoRepeat(before)
  BY <1>2, <1>6 DEF NoRepeat, Ids
<1>8. \A row \in before.steady : row.id \in Ids(ToSet(before.shown)) <=> ~Beyond(cursor, row)
  BY <1>2, <1>6 DEF Beyond
<1>9. WalkGood(Answered(req, cursor, before))
  BY <1>1, <1>2, <1>4, <1>5, <1>6, <1>7, <1>8, AnswerKeeps
<1> QED
  BY <1>3, <1>9

LEMMA StepGood == ASSUME SearchAssumptions, IInv, [Next]_searchVars PROVE IInv'
<1>1. /\ DOMAIN contents = Searchable /\ \A c \in Searchable : contents[c] \in Contents[c]
      /\ active \in (SUBSET Searchable) \ {{}}
      /\ fingerprint \in [Searchable -> Fingerprints]
      /\ applies \in 0..MaxApplies /\ MaxApplies \in Nat
      /\ WalkGood(walk)
  BY WalkGoodIs DEF SearchAssumptions, BoundsAssumption
<1> DEFINE Data == /\ DOMAIN contents = Searchable /\ \A c \in Searchable : contents[c] \in Contents[c]
                   /\ active \in (SUBSET Searchable) \ {{}}
                   /\ fingerprint \in [Searchable -> Fingerprints]
                   /\ applies \in 0..MaxApplies
<1>2. SUFFICES Data' /\ WalkGood(walk')
  BY DEF IInv, TypeOK, WalkGood, Walks, NoRepeat, WalkFollows, SteadyRowsShownOnce, RelevanceDominates
<1>3. ASSUME NEW req \in Requests, Search(req) PROVE Data' /\ WalkGood(walk')
  BY <1>1, <1>3, SearchGood DEF Search
<1>4. CASE NextPage
  BY <1>1, <1>4, NextPageGood DEF NextPage
<1>5. ASSUME NEW c \in Searchable, NEW content \in Contents[c], NEW model \in Fingerprints, Apply(c, content, model)
      PROVE  Data' /\ WalkGood(walk')
  BY <1>1, <1>5 DEF Apply
<1>6. ASSUME NEW c \in Searchable, Activate(c) PROVE Data' /\ WalkGood(walk')
  BY <1>1, <1>6 DEF Activate
<1>7. CASE UNCHANGED searchVars
  BY <1>1, <1>7 DEF searchVars
<1> QED
  BY <1>3, <1>4, <1>5, <1>6, <1>7 DEF Next

(* Paged search keeps its types.                                           *)
THEOREM TypeCorrect == ASSUME SearchAssumptions PROVE Spec => []TypeOK
<1>1. Init => IInv
  BY InitGood
<1>2. IInv /\ [Next]_searchVars => IInv'
  BY StepGood
<1>3. IInv => TypeOK
  BY DEF IInv
<1> QED
  BY <1>1, <1>2, <1>3, PTL DEF Spec

(* No row that stood still between the pages of a walk is shown twice or   *)
(* passed over: not at equal scores (search.rs, the keyset of a cursor),   *)
(* not past the depth the arms of several corpora are read to              *)
(* (retrieval/hybrid.rs), not when a package moves the other rows or a     *)
(* further corpus becomes active.                                          *)
THEOREM SteadyRowsShownOnceAlways == ASSUME SearchAssumptions PROVE Spec => []SteadyRowsShownOnce
<1>1. Init => IInv
  BY InitGood
<1>2. IInv /\ [Next]_searchVars => IInv'
  BY StepGood
<1>3. IInv => SteadyRowsShownOnce
  BY DEF IInv
<1> QED
  BY <1>1, <1>2, <1>3, PTL DEF Spec

(* Authority moves a row past more relevant ones only inside the band      *)
(* (authority.rs), however long the cluster is that its leader opens.      *)
THEOREM RelevanceDominatesAlways == ASSUME SearchAssumptions PROVE Spec => []RelevanceDominates
<1>1. Init => IInv
  BY InitGood
<1>2. IInv /\ [Next]_searchVars => IInv'
  BY StepGood
<1>3. IInv => RelevanceDominates
  BY DEF IInv
<1> QED
  BY <1>1, <1>2, <1>3, PTL DEF Spec
=============================================================================
