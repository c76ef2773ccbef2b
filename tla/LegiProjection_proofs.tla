------------------------ MODULE LegiProjection_proofs ------------------------
(***************************************************************************)
(* The projection of LEGI carries every text and settles every hierarchy:  *)
(* for any articles, members of well-formed archives, chunk size, and runs *)
(* that die anywhere.                                                      *)
(***************************************************************************)
EXTENDS LegiProjection, FiniteSetTheorems, SequenceTheorems, WellFoundedInduction, TLAPS

-----------------------------------------------------------------------------
(* Numbers.                                                                *)

(* A set of numbers that is not empty has a least one ...                  *)
LEMMA LeastExists ==
  ASSUME NEW T \in SUBSET Nat, T # {}
  PROVE  \E x \in T : \A y \in T : x <= y
<1> DEFINE R == {ss \in Nat \X Nat : ss[1] < ss[2]}
<1>1. IsWellFoundedOn(R, Nat)
  BY NatLessThanWellFounded DEF OpToRel
<1>2. \A x, y \in Nat : <<y, x>> \in R <=> y < x
  OBVIOUS
<1> HIDE DEF R
<1>3. PICK x \in T : \A y \in T : ~(<<y, x>> \in R)
  BY <1>1, WFMin
<1>4. ASSUME NEW y \in T PROVE x <= y
  <2>1. x \in Nat /\ y \in Nat
    OBVIOUS
  <2>2. ~(y < x)
    BY <1>2, <1>3, <2>1, Zenon
  <2> QED BY <2>1, <2>2
<1> QED BY <1>4

(* ... and, when it is bounded, a greatest one: its least upper bound.     *)
LEMMA GreatestExists ==
  ASSUME NEW T \in SUBSET Nat, T # {}, NEW n \in Nat, \A y \in T : y <= n
  PROVE  \E x \in T : \A y \in T : y <= x
<1> DEFINE U == {u \in Nat : \A y \in T : y <= u}
<1>1. PICK m \in U : \A u \in U : m <= u
  <2>1. n \in U
    OBVIOUS
  <2> HIDE DEF U
  <2>2. U \in SUBSET Nat
    BY DEF U
  <2> QED BY <2>1, <2>2, LeastExists
<1>2. m \in Nat /\ \A y \in T : y <= m
  OBVIOUS
<1>3. m \in T
  <2> SUFFICES ASSUME m \notin T PROVE FALSE
    OBVIOUS
  <2>1. PICK t \in T : TRUE
    OBVIOUS
  <2>2. m # 0
    BY <2>1, <1>2
  <2>3. m - 1 \in U
    BY <2>2, <1>2
  <2> QED BY <2>3, <1>1, <1>2
<1> QED BY <1>2, <1>3

-----------------------------------------------------------------------------
(* Recursion: folds of a sequence, and what holds of their results.        *)

(* What is built step by step from 0 ...                                   *)
Unfolds(f, n, base, step) == f[0] = base /\ \A i \in 1..n : f[i] = step[<<i, f[i - 1]>>]

LEMMA RecursionExists ==
  ASSUME NEW n \in Nat, NEW D, NEW base \in D, NEW step \in [(1..n) \X D -> D]
  PROVE  \E f \in [0..n -> D] : Unfolds(f, n, base, step)
<1> USE DEF Unfolds
<1> DEFINE Built(f, j) == Unfolds(f, j, base, step)
           Good(j) == \E f \in [0..j -> D] : Built(f, j)
           S == {j \in 0..n : ~Good(j)}
<1> SUFFICES ASSUME S # {} PROVE FALSE
  OBVIOUS
<1>1. PICK j \in S : \A y \in S : j <= y
  <2>1. S \in SUBSET Nat
    OBVIOUS
  <2> HIDE DEF S
  <2> QED
    BY <2>1, LeastExists
<1>2. Good(0)
  <2> DEFINE f == [i \in 0..0 |-> base]
  <2>1. f \in [0..0 -> D] /\ Built(f, 0)
    OBVIOUS
  <2> QED
    BY <2>1
<1>3. j \in 1..n /\ Good(j - 1)
  <2> HIDE DEF Good
  <2>1. j # 0 /\ j \in 0..n
    BY <1>2
  <2>2. j - 1 \in 0..n /\ ~(j <= j - 1)
    BY <2>1
  <2> QED
    BY <1>1, <2>1, <2>2
<1>4. PICK f \in [0..(j - 1) -> D] : Built(f, j - 1)
  BY <1>3
<1> DEFINE last == step[<<j, f[j - 1]>>]
           g == [i \in 0..j |-> IF i = j THEN last ELSE f[i]]
<1>5. j - 1 \in 0..(j - 1) /\ f[j - 1] \in D
  BY <1>3
<1>6. last \in D
  BY <1>3, <1>5
<1>7. g \in [0..j -> D]
  <2>1. \A i \in 0..j : i # j => i \in 0..(j - 1)
    BY <1>3
  <2> HIDE DEF last
  <2> QED
    BY <1>6, <2>1
<1>8. Built(g, j)
  <2>1. g[0] = base
    BY <1>3, <1>4
  <2>2. ASSUME NEW i \in 1..j PROVE g[i] = step[<<i, g[i - 1]>>]
    <3>1. g[i - 1] = f[i - 1]
      BY <1>3
    <3>2. CASE i = j
      BY <2>2, <3>1, <3>2
    <3>3. CASE i # j
      <4>1. i \in 1..(j - 1) /\ g[i] = f[i]
        BY <1>3, <3>3
      <4> QED
        BY <1>4, <3>1, <4>1
    <3> QED
      BY <3>2, <3>3
  <2> QED
    BY <2>1, <2>2
<1>9. Good(j)
  <2> HIDE DEF g, Built
  <2> QED
    BY <1>7, <1>8
<1> QED
  BY <1>9

(* ... and what holds of 0, and of a number with the one before it, holds  *)
(* up to n.                                                                *)
LEMMA UpTo ==
  ASSUME NEW n \in Nat, NEW S, 0 \in S, \A i \in 1..n : i - 1 \in S => i \in S
  PROVE  \A i \in 0..n : i \in S
<1> DEFINE T == {i \in 0..n : i \notin S}
<1> SUFFICES ASSUME T # {} PROVE FALSE
  OBVIOUS
<1>1. PICK i \in T : \A y \in T : i <= y
  <2>1. T \in SUBSET Nat
    OBVIOUS
  <2> HIDE DEF T
  <2> QED
    BY <2>1, LeastExists
<1>2. i \in 1..n
  OBVIOUS
<1>3. i - 1 \in 0..n /\ i - 1 \notin T
  <2>1. ~(i <= i - 1) /\ i - 1 \in 0..n
    BY <1>2
  <2> HIDE DEF T
  <2> QED
    BY <1>1, <2>1
<1> QED
  BY <1>2, <1>3

-----------------------------------------------------------------------------
(* Sequences of sequences.                                                 *)

LEMMA AppendIsSeq ==
  ASSUME NEW T, NEW s \in Seq(T), NEW e \in T
  PROVE  Append(s, e) \in Seq(T) /\ Append(s, e) # <<>>
  BY AppendProperties

LEMMA AppendToLast ==
  ASSUME NEW T, NEW a \in Seq(T), NEW b \in Seq(T), NEW e \in T
  PROVE  a \o Append(b, e) = Append(a \o b, e)
  OBVIOUS

(* flat is what the pieces give one after the other.                       *)
Flattens(T, seqs, flat) ==
  \E f \in [0..Len(seqs) -> Seq(T)] :
    f[0] = <<>> /\ f[Len(seqs)] = flat /\ \A i \in 1..Len(seqs) : f[i] = f[i - 1] \o seqs[i]

LEMMA FlattenSeqIs ==
  ASSUME NEW T, NEW seqs \in Seq(Seq(T)), seqs # <<>>, NEW flat, Flattens(T, seqs, flat)
  PROVE  FlattenSeq(seqs) = flat
<1> DEFINE n == Len(seqs)
<1>1. n \in Nat \ {0} /\ \A i \in 1..n : seqs[i] \in Seq(T)
  OBVIOUS
<1>2. PICK f \in [0..n -> Seq(T)] :
        f[0] = <<>> /\ f[n] = flat /\ \A i \in 1..n : f[i] = f[i - 1] \o seqs[i]
  BY DEF Flattens
<1> DEFINE Is(g) == g = [i \in 1..n |-> IF i = 1 THEN seqs[i] ELSE g[i - 1] \o seqs[i]]
           h == [i \in 1..n |-> f[i]]
<1>3. h[1] = seqs[1]
  <2>1. 1 \in 1..n /\ seqs[1] \in Seq(T) /\ 1 - 1 = 0
    BY <1>1
  <2>2. f[1] = f[1 - 1] \o seqs[1]
    BY <1>2, <2>1
  <2>3. <<>> \o seqs[1] = seqs[1]
    BY <2>1, ConcatEmptySeq
  <2> QED
    BY <1>2, <2>1, <2>2, <2>3
<1>4. Is(h)
  <2> DEFINE k == [i \in 1..n |-> IF i = 1 THEN seqs[i] ELSE h[i - 1] \o seqs[i]]
  <2>1. ASSUME NEW i \in 1..n PROVE h[i] = k[i]
    <3>1. CASE i = 1
      BY <1>3, <3>1
    <3>2. CASE i # 1
      <4>1. i - 1 \in 1..n /\ h[i - 1] = f[i - 1]
        BY <1>1, <3>2
      <4> QED
        BY <1>2, <3>2, <4>1
    <3> QED
      BY <3>1, <3>2
  <2>2. h = [i \in 1..n |-> h[i]] /\ k = [i \in 1..n |-> k[i]]
    OBVIOUS
  <2> QED
    BY <2>1, <2>2
<1> DEFINE flatten == CHOOSE g : Is(g)
<1>5. Is(flatten)
  <2> HIDE DEF Is
  <2> QED
    BY <1>4
<1>6. FlattenSeq(seqs) = flatten[n]
  BY <1>1 DEF FlattenSeq
<1> HIDE DEF flatten
<1>7. flatten[n] = h[n]
  <2> DEFINE S == {i \in 0..n : i = 0 \/ flatten[i] = h[i]}
  <2>1. \A i \in 1..n : flatten[i] = IF i = 1 THEN seqs[i] ELSE flatten[i - 1] \o seqs[i]
    BY <1>5
  <2>2. \A i \in 1..n : h[i] = IF i = 1 THEN seqs[i] ELSE h[i - 1] \o seqs[i]
    BY <1>4
  <2> HIDE DEF h, Is
  <2>3. 0 \in S /\ n \in Nat
    BY <1>1
  <2>4. ASSUME NEW i \in 1..n, i - 1 \in S PROVE i \in S
    <3>1. i # 1 => flatten[i - 1] = h[i - 1]
      BY <2>4
    <3> QED
      BY <2>1, <2>2, <3>1
  <2> HIDE DEF S, n
  <2>5. \A i \in 0..n : i \in S
    BY <2>3, <2>4, UpTo
  <2> QED
    BY <1>1, <2>5 DEF S
<1> QED
  BY <1>1, <1>2, <1>6, <1>7

LEMMA FlattensAppend ==
  ASSUME NEW T, NEW seqs \in Seq(Seq(T)), NEW x \in Seq(T), NEW flat, Flattens(T, seqs, flat)
  PROVE  Flattens(T, Append(seqs, x), flat \o x)
<1> DEFINE n == Len(seqs)
<1>1. PICK f \in [0..n -> Seq(T)] :
        f[0] = <<>> /\ f[n] = flat /\ \A i \in 1..n : f[i] = f[i - 1] \o seqs[i]
  BY DEF Flattens
<1>2. n \in Nat /\ Len(Append(seqs, x)) = n + 1 /\ Append(seqs, x)[n + 1] = x
  OBVIOUS
<1>3. \A i \in 1..n : Append(seqs, x)[i] = seqs[i]
  OBVIOUS
<1> DEFINE g == [i \in 0..(n + 1) |-> IF i = n + 1 THEN flat \o x ELSE f[i]]
<1>4. flat \o x \in Seq(T)
  <2>1. flat \in Seq(T)
    BY <1>1, <1>2
  <2> QED
    BY <2>1, ConcatProperties
<1>5. g \in [0..(n + 1) -> Seq(T)]
  BY <1>2, <1>4
<1>6. g[0] = <<>> /\ g[n + 1] = flat \o x /\ \A i \in 0..n : g[i] = f[i]
  BY <1>1, <1>2
<1>7. ASSUME NEW i \in 1..(n + 1) PROVE g[i] = g[i - 1] \o Append(seqs, x)[i]
  <2>1. g[i - 1] = f[i - 1]
    BY <1>2, <1>6
  <2>2. CASE i = n + 1
    <3>1. i - 1 = n /\ g[i] = flat \o x /\ Append(seqs, x)[i] = x
      BY <1>2, <1>6, <2>2
    <3>2. g[i - 1] = flat
      BY <1>1, <2>1, <3>1
    <3> QED
      BY <3>1, <3>2
  <2>3. CASE i # n + 1
    <3>1. i \in 1..n /\ g[i] = f[i]
      BY <1>2, <1>6, <2>3
    <3> QED
      BY <1>1, <1>3, <2>1, <3>1
  <2> QED
    BY <2>2, <2>3
<1> HIDE DEF g, n
<1> QED
  BY <1>2, <1>5, <1>6, <1>7 DEF Flattens

LEMMA FlattensLast ==
  ASSUME NEW T, NEW seqs \in Seq(Seq(T)), seqs # <<>>, NEW e \in T, NEW flat, Flattens(T, seqs, flat)
  PROVE  Flattens(T, Append(Front(seqs), Append(Last(seqs), e)), Append(flat, e))
<1> DEFINE n == Len(seqs)
<1>1. PICK f \in [0..n -> Seq(T)] :
        f[0] = <<>> /\ f[n] = flat /\ \A i \in 1..n : f[i] = f[i - 1] \o seqs[i]
  BY DEF Flattens
<1>2. n \in Nat \ {0}
  OBVIOUS
<1>3. Front(seqs) \in Seq(Seq(T)) /\ Len(Front(seqs)) = n - 1 /\ \A i \in 1..(n - 1) : Front(seqs)[i] = seqs[i]
  BY DEF Front
<1>4. Last(seqs) = seqs[n] /\ Last(seqs) \in Seq(T)
  BY DEF Last
<1>5. Flattens(T, Front(seqs), f[n - 1])
  <2> DEFINE g == [i \in 0..(n - 1) |-> f[i]]
  <2>1. g \in [0..(n - 1) -> Seq(T)]
    BY <1>2
  <2>2. g[0] = <<>> /\ g[n - 1] = f[n - 1]
    BY <1>1, <1>2
  <2>3. ASSUME NEW i \in 1..(n - 1) PROVE g[i] = g[i - 1] \o Front(seqs)[i]
    <3>1. i \in 1..n /\ i - 1 \in 0..(n - 1) /\ i \in 0..(n - 1)
      BY <1>2
    <3> QED
      BY <1>1, <1>3, <3>1
  <2> HIDE DEF g, n
  <2> QED
    BY <1>3, <2>1, <2>2, <2>3 DEF Flattens
<1>6. f[n - 1] \in Seq(T) /\ flat = f[n - 1] \o Last(seqs)
  <2>1. n - 1 \in 0..n /\ n \in 1..n
    BY <1>2
  <2>2. f[n - 1] \in Seq(T) /\ f[n] = f[n - 1] \o seqs[n]
    BY <1>1, <2>1
  <2> QED
    BY <1>1, <1>4, <2>2
<1>7. Append(Last(seqs), e) \in Seq(T)
  BY <1>4
<1>8. f[n - 1] \o Append(Last(seqs), e) = Append(flat, e)
  <2>1. \A a, b \in Seq(T) : \A x \in T : a \o Append(b, x) = Append(a \o b, x)
    BY AppendToLast
  <2> QED
    BY <1>4, <1>6, <2>1
<1> HIDE DEF n
<1> QED
  BY <1>3, <1>5, <1>7, <1>8, FlattensAppend

(* The chunks of an article hold its body, in order.                       *)
LEMMA ChunksHoldTheBody ==
  ASSUME NEW path \in Seq(Words), NEW body \in Seq(Words), body # <<>>
  PROVE  /\ Chunked(path, body) \in Seq(Seq(Words)) /\ Chunked(path, body) # <<>>
         /\ Flattens(Words, Chunked(path, body), body)
<1> DEFINE n == Len(body)
           D == Seq(Seq(Words))
           Put(done, line) ==
             IF done # <<>> /\ Len(path) + Len(Last(done)) + 1 <= Limit
             THEN Append(Front(done), Append(Last(done), line))
             ELSE Append(done, <<line>>)
           Is(f) == f = [i \in 0..n |-> IF i = 0 THEN <<>> ELSE Put(f[i - 1], body[i])]
           filled == CHOOSE f : Is(f)
<1>1. n \in Nat \ {0} /\ \A i \in 1..n : body[i] \in Words
  OBVIOUS
<1>2. Flattens(Words, <<>>, <<>>)
  <2> DEFINE g == [i \in 0..0 |-> <<>>]
  <2>1. g \in [0..Len(<<>>) -> Seq(Words)] /\ g[0] = <<>>
    OBVIOUS
  <2> HIDE DEF g
  <2> QED
    BY <2>1 DEF Flattens
<1>3. ASSUME NEW done \in D, NEW line \in Words PROVE Put(done, line) \in D /\ Put(done, line) # <<>>
  <2>1. CASE done # <<>> /\ Len(path) + Len(Last(done)) + 1 <= Limit
    <3>1. Front(done) \in D /\ Last(done) \in Seq(Words)
      BY <2>1 DEF Front, Last
    <3>2. Append(Last(done), line) \in Seq(Words)
      BY <3>1
    <3>3. Put(done, line) = Append(Front(done), Append(Last(done), line))
      BY <2>1
    <3> HIDE DEF Put
    <3> QED
      BY <3>1, <3>2, <3>3, AppendIsSeq
  <2>2. CASE ~(done # <<>> /\ Len(path) + Len(Last(done)) + 1 <= Limit)
    <3>1. <<line>> \in Seq(Words)
      OBVIOUS
    <3>2. Put(done, line) = Append(done, <<line>>)
      BY <2>2
    <3> HIDE DEF Put
    <3> QED
      BY <3>1, <3>2, AppendIsSeq
  <2> QED
    BY <2>1, <2>2
<1>4. \E f : Is(f)
  <2> DEFINE step == [p \in (1..n) \X D |-> Put(p[2], body[p[1]])]
  <2>1. step \in [(1..n) \X D -> D]
    <3> HIDE DEF Put, D, n
    <3>1. \A p \in (1..n) \X D : Put(p[2], body[p[1]]) \in D
      BY <1>1, <1>3
    <3> QED
      BY <3>1
  <2> DEFINE base == <<>>
  <2>2. base \in D /\ n \in Nat
    BY <1>1
  <2> HIDE DEF step, D, n, base
  <2>3. PICK f \in [0..n -> D] : f[0] = base /\ \A i \in 1..n : f[i] = step[<<i, f[i - 1]>>]
    <3>1. \A b \in D : \A s \in [(1..n) \X D -> D] : \E f \in [0..n -> D] : Unfolds(f, n, b, s)
      BY <2>2, RecursionExists
    <3> QED
      BY <2>1, <2>2, <3>1 DEF Unfolds
  <2>4. ASSUME NEW i \in 0..n PROVE f[i] = IF i = 0 THEN <<>> ELSE Put(f[i - 1], body[i])
    <3>1. CASE i = 0
      BY <2>3, <3>1 DEF base
    <3>2. CASE i # 0
      <4>1. i \in 1..n /\ i - 1 \in 0..n
        BY <2>2, <3>2
      <4>2. <<i, f[i - 1]>> \in (1..n) \X D
        BY <4>1
      <4> HIDE DEF Put
      <4>3. step[<<i, f[i - 1]>>] = Put(f[i - 1], body[i])
        BY <4>2 DEF step
      <4> QED
        BY <2>3, <3>2, <4>1, <4>3
    <3> QED
      BY <3>1, <3>2
  <2>5. Is(f)
    <3> HIDE DEF Put
    <3> DEFINE h == [i \in 0..n |-> IF i = 0 THEN <<>> ELSE Put(f[i - 1], body[i])]
    <3>1. \A i \in 0..n : f[i] = h[i]
      BY <2>4
    <3>2. f = [i \in 0..n |-> f[i]] /\ h = [i \in 0..n |-> h[i]]
      OBVIOUS
    <3> QED
      BY <3>1, <3>2
  <2> QED
    BY <2>5
<1>5. Is(filled)
  <2> HIDE DEF Is
  <2> QED
    BY <1>4
<1>6. Chunked(path, body) = IF Len(path) + n <= Limit THEN <<body>> ELSE filled[n]
  BY DEF Chunked
<1> HIDE DEF filled
<1>7. filled[0] = <<>> /\ \A i \in 1..n : filled[i] = Put(filled[i - 1], body[i])
  <2> HIDE DEF Put
  <2> QED
    BY <1>1, <1>5
<1> DEFINE S == {i \in 0..n : /\ filled[i] \in D /\ (i = 0 \/ filled[i] # <<>>)
                              /\ Flattens(Words, filled[i], SubSeq(body, 1, i))}
<1>8. 0 \in S
  <2>1. SubSeq(body, 1, 0) = <<>> /\ 0 \in 0..n
    BY <1>1
  <2>2. filled[0] = <<>>
    BY <1>7
  <2>3. Flattens(Words, filled[0], SubSeq(body, 1, 0))
    BY <1>2, <2>1, <2>2
  <2>4. filled[0] \in D
    BY <2>2
  <2> HIDE DEF D
  <2> QED
    BY <2>1, <2>3, <2>4
<1>9. ASSUME NEW i \in 1..n, i - 1 \in S PROVE i \in S
  <2> DEFINE done == filled[i - 1]
             line == body[i]
             before == SubSeq(body, 1, i - 1)
  <2>1. done \in D /\ Flattens(Words, done, before)
    BY <1>9
  <2>2. line \in Words /\ filled[i] = Put(done, line)
    BY <1>1, <1>7
  <2>3. before \in Seq(Words) /\ SubSeq(body, 1, i) = Append(before, line) /\ <<line>> \in Seq(Words)
    BY <1>1
  <2>4. Append(before, line) = before \o <<line>>
    BY <2>2, <2>3, AppendIsConcat
  <2> HIDE DEF done, line, before
  <2>5. Flattens(Words, filled[i], SubSeq(body, 1, i))
    <3>1. CASE done # <<>> /\ Len(path) + Len(Last(done)) + 1 <= Limit
      <4>1. Flattens(Words, Append(Front(done), Append(Last(done), line)), Append(before, line))
        BY <2>1, <2>2, <3>1, FlattensLast
      <4> QED
        BY <2>2, <2>3, <3>1, <4>1
    <3>2. CASE ~(done # <<>> /\ Len(path) + Len(Last(done)) + 1 <= Limit)
      <4>1. Flattens(Words, Append(done, <<line>>), before \o <<line>>)
        BY <2>1, <2>3, FlattensAppend
      <4> QED
        BY <2>2, <2>3, <2>4, <3>2, <4>1
    <3> QED
      BY <3>1, <3>2
  <2>6. filled[i] \in D /\ filled[i] # <<>>
    <3> HIDE DEF Put, D
    <3> QED
      BY <1>3, <2>1, <2>2
  <2> QED
    BY <1>1, <2>5, <2>6
<1>10. n \in S
  <2>1. n \in Nat /\ n \in 0..n
    BY <1>1
  <2> HIDE DEF S, n
  <2>2. \A i \in 0..n : i \in S
    BY <1>8, <1>9, <2>1, UpTo
  <2> QED
    BY <2>1, <2>2
<1>11. SubSeq(body, 1, n) = body
  BY SubSeqFull
<1>12. CASE Len(path) + n <= Limit
  <2> DEFINE none == <<>>
             nothing == <<>>
  <2>1. <<body>> = Append(none, body) /\ nothing \o body = body /\ <<body>> \in D /\ none \in D
    OBVIOUS
  <2>2. Flattens(Words, none, nothing)
    BY <1>2
  <2> HIDE DEF none, nothing, D
  <2>3. Flattens(Words, Append(none, body), nothing \o body)
    BY <2>1, <2>2, FlattensAppend DEF D
  <2>4. Chunked(path, body) = <<body>>
    BY <1>6, <1>12
  <2>5. <<body>> # <<>>
    OBVIOUS
  <2> QED
    BY <2>1, <2>3, <2>4, <2>5 DEF D
<1>13. CASE ~(Len(path) + n <= Limit)
  <2>1. filled[n] \in D /\ filled[n] # <<>> /\ Flattens(Words, filled[n], body)
    BY <1>1, <1>10, <1>11
  <2> QED
    BY <1>6, <1>13, <2>1
<1> QED
  BY <1>12, <1>13

-----------------------------------------------------------------------------
(* Hierarchies.                                                            *)

(* The links of a structure, or the ones before a link of it.              *)
Links(links) ==
  /\ Len(links) \in Nat /\ DOMAIN links = 1..Len(links)
  /\ \A i \in 1..Len(links) : IsHeading(links[i]) =>
       links[i].title \in Words /\ links[i].level \in {None} \union (Nat \ {0})

LEMMA StructureLinks ==
  ASSUME NEW p, IsStructure(p)
  PROVE  Links(p.links)
  BY DEF IsStructure, Links

LEMMA LinksBefore ==
  ASSUME NEW links, Links(links), NEW i \in DOMAIN links
  PROVE  Links(SubSeq(links, 1, i - 1))
<1> DEFINE S == {links[j] : j \in 1..(i - 1)}
           before == SubSeq(links, 1, i - 1)
<1>1. i \in 1..Len(links) /\ Len(links) \in Nat
  BY DEF Links
<1>2. \A j \in 1..(i - 1) : links[j] \in S /\ j \in 1..Len(links)
  BY <1>1
<1>3. 1 \in Int /\ i - 1 \in Int
  BY <1>1
<1> HIDE DEF S
<1>4. before \in Seq(S) /\ Len(before) = IF 1 <= i - 1 THEN i - 1 - 1 + 1 ELSE 0
  BY <1>2, <1>3, SubSeqProperties
<1>5. \A j \in 1..(i - 1 - 1 + 1) : before[j] = links[1 + j - 1]
  BY <1>2, <1>3, SubSeqProperties
<1>6. Len(before) = i - 1 /\ Len(before) \in Nat /\ DOMAIN before = 1..Len(before)
  BY <1>1, <1>4
<1>7. \A j \in 1..Len(before) : before[j] = links[j] /\ j \in 1..Len(links)
  BY <1>1, <1>5, <1>6
<1> HIDE DEF before
<1> QED
  BY <1>6, <1>7 DEF Links

LEMMA StackType ==
  ASSUME NEW links, Links(links)
  PROVE  Stack(links) \in Seq(Words)
<1> DEFINE n == Len(links)
           D == Seq(Words)
           Cut(stack, level) == IF level = None \/ level - 1 >= Len(stack) THEN stack
                                ELSE SubSeq(stack, 1, level - 1)
           Push(stack, title) == IF stack # <<>> /\ Last(stack) = title THEN stack
                                 ELSE Append(stack, title)
           Next1(stack, i) == IF IsHeading(links[i])
                              THEN Push(Cut(stack, links[i].level), links[i].title)
                              ELSE stack
           Is(f) == f = [i \in 0..n |-> IF i = 0 THEN <<>>
                                        ELSE IF IsHeading(links[i])
                                             THEN Push(Cut(f[i - 1], links[i].level), links[i].title)
                                             ELSE f[i - 1]]
           stacked == CHOOSE f : Is(f)
<1>1. n \in Nat
  BY DEF Links
<1>2. ASSUME NEW stack \in D, NEW i \in 1..n PROVE Next1(stack, i) \in D
  <2>1. CASE ~IsHeading(links[i])
    BY <2>1
  <2>2. CASE IsHeading(links[i])
    <3>1. links[i].title \in Words /\ links[i].level \in {None} \union (Nat \ {0})
      BY <2>2 DEF Links
    <3>2. Cut(stack, links[i].level) \in D
      <4>1. CASE links[i].level = None \/ links[i].level - 1 >= Len(stack)
        BY <4>1
      <4>2. CASE ~(links[i].level = None \/ links[i].level - 1 >= Len(stack))
        <5>1. links[i].level \in Nat \ {0} /\ links[i].level - 1 < Len(stack)
          BY <3>1, <4>2
        <5>2. SubSeq(stack, 1, links[i].level - 1) \in D
          BY <5>1
        <5> QED
          BY <4>2, <5>2
      <4> QED
        BY <4>1, <4>2
    <3> HIDE DEF Cut
    <3>3. Push(Cut(stack, links[i].level), links[i].title) \in D
      BY <3>1, <3>2
    <3> QED
      BY <2>2, <3>3
  <2> QED
    BY <2>1, <2>2
<1>3. \E f : Is(f)
  <2> DEFINE step == [p \in (1..n) \X D |-> Next1(p[2], p[1])]
             base == <<>>
  <2>1. step \in [(1..n) \X D -> D]
    <3> HIDE DEF Next1, D, n
    <3>1. \A p \in (1..n) \X D : Next1(p[2], p[1]) \in D
      BY <1>2
    <3> QED
      BY <3>1
  <2>2. base \in D
    OBVIOUS
  <2> HIDE DEF step, D, n, base
  <2>3. PICK f \in [0..n -> D] : f[0] = base /\ \A i \in 1..n : f[i] = step[<<i, f[i - 1]>>]
    <3>1. \A b \in D : \A s \in [(1..n) \X D -> D] : \E f \in [0..n -> D] : Unfolds(f, n, b, s)
      BY <1>1, RecursionExists
    <3> QED
      BY <2>1, <2>2, <3>1 DEF Unfolds
  <2>4. ASSUME NEW i \in 0..n PROVE f[i] = IF i = 0 THEN <<>> ELSE Next1(f[i - 1], i)
    <3>1. CASE i = 0
      BY <2>3, <3>1 DEF base
    <3>2. CASE i # 0
      <4>1. i \in 1..n /\ i - 1 \in 0..n
        BY <1>1, <3>2
      <4>2. <<i, f[i - 1]>> \in (1..n) \X D
        BY <4>1
      <4> HIDE DEF Next1
      <4>3. step[<<i, f[i - 1]>>] = Next1(f[i - 1], i)
        BY <4>2 DEF step
      <4> QED
        BY <2>3, <3>2, <4>1, <4>3
    <3> QED
      BY <3>1, <3>2
  <2>5. Is(f)
    <3> DEFINE h == [i \in 0..n |-> IF i = 0 THEN <<>> ELSE Next1(f[i - 1], i)]
    <3>1. \A i \in 0..n : f[i] = h[i]
      BY <2>4
    <3>2. f = [i \in 0..n |-> f[i]] /\ h = [i \in 0..n |-> h[i]]
      OBVIOUS
    <3>3. f = h
      BY <3>1, <3>2
    <3> HIDE DEF Push, Cut
    <3> QED
      BY <3>3
  <2> QED
    BY <2>5
<1>4. Is(stacked)
  <2> HIDE DEF Is
  <2> QED
    BY <1>3
<1>5. Stack(links) = stacked[n]
  BY DEF Stack
<1> HIDE DEF stacked
<1>6. stacked[0] = <<>> /\ \A i \in 1..n : stacked[i] = Next1(stacked[i - 1], i)
  <2> HIDE DEF Push, Cut, n
  <2>1. ASSUME NEW i \in 0..n
        PROVE  stacked[i] = IF i = 0 THEN <<>> ELSE Next1(stacked[i - 1], i)
    BY <1>4
  <2> HIDE DEF Next1
  <2>2. 0 \in 0..n /\ \A i \in 1..n : i \in 0..n /\ i # 0
    BY <1>1
  <2> QED
    BY <2>1, <2>2
<1> DEFINE S == {i \in 0..n : stacked[i] \in D}
<1>7. 0 \in S
  <2>1. stacked[0] \in D
    BY <1>6
  <2> HIDE DEF D
  <2> QED
    BY <1>1, <2>1
<1>8. ASSUME NEW i \in 1..n, i - 1 \in S PROVE i \in S
  <2> HIDE DEF Next1, D
  <2> QED
    BY <1>1, <1>2, <1>6, <1>8
<1>9. n \in S
  <2> HIDE DEF S, n
  <2>1. \A i \in 0..n : i \in S
    BY <1>1, <1>7, <1>8, UpTo
  <2> QED
    BY <1>1, <2>1
<1> QED
  BY <1>5, <1>9

LEMMA MergeType ==
  ASSUME NEW base \in Seq(Words), NEW suffix \in Seq(Words)
  PROVE  MergeOverlap(base, suffix) \in Seq(Words)
<1> DEFINE overlaps == {n \in 0..Len(suffix) : /\ n <= Len(base)
                          /\ SubSeq(base, Len(base) - n + 1, Len(base)) = SubSeq(suffix, 1, n)}
           n == CHOOSE k \in overlaps : \A o \in overlaps : o <= k
<1>1. Len(base) \in Nat /\ Len(suffix) \in Nat
  OBVIOUS
<1>2. 0 \in overlaps
  <2>1. SubSeq(base, Len(base) - 0 + 1, Len(base)) = <<>> /\ SubSeq(suffix, 1, 0) = <<>>
    BY <1>1
  <2> QED
    BY <1>1, <2>1
<1>3. overlaps \in SUBSET Nat /\ \A o \in overlaps : o <= Len(suffix)
  BY <1>1
<1> HIDE DEF overlaps
<1>4. \E k \in overlaps : \A o \in overlaps : o <= k
  BY <1>1, <1>2, <1>3, GreatestExists
<1>5. n \in overlaps
  BY <1>4
<1> HIDE DEF n
<1>6. n \in 0..Len(suffix)
  BY <1>1, <1>3, <1>5
<1>7. SubSeq(suffix, n + 1, Len(suffix)) \in Seq(Words)
  BY <1>1, <1>6
<1>8. MergeOverlap(base, suffix) = base \o SubSeq(suffix, n + 1, Len(suffix))
  BY DEF MergeOverlap, n, overlaps
<1> QED
  BY <1>7, <1>8, ConcatProperties

LEMMA DeeperType ==
  ASSUME NEW s, s.path \in Seq(Words) \ {<<>>}, NEW links, Links(links)
  PROVE  Deeper(s, links) \in Seq(Words)
<1>1. Front(s.path) \in Seq(Words)
  BY DEF Front
<1>2. Stack(links) \in Seq(Words)
  BY StackType
<1>3. MergeOverlap(Front(s.path), Stack(links)) \in Seq(Words)
  BY <1>1, <1>2, MergeType
<1> QED
  BY <1>3 DEF Deeper

-----------------------------------------------------------------------------
(* Candidates, of a state's article, sections and structures.              *)

Pool(from, hangs, secs, forest, a, all, touched) ==
  IF hangs # {}
  THEN {Direct(p[1], p[2], from) :
          p \in {q \in hangs \X secs :
                   q[2].uid = q[1].uid /\ (all \/ a \in touched \/ q[2].uid \in touched)}}
  ELSE UNION {{Fallback(t.links, p[1], p[2], from) :
                 p \in {q \in (DOMAIN t.links) \X secs :
                          /\ Places(t.links, q[1], a, q[2])
                          /\ \/ all \/ a \in touched \/ q[2].uid \in touched
                             \/ t.text \in touched}} :
              t \in forest}

LEMMA CandidatesArePool ==
  ASSUME NEW a, NEW all, NEW touched
  PROVE  /\ document[a] = None => Candidates(a, all, touched) = {}
         /\ document[a] # None =>
              Candidates(a, all, touched) =
                Pool(document[a].from, edges[a], sections, structures, a, all, touched)
  BY DEF Candidates, Pool

Hung(c, from, hangs, secs, a, all, touched) ==
  \E e \in hangs, s \in secs :
    /\ s.uid = e.uid /\ (all \/ a \in touched \/ s.uid \in touched)
    /\ c = Direct(e, s, from)

Placed(c, from, secs, forest, a, all, touched) ==
  \E t \in forest : \E i \in DOMAIN t.links, s \in secs :
    /\ Places(t.links, i, a, s)
    /\ all \/ a \in touched \/ s.uid \in touched \/ t.text \in touched
    /\ c = Fallback(t.links, i, s, from)

LEMMA PoolMembers ==
  ASSUME NEW from, NEW hangs, NEW secs, NEW forest, NEW a, NEW all, NEW touched, NEW c
  PROVE  c \in Pool(from, hangs, secs, forest, a, all, touched) <=>
           \/ hangs # {} /\ Hung(c, from, hangs, secs, a, all, touched)
           \/ hangs = {} /\ Placed(c, from, secs, forest, a, all, touched)
<1>1. CASE hangs # {}
  <2> DEFINE Q == {q \in hangs \X secs :
                     q[2].uid = q[1].uid /\ (all \/ a \in touched \/ q[2].uid \in touched)}
  <2>1. Pool(from, hangs, secs, forest, a, all, touched) = {Direct(p[1], p[2], from) : p \in Q}
    BY <1>1 DEF Pool
  <2>2. ASSUME NEW p \in Q, c = Direct(p[1], p[2], from)
        PROVE  Hung(c, from, hangs, secs, a, all, touched)
    <3>1. p[1] \in hangs /\ p[2] \in secs
      OBVIOUS
    <3> QED
      BY <2>2, <3>1 DEF Hung
  <2>3. ASSUME Hung(c, from, hangs, secs, a, all, touched)
        PROVE  \E p \in Q : c = Direct(p[1], p[2], from)
    <3>1. PICK e \in hangs, s \in secs :
            /\ s.uid = e.uid /\ (all \/ a \in touched \/ s.uid \in touched)
            /\ c = Direct(e, s, from)
      BY <2>3 DEF Hung
    <3>2. <<e, s>> \in Q /\ <<e, s>>[1] = e /\ <<e, s>>[2] = s
      BY <3>1
    <3> HIDE DEF Q
    <3> QED
      BY <3>1, <3>2
  <2> HIDE DEF Q
  <2> QED
    BY <1>1, <2>1, <2>2, <2>3
<1>2. CASE hangs = {}
  <2> DEFINE Q(t) == {q \in (DOMAIN t.links) \X secs :
                        /\ Places(t.links, q[1], a, q[2])
                        /\ \/ all \/ a \in touched \/ q[2].uid \in touched
                           \/ t.text \in touched}
  <2>1. Pool(from, hangs, secs, forest, a, all, touched) =
          UNION {{Fallback(t.links, p[1], p[2], from) : p \in Q(t)} : t \in forest}
    BY <1>2 DEF Pool
  <2>2. ASSUME NEW t \in forest, NEW p \in Q(t), c = Fallback(t.links, p[1], p[2], from)
        PROVE  Placed(c, from, secs, forest, a, all, touched)
    <3>1. p[1] \in DOMAIN t.links /\ p[2] \in secs
      OBVIOUS
    <3>2. /\ Places(t.links, p[1], a, p[2])
          /\ all \/ a \in touched \/ p[2].uid \in touched \/ t.text \in touched
      OBVIOUS
    <3> QED
      BY <2>2, <3>1, <3>2 DEF Placed
  <2>3. ASSUME Placed(c, from, secs, forest, a, all, touched)
        PROVE  \E t \in forest : \E p \in Q(t) : c = Fallback(t.links, p[1], p[2], from)
    <3>1. PICK t \in forest : \E i \in DOMAIN t.links, s \in secs :
            /\ Places(t.links, i, a, s)
            /\ all \/ a \in touched \/ s.uid \in touched \/ t.text \in touched
            /\ c = Fallback(t.links, i, s, from)
      BY <2>3 DEF Placed
    <3>2. PICK i \in DOMAIN t.links, s \in secs :
            /\ Places(t.links, i, a, s)
            /\ all \/ a \in touched \/ s.uid \in touched \/ t.text \in touched
            /\ c = Fallback(t.links, i, s, from)
      BY <3>1
    <3>3. <<i, s>> \in Q(t) /\ <<i, s>>[1] = i /\ <<i, s>>[2] = s
      BY <3>2
    <3> HIDE DEF Q
    <3>4. c = Fallback(t.links, <<i, s>>[1], <<i, s>>[2], from)
      BY <3>2, <3>3
    <3> QED
      BY <3>3, <3>4
  <2>4. c \in UNION {{Fallback(t.links, p[1], p[2], from) : p \in Q(t)} : t \in forest}
          <=> \E t \in forest : \E p \in Q(t) : c = Fallback(t.links, p[1], p[2], from)
    <3> HIDE DEF Q
    <3> QED
      OBVIOUS
  <2> HIDE DEF Q
  <2> QED
    BY <1>2, <2>1, <2>2, <2>3, <2>4
<1> QED
  BY <1>1, <1>2

(* Of candidates with a date, those preferred among two sets are preferred *)
(* in one of them ...                                                      *)
Dated(C) == \A c \in C : c.section.from \in Nat

LEMMA PreferredOfUnion ==
  ASSUME NEW O, NEW B, Dated(O), Dated(B), NEW o \in Preferred(O), NEW b \in Preferred(B)
  PROVE  o \in Preferred(O \union B) \/ b \in Preferred(O \union B)
<1> DEFINE Valid(C) == {c \in C : ValidAtAnchor(c)}
           PoolOf(C) == IF Valid(C) # {} THEN Valid(C) ELSE C
<1>1. o \in PoolOf(O) /\ \A c \in PoolOf(O) : c.section.from <= o.section.from
  BY DEF Preferred
<1>2. b \in PoolOf(B) /\ \A c \in PoolOf(B) : c.section.from <= b.section.from
  BY DEF Preferred
<1>3. \A c \in PoolOf(O \union B) :
        c \in Preferred(O \union B) <=>
          \A d \in PoolOf(O \union B) : d.section.from <= c.section.from
  BY DEF Preferred
<1>4. o \in O /\ b \in B /\ o.section.from \in Nat /\ b.section.from \in Nat
  BY <1>1, <1>2 DEF Dated
<1>5. \A c \in O \union B : c.section.from \in Nat
  BY DEF Dated
<1> DEFINE x == o.section.from
           y == b.section.from
<1>6. CASE Valid(O) = {} /\ Valid(B) # {}
  <2>1. PoolOf(O \union B) = PoolOf(B)
    BY <1>6
  <2> QED
    BY <1>2, <1>3, <2>1
<1>7. CASE Valid(O) # {} /\ Valid(B) = {}
  <2>1. PoolOf(O \union B) = PoolOf(O)
    BY <1>7
  <2> QED
    BY <1>1, <1>3, <2>1
<1>8. CASE (Valid(O) = {}) <=> (Valid(B) = {})
  <2>1. PoolOf(O \union B) = PoolOf(O) \union PoolOf(B)
    BY <1>8
  <2>2. PoolOf(O \union B) \subseteq O \union B
    OBVIOUS
  <2> HIDE DEF PoolOf
  <2>3. CASE x <= y
    <3>1. ASSUME NEW d \in PoolOf(O \union B) PROVE d.section.from <= y
      <4>1. d.section.from \in Nat
        BY <1>5, <2>2
      <4>2. x \in Nat /\ y \in Nat
        BY <1>4
      <4>3. d.section.from <= x \/ d.section.from <= y
        BY <1>1, <1>2, <2>1
      <4> HIDE DEF x, y
      <4> QED
        BY <2>3, <4>1, <4>2, <4>3
    <3> QED
      BY <1>2, <1>3, <2>1, <3>1
  <2>4. CASE y <= x
    <3>1. ASSUME NEW d \in PoolOf(O \union B) PROVE d.section.from <= x
      <4>1. d.section.from \in Nat
        BY <1>5, <2>2
      <4>2. x \in Nat /\ y \in Nat
        BY <1>4
      <4>3. d.section.from <= x \/ d.section.from <= y
        BY <1>1, <1>2, <2>1
      <4> HIDE DEF x, y
      <4> QED
        BY <2>4, <4>1, <4>2, <4>3
    <3> QED
      BY <1>1, <1>3, <2>1, <3>1
  <2> QED
    BY <1>4, <2>3, <2>4
<1> QED
  BY <1>6, <1>7, <1>8

(* ... and there is one among any whose dates are bounded.                 *)
LEMMA PreferredExists ==
  ASSUME NEW C, C # {}, Dated(C), NEW n \in Nat, \A c \in C : c.section.from <= n
  PROVE  Preferred(C) # {} /\ Preferred(C) \subseteq C
<1> DEFINE valid == {c \in C : ValidAtAnchor(c)}
           pool == IF valid # {} THEN valid ELSE C
           froms == {c.section.from : c \in pool}
<1>1. pool # {} /\ pool \subseteq C
  OBVIOUS
<1>2. Preferred(C) = {c \in pool : \A o \in pool : o.section.from <= c.section.from}
  BY DEF Preferred
<1> HIDE DEF pool
<1>3. froms \in SUBSET Nat /\ froms # {} /\ \A f \in froms : f <= n
  BY <1>1 DEF Dated
<1>4. PICK f \in froms : \A g \in froms : g <= f
  <2> HIDE DEF froms
  <2> QED
    BY <1>3, GreatestExists
<1>5. PICK c \in pool : c.section.from = f
  BY <1>4
<1>6. \A o \in pool : o.section.from <= c.section.from
  BY <1>4, <1>5
<1> QED
  BY <1>1, <1>2, <1>5, <1>6

-----------------------------------------------------------------------------
(* One article's document, chunks and vectors.                             *)

Texts == [path : Seq(Words), body : Seq(Words)]
Rows == [text : Texts, stamped : BOOLEAN]

ArticleHolds(doc, rows, vecs) ==
  /\ doc \in Documents \union {None} /\ rows \in Seq(Rows) /\ vecs \in Seq(Texts \union {None})
  /\ doc = None <=> rows = <<>>
  /\ Len(vecs) = Len(rows)
  /\ doc # None =>
       /\ doc.parts \in 1..Len(rows)
       /\ FlattenSeq([i \in 1..doc.parts |-> rows[i].text.body]) = doc.body
  /\ \A i \in 1..Len(rows) : rows[i].stamped => vecs[i] = rows[i].text

LEMMA MaxOfTwo ==
  ASSUME NEW x \in Nat, NEW y \in Nat
  PROVE  Max({x, y}) = IF x <= y THEN y ELSE x
<1> DEFINE m == IF x <= y THEN y ELSE x
<1>1. m \in {x, y} /\ \A z \in {x, y} : m >= z
  OBVIOUS
<1>2. \A u \in {x, y} : (\A z \in {x, y} : u >= z) => u = m
  OBVIOUS
<1> QED
  BY <1>1, <1>2 DEF Max

LEMMA UpsertHolds ==
  ASSUME NoneAssumption, NEW doc, NEW rows, NEW vecs, ArticleHolds(doc, rows, vecs), NEW p, IsArticle(p)
  PROVE  LET bodies == Chunked(p.path, p.body)
         IN  ArticleHolds([body |-> p.body, path |-> p.path, from |-> p.from, parts |-> Len(bodies)],
                          Upserted(rows, p.path, bodies), Widened(vecs, Len(bodies)))
<1> DEFINE bodies == Chunked(p.path, p.body)
           m == Len(bodies)
           n == Max({Len(rows), m})
           new == [body |-> p.body, path |-> p.path, from |-> p.from, parts |-> m]
           up == Upserted(rows, p.path, bodies)
           wide == Widened(vecs, m)
<1>1. p.path \in Seq(Words) /\ p.body \in Seq(Words) /\ p.body # <<>> /\ p.from \in Nat
  BY DEF IsArticle
<1>2. bodies \in Seq(Seq(Words)) /\ bodies # <<>> /\ Flattens(Words, bodies, p.body)
  BY <1>1, ChunksHoldTheBody
<1> HIDE DEF bodies
<1>3. m \in Nat \ {0} /\ \A i \in 1..m : bodies[i] \in Seq(Words)
  BY <1>2
<1>4. /\ rows \in Seq(Rows) /\ vecs \in Seq(Texts \union {None}) /\ Len(vecs) = Len(rows)
      /\ \A i \in 1..Len(rows) : rows[i].stamped => vecs[i] = rows[i].text
      /\ Len(rows) \in Nat
  BY DEF ArticleHolds
<1>5. n \in Nat /\ n >= m /\ n >= Len(rows) /\ (n = m \/ n = Len(rows))
  BY <1>3, <1>4, MaxOfTwo
<1> DEFINE text(i) == [path |-> p.path, body |-> bodies[i]]
<1>6. up = [i \in 1..n |->
              IF i > m THEN rows[i]
              ELSE [text |-> text(i),
                    stamped |-> i <= Len(rows) /\ rows[i].stamped /\ rows[i].text = text(i)]]
  BY DEF Upserted
<1>7. wide = [i \in 1..n |-> IF i <= Len(rows) THEN vecs[i] ELSE None]
  BY <1>4 DEF Widened
<1> HIDE DEF m, n, up, wide
<1>8. ASSUME NEW i \in 1..n
      PROVE  /\ up[i] \in Rows
             /\ i <= m => up[i].text.body = bodies[i]
             /\ up[i].stamped => wide[i] = up[i].text
             /\ wide[i] \in Texts \union {None}
  <2>1. CASE i > m
    <3>1. i \in 1..Len(rows) /\ up[i] = rows[i] /\ wide[i] = vecs[i]
      BY <1>3, <1>4, <1>5, <1>6, <1>7, <2>1
    <3>2. rows[i] \in Rows /\ vecs[i] \in Texts \union {None}
      BY <1>4, <3>1
    <3> QED
      BY <1>3, <1>4, <2>1, <3>1, <3>2
  <2>2. CASE ~(i > m)
    <3> DEFINE st == i <= Len(rows) /\ rows[i].stamped /\ rows[i].text = text(i)
    <3>1. i \in 1..m /\ up[i] = [text |-> text(i), stamped |-> st]
      BY <1>3, <1>6, <2>2
    <3>2. text(i) \in Texts /\ text(i).body = bodies[i]
      BY <1>1, <1>3, <3>1 DEF Texts
    <3>3. st \in BOOLEAN
      OBVIOUS
    <3>4. st => wide[i] = text(i)
      <4>1. SUFFICES ASSUME st PROVE wide[i] = text(i)
        OBVIOUS
      <4>2. i \in 1..Len(rows)
        BY <1>4, <4>1
      <4> QED
        BY <1>4, <1>7, <4>1, <4>2
    <3>5. wide[i] \in Texts \union {None}
      <4>1. CASE i <= Len(rows)
        <5>1. i \in 1..Len(vecs) /\ wide[i] = vecs[i]
          BY <1>4, <1>7, <4>1
        <5> QED
          BY <1>4, <5>1
      <4>2. CASE ~(i <= Len(rows))
        BY <1>7, <4>2
      <4> QED
        BY <4>1, <4>2
    <3> HIDE DEF text, st
    <3>6. up[i] \in Rows /\ up[i].text = text(i) /\ up[i].stamped = st
      BY <3>1, <3>2, <3>3 DEF Rows
    <3> QED
      BY <3>2, <3>4, <3>5, <3>6
  <2> QED
    BY <2>1, <2>2
<1>9. up \in Seq(Rows) /\ Len(up) = n /\ DOMAIN up = 1..n
  <2>1. up \in [1..n -> Rows]
    BY <1>6, <1>8
  <2> QED
    BY <1>5, <2>1
<1>10. wide \in Seq(Texts \union {None}) /\ Len(wide) = n
  <2>1. wide \in [1..n -> Texts \union {None}]
    <3> DEFINE T == Texts \union {None}
    <3>1. \A i \in 1..n : wide[i] \in T
      BY <1>8
    <3> HIDE DEF T
    <3>2. wide \in [1..n -> T]
      BY <1>7, <3>1
    <3> QED
      BY <3>2 DEF T
  <2> QED
    BY <1>5, <2>1
<1>11. new \in Documents /\ new.parts = m /\ new.body = p.body
  BY <1>1, <1>3 DEF Documents
<1>12. m \in 1..Len(up) /\ up # <<>>
  BY <1>3, <1>5, <1>9
<1>13. FlattenSeq([i \in 1..m |-> up[i].text.body]) = p.body
  <2>1. [i \in 1..m |-> up[i].text.body] = bodies
    <3> DEFINE g == [i \in 1..m |-> up[i].text.body]
    <3>1. \A i \in 1..m : g[i] = bodies[i]
      BY <1>3, <1>5, <1>8
    <3>2. bodies = [i \in 1..m |-> bodies[i]]
      BY <1>2 DEF m
    <3>3. g = [i \in 1..m |-> g[i]]
      OBVIOUS
    <3> HIDE DEF g
    <3>4. g = bodies
      BY <3>1, <3>2, <3>3
    <3> QED
      BY <3>4 DEF g
  <2>2. FlattenSeq(bodies) = p.body
    <3>1. \A s \in Seq(Seq(Words)) : s # <<>> /\ Flattens(Words, s, p.body) => FlattenSeq(s) = p.body
      BY FlattenSeqIs
    <3> QED
      BY <1>2, <3>1
  <2> QED
    BY <2>1, <2>2
<1>14. new # None
  BY <1>11 DEF NoneAssumption
<1>15. \A i \in 1..Len(up) : up[i].stamped => wide[i] = up[i].text
  BY <1>8, <1>9
<1> HIDE DEF new
<1>16. ArticleHolds(new, up, wide)
  BY <1>9, <1>10, <1>11, <1>12, <1>13, <1>14, <1>15 DEF ArticleHolds
<1> QED
  BY <1>16 DEF new, up, wide, m, bodies

(* The same bodies flatten to the same text.                               *)
LEMMA FlattenSame ==
  ASSUME NEW m, NEW f, NEW g, \A i \in 1..m : f[i].text.body = g[i].text.body
  PROVE  FlattenSeq([i \in 1..m |-> f[i].text.body]) = FlattenSeq([i \in 1..m |-> g[i].text.body])
<1>1. [i \in 1..m |-> f[i].text.body] = [i \in 1..m |-> g[i].text.body]
  OBVIOUS
<1> QED
  BY <1>1

LEMMA RehungHolds ==
  ASSUME NoneAssumption, NEW a, ArticleHolds(document[a], chunks[a], vectors[a]), document[a] # None,
         NEW path \in Seq(Words)
  PROVE  ArticleHolds([document[a] EXCEPT !.path = path], Rehung(a, path),
                      [i \in DOMAIN vectors[a] |-> None])
<1> DEFINE doc == document[a]
           rows == chunks[a]
           vecs == vectors[a]
           new == [doc EXCEPT !.path = path]
           up == Rehung(a, path)
           wide == [i \in DOMAIN vecs |-> None]
           n == Len(rows)
<1>1. /\ doc \in Documents /\ rows \in Seq(Rows) /\ vecs \in Seq(Texts \union {None})
      /\ n \in Nat /\ DOMAIN rows = 1..n /\ DOMAIN vecs = 1..n /\ rows # <<>>
      /\ doc.parts \in 1..n /\ \A i \in 1..n : rows[i] \in Rows
      /\ FlattenSeq([i \in 1..doc.parts |-> rows[i].text.body]) = doc.body
  BY DEF ArticleHolds
<1>2. new \in Documents /\ new.parts = doc.parts /\ new.body = doc.body
  BY <1>1 DEF Documents
<1>3. up = [i \in 1..n |->
              [text |-> IF i <= doc.parts THEN [rows[i].text EXCEPT !.path = path] ELSE rows[i].text,
               stamped |-> FALSE]]
  BY <1>1 DEF Rehung
<1> HIDE DEF up, new
<1>4. ASSUME NEW i \in 1..n
      PROVE  up[i] \in Rows /\ ~up[i].stamped /\ up[i].text.body = rows[i].text.body
  <2>1. rows[i].text \in Texts
    BY <1>1 DEF Rows
  <2> DEFINE text == IF i <= doc.parts THEN [rows[i].text EXCEPT !.path = path] ELSE rows[i].text
  <2>2. text \in Texts /\ text.body = rows[i].text.body
    BY <2>1 DEF Texts
  <2>3. up[i] = [text |-> text, stamped |-> FALSE]
    BY <1>3
  <2> HIDE DEF text
  <2> QED
    BY <2>2, <2>3 DEF Rows
<1>5. up \in Seq(Rows) /\ Len(up) = n
  <2> HIDE DEF n
  <2>1. up \in [1..n -> Rows]
    BY <1>3, <1>4
  <2> QED
    BY <1>1, <2>1
<1>6. wide \in Seq(Texts \union {None}) /\ Len(wide) = n
  <2> DEFINE T == Texts \union {None}
  <2>1. wide \in [1..n -> T]
    BY <1>1
  <2> HIDE DEF T
  <2> QED
    BY <1>1, <2>1 DEF T
<1>7. FlattenSeq([i \in 1..doc.parts |-> up[i].text.body]) = doc.body
  <2>1. \A i \in 1..doc.parts : up[i].text.body = rows[i].text.body
    BY <1>1, <1>4
  <2>2. FlattenSeq([i \in 1..doc.parts |-> up[i].text.body]) =
          FlattenSeq([i \in 1..doc.parts |-> rows[i].text.body])
    BY <2>1, FlattenSame
  <2> QED
    BY <1>1, <2>2
<1>8. new # None /\ up # <<>>
  BY <1>1, <1>2, <1>5 DEF NoneAssumption
<1> HIDE DEF wide, n, doc, rows, vecs
<1>9. ArticleHolds(new, up, wide)
  BY <1>1, <1>2, <1>4, <1>5, <1>6, <1>7, <1>8 DEF ArticleHolds
<1> QED
  BY <1>9 DEF new, up, wide, doc, vecs

LEMMA EmbeddedHolds ==
  ASSUME NEW a, ArticleHolds(document[a], chunks[a], vectors[a])
  PROVE  ArticleHolds(document[a],
           [i \in DOMAIN chunks[a] |-> [chunks[a][i] EXCEPT !.stamped = TRUE]],
           [i \in DOMAIN vectors[a] |-> IF i \in Pending(a) THEN chunks[a][i].text ELSE vectors[a][i]])
<1> DEFINE doc == document[a]
           rows == chunks[a]
           vecs == vectors[a]
           up == [i \in DOMAIN rows |-> [rows[i] EXCEPT !.stamped = TRUE]]
           wide == [i \in DOMAIN vecs |-> IF i \in Pending(a) THEN rows[i].text ELSE vecs[i]]
           n == Len(rows)
<1>1. /\ doc \in Documents \union {None} /\ rows \in Seq(Rows) /\ vecs \in Seq(Texts \union {None})
      /\ n \in Nat /\ DOMAIN rows = 1..n /\ DOMAIN vecs = 1..n
      /\ \A i \in 1..n : rows[i] \in Rows /\ vecs[i] \in Texts \union {None}
      /\ \A i \in 1..n : rows[i].stamped => vecs[i] = rows[i].text
  BY DEF ArticleHolds
<1>2. ASSUME NEW i \in 1..n
      PROVE  up[i] \in Rows /\ up[i].text = rows[i].text /\ wide[i] = rows[i].text
  <2>1. up[i] = [rows[i] EXCEPT !.stamped = TRUE] /\ rows[i] \in Rows
    BY <1>1
  <2>2. up[i] \in Rows /\ up[i].text = rows[i].text
    BY <2>1 DEF Rows
  <2>3. CASE i \in Pending(a)
    BY <1>1, <2>2, <2>3
  <2>4. CASE i \notin Pending(a)
    <3>1. rows[i].stamped /\ wide[i] = vecs[i]
      BY <1>1, <2>4 DEF Pending
    <3> QED
      BY <1>1, <2>2, <3>1
  <2> QED
    BY <2>3, <2>4, <2>2
<1>3. up = [i \in 1..n |-> up[i]] /\ wide = [i \in 1..n |-> wide[i]]
  BY <1>1
<1> HIDE DEF up, wide
<1>4. up \in Seq(Rows) /\ Len(up) = n
  <2>1. up \in [1..n -> Rows]
    BY <1>2, <1>3
  <2> QED
    BY <1>1, <2>1
<1>5. wide \in Seq(Texts \union {None}) /\ Len(wide) = n
  <2> DEFINE T == Texts \union {None}
  <2>1. \A i \in 1..n : wide[i] \in T
    BY <1>1, <1>2 DEF Rows
  <2>2. wide \in [1..n -> T]
    BY <1>3, <2>1
  <2> HIDE DEF T
  <2> QED
    BY <1>1, <2>2 DEF T
<1>6. doc = None <=> up = <<>>
  <2>1. doc = None <=> n = 0
    BY <1>1 DEF ArticleHolds
  <2> QED
    BY <1>4, <2>1
<1>7. ASSUME doc # None
      PROVE  doc.parts \in 1..n /\ FlattenSeq([i \in 1..doc.parts |-> up[i].text.body]) = doc.body
  <2>1. /\ doc.parts \in 1..n
        /\ FlattenSeq([i \in 1..doc.parts |-> rows[i].text.body]) = doc.body
    BY <1>7 DEF ArticleHolds
  <2>2. \A i \in 1..doc.parts : up[i].text.body = rows[i].text.body
    BY <1>1, <1>2, <2>1
  <2>3. FlattenSeq([i \in 1..doc.parts |-> up[i].text.body]) =
          FlattenSeq([i \in 1..doc.parts |-> rows[i].text.body])
    BY <2>2, FlattenSame
  <2> QED
    BY <2>1, <2>3
<1> HIDE DEF n, doc, rows, vecs
<1>8. ArticleHolds(doc, up, wide)
  BY <1>1, <1>2, <1>4, <1>5, <1>6, <1>7 DEF ArticleHolds
<1> QED
  BY <1>8 DEF up, wide, doc, rows, vecs

-----------------------------------------------------------------------------
(* The invariant.  The store: every article is indexed with all its text,  *)
(* and what hierarchies are computed from is well formed.                  *)

StoreInv ==
  /\ document \in [Articles -> Documents \union {None}]
  /\ edges = [a \in Articles |-> edges[a]]
  /\ chunks \in [Articles -> Seq(Rows)] /\ vectors \in [Articles -> Seq(Texts \union {None})]
  /\ \A a \in Articles : ArticleHolds(document[a], chunks[a], vectors[a])
  /\ \A s \in sections : s.from \in Nat /\ s.path \in Seq(Words) \ {<<>>}
  /\ \A t \in structures : Links(t.links)

DatesBounded == \E n \in Nat : \A s \in sections : s.from <= n

(* The ledger: what a run has not consumed is in its batch; it has         *)
(* accounted for members of its own when it touched or skipped any.        *)
Phases == {"idle", "ingest", "backfill", "finish", "embed"}
Working == {"ingest", "backfill", "finish"}
Updates == UNION {[S -> Seq(Words)] : S \in SUBSET Articles}
Runs == [phase : Phases, batch : SUBSET Members, todo : SUBSET Members,
         touched : SUBSET {Member[m].id : m \in Members}, skipped : BOOLEAN, updates : Updates]

LedgerInv ==
  /\ run \in Runs /\ faults \in 0..MaxFaults
  /\ published \subseteq Members /\ recorded \subseteq published /\ consumed \subseteq recorded
  /\ run.batch \subseteq published /\ run.todo \subseteq run.batch
  /\ run.phase \in Working =>
       /\ run.batch \intersect consumed = {} /\ recorded \subseteq consumed \union run.batch
       /\ run.batch \ run.todo \subseteq recorded
  /\ run.phase \in {"backfill", "finish"} => run.todo = {}
  /\ run.phase = "ingest" /\ (run.skipped \/ run.touched # {}) => ~(recorded \subseteq consumed)
  /\ run.phase = "backfill" => \A a \in DOMAIN run.updates : document[a] # None

(* Hierarchies: what a backfill of everything would place under one        *)
(* section hangs as deep as the version it prefers.                        *)
KnownOf(doc, hangs, secs, forest, a) ==
  IF doc = None THEN {} ELSE Pool(doc.from, hangs, secs, forest, a, TRUE, {})

OneSection(C) == C # {} /\ \A c, d \in C : c.section.uid = d.section.uid

DeepEnough(C, path) == \E c \in Preferred(C) : Len(c.path) <= Len(path)

Settled(C, path) == OneSection(C) => DeepEnough(C, path)

AllSettled ==
  \A a \in Articles : Settled(KnownOf(document[a], edges[a], sections, structures, a), document[a].path)

(* What a run has not touched is settled over the structures it found.     *)
UntouchedOf(C, touched, path) == (\A c \in C : c.section.uid \notin touched) => Settled(C, path)

UntouchedSettled ==
  \E forest \in SUBSET structures :
    /\ \A t \in structures \ forest : t.text \in run.touched
    /\ \A a \in Articles \ run.touched :
         UntouchedOf(KnownOf(document[a], edges[a], sections, forest, a), run.touched, document[a].path)

NewPath(a) == IF a \in DOMAIN run.updates THEN run.updates[a] ELSE document[a].path

HierarchyInv ==
  /\ recorded \subseteq consumed => AllSettled
  /\ run.phase = "ingest" /\ ~run.skipped /\ run.todo \intersect recorded = {} => UntouchedSettled
  /\ run.phase = "backfill" =>
       \A a \in Articles :
         Settled(KnownOf(document[a], edges[a], sections, structures, a), NewPath(a))
  /\ run.phase = "finish" => AllSettled

IInv == StoreInv /\ DatesBounded /\ LedgerInv /\ HierarchyInv

-----------------------------------------------------------------------------
(* Steps that leave the store alone.                                       *)

LEMMA StoreStays ==
  ASSUME UNCHANGED storeVars
  PROVE  /\ StoreInv => StoreInv'
         /\ DatesBounded => DatesBounded'
         /\ AllSettled => AllSettled'
  BY DEF storeVars, StoreInv, DatesBounded, AllSettled

LEMMA PublishHolds ==
  ASSUME IInv, NEW m \in Members, Publish(m)
  PROVE  IInv'
<1>1. UNCHANGED storeVars /\ UNCHANGED <<recorded, consumed, run, faults>> /\ published' = published \union {m}
  BY DEF Publish
<1>2. LedgerInv'
  BY <1>1 DEF IInv, LedgerInv, storeVars
<1>3. HierarchyInv'
  BY <1>1 DEF IInv, HierarchyInv, AllSettled, UntouchedSettled, NewPath, storeVars
<1> QED
  BY <1>1, <1>2, <1>3, StoreStays DEF IInv

LEMMA IdleIsRun ==
  /\ Idle \in Runs
  /\ Idle.phase = "idle" /\ Idle.batch = {} /\ Idle.todo = {} /\ Idle.touched = {} /\ Idle.skipped = FALSE
<1>1. Idle.updates \in [{} -> Seq(Words)]
  BY DEF Idle
<1>2. Idle.updates \in Updates
  BY <1>1 DEF Updates
<1> QED
  BY <1>2 DEF Idle, Runs, Phases

LEMMA BeginHolds ==
  ASSUME IInv, Begin
  PROVE  IInv'
<1>1. UNCHANGED storeVars /\ UNCHANGED <<published, recorded, consumed, faults>> /\ run.phase = "idle"
  BY DEF Begin
<1>2. /\ run' \in Runs /\ run'.phase = "ingest" /\ run'.touched = {} /\ run'.skipped = FALSE
      /\ run'.batch = published \ consumed /\ run'.todo = published \ consumed
  <2>1. published \subseteq Members
    BY DEF IInv, LedgerInv
  <2> QED
    BY <2>1, IdleIsRun DEF Begin, Runs, Phases
<1>3. LedgerInv'
  BY <1>1, <1>2 DEF IInv, LedgerInv, Working
<1>4. HierarchyInv'
  <2>1. recorded \subseteq consumed => AllSettled /\ AllSettled'
    BY <1>1, StoreStays DEF IInv, HierarchyInv
  <2>2. ASSUME run'.todo \intersect recorded = {} PROVE UntouchedSettled'
    <3>1. recorded \subseteq consumed
      BY <1>2, <2>2 DEF IInv, LedgerInv
    <3>2. AllSettled'
      BY <2>1, <3>1
    <3> QED
      BY <1>2, <3>2 DEF UntouchedSettled, UntouchedOf, AllSettled
  <2> QED
    BY <1>1, <1>2, <2>1, <2>2 DEF HierarchyInv
<1> QED
  BY <1>1, <1>3, <1>4, StoreStays DEF IInv

LEMMA SkipHolds ==
  ASSUME IInv, NEW m \in Members, Skip(m)
  PROVE  IInv'
<1>1. UNCHANGED storeVars /\ UNCHANGED <<published, recorded, consumed, faults>>
  BY DEF Skip
<1>2. run.phase = "ingest" /\ m \in run.todo /\ m \in recorded
  BY DEF Skip, Take
<1>3. /\ run' \in Runs /\ run'.phase = "ingest" /\ run'.skipped
      /\ run'.batch = run.batch /\ run'.todo = run.todo \ {m}
  <2>1. run \in Runs
    BY DEF IInv, LedgerInv
  <2> QED
    BY <1>2, <2>1 DEF Skip, Runs
<1>4. m \in run.batch /\ m \notin consumed
  BY <1>2 DEF IInv, LedgerInv, Working
<1>5. LedgerInv'
  BY <1>1, <1>2, <1>3, <1>4 DEF IInv, LedgerInv, Working
<1>6. HierarchyInv'
  BY <1>1, <1>2, <1>3, <1>4 DEF IInv, HierarchyInv
<1> QED
  BY <1>1, <1>5, <1>6, StoreStays DEF IInv

LEMMA FinishHolds ==
  ASSUME IInv, Finish
  PROVE  IInv'
<1>1. /\ UNCHANGED storeVars /\ UNCHANGED <<published, recorded, faults>>
      /\ consumed' = consumed \union run.batch /\ run.phase = "finish"
  BY DEF Finish
<1>2. run' \in Runs /\ run'.phase = "embed" /\ run'.batch = {} /\ run'.todo = {}
  BY IdleIsRun DEF Finish, Runs, Phases
<1>3. run.todo = {} /\ consumed' \subseteq recorded
  BY <1>1 DEF IInv, LedgerInv, Working
<1>4. LedgerInv'
  BY <1>1, <1>2, <1>3 DEF IInv, LedgerInv, Working
<1>5. HierarchyInv'
  <2>1. AllSettled'
    BY <1>1, StoreStays DEF IInv, HierarchyInv
  <2> QED
    BY <1>2, <2>1 DEF HierarchyInv
<1> QED
  BY <1>1, <1>4, <1>5, StoreStays DEF IInv

LEMMA EndHolds ==
  ASSUME IInv, UNCHANGED storeVars, UNCHANGED <<published, recorded, consumed>>, run' = Idle,
         faults' \in 0..MaxFaults
  PROVE  IInv'
<1>1. LedgerInv'
  BY IdleIsRun DEF IInv, LedgerInv, Working
<1>2. HierarchyInv'
  <2>1. (recorded \subseteq consumed)' => AllSettled'
    BY StoreStays DEF IInv, HierarchyInv
  <2> QED
    BY <2>1, IdleIsRun DEF HierarchyInv
<1> QED
  BY <1>1, <1>2, StoreStays DEF IInv

-----------------------------------------------------------------------------
(* A member is projected.                                                  *)

(* What is known of an article names sections that are known.              *)
LEMMA KnownSections ==
  ASSUME NEW doc, NEW hangs, NEW secs, NEW forest, NEW a
  PROVE  \A c \in KnownOf(doc, hangs, secs, forest, a) : c.section \in secs
<1> SUFFICES ASSUME doc # None, NEW c \in Pool(doc.from, hangs, secs, forest, a, TRUE, {})
             PROVE  c.section \in secs
  BY DEF KnownOf
<1>1. \/ Hung(c, doc.from, hangs, secs, a, TRUE, {})
      \/ Placed(c, doc.from, secs, forest, a, TRUE, {})
  BY PoolMembers
<1> QED
  BY <1>1 DEF Hung, Placed, Direct, Fallback

(* A version of a section that reaches nothing of an article changes       *)
(* nothing of what is known of it.                                         *)
LEMMA OtherSection ==
  ASSUME NEW doc, NEW hangs, NEW forest, NEW a, NEW old, NEW new, NEW w,
         \A s \in new : s.uid # w => s \in old, \A s \in old : s.uid # w => s \in new,
         \E s \in new : s.uid = w,
         \A c \in KnownOf(doc, hangs, new, forest, a) : c.section.uid # w
  PROVE  KnownOf(doc, hangs, new, forest, a) = KnownOf(doc, hangs, old, forest, a)
<1>1. CASE doc = None
  BY <1>1 DEF KnownOf
<1>2. CASE doc # None
  <2> DEFINE from == doc.from
             N == Pool(from, hangs, new, forest, a, TRUE, {})
             O == Pool(from, hangs, old, forest, a, TRUE, {})
  <2>1. N = KnownOf(doc, hangs, new, forest, a) /\ O = KnownOf(doc, hangs, old, forest, a)
    BY <1>2 DEF KnownOf
  <2>2. \A c \in N : c.section.uid # w
    BY <2>1
  <2>3. PICK v \in new : v.uid = w
    OBVIOUS
  <2>4. \A c : c \in N <=> \/ hangs # {} /\ Hung(c, from, hangs, new, a, TRUE, {})
                           \/ hangs = {} /\ Placed(c, from, new, forest, a, TRUE, {})
    BY PoolMembers
  <2>5. \A c : c \in O <=> \/ hangs # {} /\ Hung(c, from, hangs, old, a, TRUE, {})
                           \/ hangs = {} /\ Placed(c, from, old, forest, a, TRUE, {})
    BY PoolMembers
  <2> HIDE DEF N, O, from
  <2>6. CASE hangs # {}
    <3>1. ASSUME NEW e \in hangs, e.uid = w PROVE FALSE
      <4>1. Hung(Direct(e, v, from), from, hangs, new, a, TRUE, {})
        BY <2>3, <3>1 DEF Hung
      <4>2. Direct(e, v, from) \in N
        BY <2>4, <2>6, <4>1
      <4>3. Direct(e, v, from).section = v
        BY DEF Direct
      <4> QED
        BY <2>2, <2>3, <4>2, <4>3
    <3>2. ASSUME NEW c PROVE Hung(c, from, hangs, new, a, TRUE, {}) <=> Hung(c, from, hangs, old, a, TRUE, {})
      BY <3>1 DEF Hung
    <3> QED
      BY <2>1, <2>4, <2>5, <2>6, <3>2
  <2>7. CASE hangs = {}
    <3>1. ASSUME NEW t \in forest, NEW i \in DOMAIN t.links, NEW s, s.uid = w, Places(t.links, i, a, s)
          PROVE  FALSE
      <4>1. Places(t.links, i, a, v)
        BY <2>3, <3>1 DEF Places
      <4>2. Placed(Fallback(t.links, i, v, from), from, new, forest, a, TRUE, {})
        BY <2>3, <4>1 DEF Placed
      <4>3. Fallback(t.links, i, v, from) \in N
        BY <2>4, <2>7, <4>2
      <4>4. Fallback(t.links, i, v, from).section = v
        BY DEF Fallback
      <4> QED
        BY <2>2, <2>3, <4>3, <4>4
    <3>2. ASSUME NEW c PROVE Placed(c, from, new, forest, a, TRUE, {}) <=> Placed(c, from, old, forest, a, TRUE, {})
      BY <3>1 DEF Placed
    <3> QED
      BY <2>1, <2>4, <2>5, <2>7, <3>2
  <2> QED
    BY <2>6, <2>7
<1> QED
  BY <1>1, <1>2

(* What every member does to the run and the ledger.                       *)
LEMMA ProcessLedger ==
  ASSUME IInv, NEW m \in Members, Process(m)
  PROVE  /\ LedgerInv' /\ ~(recorded \subseteq consumed)'
         /\ run'.phase = "ingest" /\ run'.skipped = run.skipped /\ run.phase = "ingest"
         /\ run'.touched = run.touched \union {Member[m].id}
         /\ run'.todo \intersect recorded' = {} => run.todo \intersect recorded = {}
<1>1. /\ UNCHANGED <<published, consumed, faults>> /\ recorded' = recorded \union {m}
      /\ run.phase = "ingest" /\ m \in run.todo /\ m \notin recorded
  BY DEF Process, Take
<1>2. /\ run' \in Runs /\ run'.phase = "ingest" /\ run'.skipped = run.skipped
      /\ run'.batch = run.batch /\ run'.todo = run.todo \ {m}
      /\ run'.touched = run.touched \union {Member[m].id}
  <2>1. run \in Runs
    BY DEF IInv, LedgerInv
  <2>2. run.touched \union {Member[m].id} \in SUBSET {Member[i].id : i \in Members}
    BY <2>1 DEF Runs
  <2>3. run' = [run EXCEPT !.todo = @ \ {m}, !.touched = @ \union {Member[m].id}]
    BY DEF Process
  <2> DEFINE T == {Member[i].id : i \in Members}
  <2> HIDE DEF T
  <2>4. run.touched \in SUBSET T /\ run.touched \union {Member[m].id} \in SUBSET T
    BY <2>1, <2>2 DEF Runs, T
  <2>5. run' \in Runs
    BY <2>1, <2>2, <2>3 DEF Runs
  <2> QED
    BY <1>1, <2>1, <2>3, <2>5 DEF Runs
<1>3. m \in run.batch /\ m \notin consumed /\ m \in published
  BY <1>1 DEF IInv, LedgerInv, Working
<1>4. LedgerInv'
  BY <1>1, <1>2, <1>3 DEF IInv, LedgerInv, Working
<1> QED
  BY <1>1, <1>2, <1>3, <1>4

(* When what every article it did not touch is known to be stays the same, *)
(* a run goes on leaving the untouched settled.                            *)
LEMMA UntouchedStays ==
  ASSUME UntouchedSettled, structures \subseteq structures',
         NEW w, run'.touched = run.touched \union {w},
         \A t \in structures' \ structures : t.text = w,
         \A a \in Articles : a # w => document'[a] = document[a],
         \A a \in Articles : a # w => \A forest \in SUBSET structures :
           (\A c \in KnownOf(document'[a], edges'[a], sections', forest, a) : c.section.uid # w) =>
             KnownOf(document'[a], edges'[a], sections', forest, a) =
               KnownOf(document[a], edges[a], sections, forest, a)
  PROVE  UntouchedSettled'
<1>1. PICK forest \in SUBSET structures :
        /\ \A t \in structures \ forest : t.text \in run.touched
        /\ \A a \in Articles \ run.touched :
             UntouchedOf(KnownOf(document[a], edges[a], sections, forest, a), run.touched,
                         document[a].path)
  BY DEF UntouchedSettled
<1>2. \A t \in structures' \ forest : t.text \in run'.touched
  BY <1>1
<1>3. ASSUME NEW a \in Articles \ run'.touched
      PROVE  UntouchedOf(KnownOf(document'[a], edges'[a], sections', forest, a), run'.touched,
                         document'[a].path)
  <2> DEFINE C == KnownOf(document[a], edges[a], sections, forest, a)
             D == KnownOf(document'[a], edges'[a], sections', forest, a)
  <2>1. a # w /\ a \in Articles \ run.touched
    OBVIOUS
  <2>2. UntouchedOf(C, run.touched, document[a].path) /\ document'[a] = document[a]
    BY <1>1, <2>1
  <2>3. (\A c \in D : c.section.uid # w) => D = C
    BY <2>1
  <2> HIDE DEF C, D
  <2>4. UntouchedOf(D, run'.touched, document'[a].path)
    BY <2>2, <2>3 DEF UntouchedOf
  <2> QED
    BY <2>4 DEF D
<1>4. forest \in SUBSET structures'
  OBVIOUS
<1> QED
  BY <1>2, <1>3, <1>4 DEF UntouchedSettled

LEMMA ProcessSettles ==
  ASSUME IInv, NEW m \in Members, Process(m),
         UntouchedSettled => UntouchedSettled'
  PROVE  HierarchyInv'
<1>1. /\ ~(recorded \subseteq consumed)' /\ run'.phase = "ingest" /\ run.phase = "ingest"
      /\ run'.skipped = run.skipped
      /\ run'.todo \intersect recorded' = {} => run.todo \intersect recorded = {}
  BY ProcessLedger
<1> QED
  BY <1>1 DEF IInv, HierarchyInv

LEMMA ProcessArticleHolds ==
  ASSUME MembersAssumption, NoneAssumption, IInv, NEW m \in Members, Process(m), ProjectArticle(Member[m])
  PROVE  IInv'
<1> DEFINE p == Member[m]
           bodies == Chunked(p.path, p.body)
           new == [body |-> p.body, path |-> p.path, from |-> p.from, parts |-> Len(bodies)]
<1>1. IsArticle(p)
  BY DEF MembersAssumption, ProjectArticle, IsSection, IsStructure
<1>2. /\ document' = [document EXCEPT ![p.id] = new]
      /\ chunks' = [chunks EXCEPT ![p.id] = Upserted(@, p.path, bodies)]
      /\ vectors' = [vectors EXCEPT ![p.id] = Widened(@, Len(bodies))]
      /\ edges' = [edges EXCEPT ![p.id] = @ \union p.links]
      /\ UNCHANGED <<sections, structures>>
  BY DEF ProjectArticle
<1>3. /\ document \in [Articles -> Documents \union {None}]
      /\ edges = [a \in Articles |-> edges[a]]
      /\ chunks \in [Articles -> Seq(Rows)] /\ vectors \in [Articles -> Seq(Texts \union {None})]
      /\ \A a \in Articles : ArticleHolds(document[a], chunks[a], vectors[a])
  BY DEF IInv, StoreInv
<1> DEFINE i == p.id
           up == Upserted(chunks[i], p.path, bodies)
           wide == Widened(vectors[i], Len(bodies))
<1>4. i \in Articles
  BY <1>1 DEF IsArticle
<1>5. ArticleHolds(new, up, wide)
  BY <1>1, <1>3, <1>4, UpsertHolds
<1> HIDE DEF new, bodies
<1>6. new \in Documents \union {None} /\ up \in Seq(Rows) /\ wide \in Seq(Texts \union {None})
  BY <1>5 DEF ArticleHolds
<1> HIDE DEF up, wide, i
<1>7. /\ document' = [document EXCEPT ![i] = new] /\ chunks' = [chunks EXCEPT ![i] = up]
      /\ vectors' = [vectors EXCEPT ![i] = wide]
      /\ edges' = [edges EXCEPT ![i] = @ \union p.links]
  BY <1>2 DEF i, up, wide
<1> HIDE DEF p
<1>8. /\ document' \in [Articles -> Documents \union {None}]
      /\ chunks' \in [Articles -> Seq(Rows)] /\ vectors' \in [Articles -> Seq(Texts \union {None})]
      /\ edges' = [a \in Articles |-> edges'[a]]
  <2>1. edges' = [a \in Articles |-> edges'[a]]
    <3>1. DOMAIN edges = Articles
      BY <1>3
    <3> QED
      BY <1>7, <3>1
  <2> QED
    BY <1>3, <1>4, <1>6, <1>7, <2>1
<1>9. ASSUME NEW a \in Articles PROVE ArticleHolds(document'[a], chunks'[a], vectors'[a])
  BY <1>3, <1>4, <1>5, <1>7
<1>10. StoreInv'
  BY <1>2, <1>8, <1>9 DEF IInv, StoreInv
<1>11. DatesBounded'
  BY <1>2 DEF IInv, DatesBounded
<1>12. ASSUME NEW a \in Articles, a # i
       PROVE  document'[a] = document[a] /\ edges'[a] = edges[a]
  <2>1. DOMAIN edges = Articles /\ DOMAIN document = Articles
    BY <1>3
  <2> QED
    BY <1>4, <1>7, <1>12, <2>1
<1>13. UntouchedSettled => UntouchedSettled'
  <2>1. run'.touched = run.touched \union {i}
    BY ProcessLedger DEF i, p
  <2>2. structures' = structures /\ sections' = sections
    BY <1>2
  <2> QED
    BY <1>12, <2>1, <2>2, UntouchedStays
<1> QED
  BY <1>10, <1>11, <1>13, ProcessLedger, ProcessSettles DEF IInv

LEMMA ProcessSectionHolds ==
  ASSUME MembersAssumption, IInv, NEW m \in Members, Process(m), ProjectSection(Member[m])
  PROVE  IInv'
<1> DEFINE p == Member[m]
           v == [uid |-> p.id, from |-> p.from, to |-> p.to, path |-> p.path]
<1>1. IsSection(p)
  BY DEF MembersAssumption, ProjectSection, IsArticle, IsStructure
<1>2. UNCHANGED <<document, edges, chunks, vectors, structures>> /\ sections' = WithSection(p)
  BY DEF ProjectSection
<1> HIDE DEF p
<1>3. /\ v \in sections' /\ v.uid = p.id /\ v.from \in Nat /\ v.path \in Seq(Words) \ {<<>>}
      /\ \A s \in sections' : s \in sections \/ s = v
      /\ \A s \in sections : s.uid # p.id => s \in sections'
  BY <1>1, <1>2 DEF WithSection, IsSection
<1> HIDE DEF v
<1>4. StoreInv'
  BY <1>2, <1>3 DEF IInv, StoreInv
<1>5. DatesBounded'
  <2>1. PICK n \in Nat : \A s \in sections : s.from <= n
    BY DEF IInv, DatesBounded
  <2> DEFINE k == IF n <= v.from THEN v.from ELSE n
  <2>2. k \in Nat /\ n <= k /\ v.from <= k
    BY <1>3
  <2> HIDE DEF k
  <2>3. ASSUME NEW s \in sections' PROVE s.from <= k
    <3>1. CASE s = v
      BY <2>2, <3>1
    <3>2. CASE s \in sections
      <4>1. s.from \in Nat /\ s.from <= n
        BY <2>1, <3>2 DEF IInv, StoreInv
      <4> QED
        BY <2>2, <4>1
    <3> QED
      BY <1>3, <3>1, <3>2
  <2> QED
    BY <2>2, <2>3 DEF DatesBounded
<1>6. UntouchedSettled => UntouchedSettled'
  <2> DEFINE w == p.id
  <2>1. run'.touched = run.touched \union {w}
    BY ProcessLedger DEF p
  <2>2. /\ \A s \in sections' : s.uid # w => s \in sections
        /\ \A s \in sections : s.uid # w => s \in sections'
        /\ \E s \in sections' : s.uid = w
    BY <1>3
  <2> HIDE DEF w
  <2>3. ASSUME NEW a \in Articles, NEW forest \in SUBSET structures,
               \A c \in KnownOf(document'[a], edges'[a], sections', forest, a) : c.section.uid # w
        PROVE  KnownOf(document'[a], edges'[a], sections', forest, a) =
                 KnownOf(document[a], edges[a], sections, forest, a)
    <3>1. document'[a] = document[a] /\ edges'[a] = edges[a]
      BY <1>2
    <3>2. \A c \in KnownOf(document[a], edges[a], sections', forest, a) : c.section.uid # w
      BY <2>3, <3>1
    <3> DEFINE doc == document[a]
               hangs == edges[a]
               old == sections
               new == sections'
    <3>3. /\ \A s \in new : s.uid # w => s \in old
          /\ \A s \in old : s.uid # w => s \in new
          /\ \E s \in new : s.uid = w
          /\ \A c \in KnownOf(doc, hangs, new, forest, a) : c.section.uid # w
      BY <2>2, <3>2
    <3> HIDE DEF doc, hangs, old, new
    <3>4. KnownOf(doc, hangs, new, forest, a) = KnownOf(doc, hangs, old, forest, a)
      BY <3>3, OtherSection
    <3> QED
      BY <3>1, <3>4 DEF doc, hangs, old, new
  <2> QED
    BY <1>2, <2>1, <2>3, UntouchedStays
<1> QED
  BY <1>4, <1>5, <1>6, ProcessLedger, ProcessSettles DEF IInv

LEMMA ProcessStructureHolds ==
  ASSUME MembersAssumption, IInv, NEW m \in Members, Process(m), ProjectStructure(Member[m])
  PROVE  IInv'
<1> DEFINE p == Member[m]
           t == [text |-> p.id, links |-> p.links]
<1>1. IsStructure(p)
  BY DEF MembersAssumption, ProjectStructure, IsArticle, IsSection
<1>2. UNCHANGED <<document, edges, chunks, vectors, sections>> /\ structures' = structures \union {t}
  BY DEF ProjectStructure
<1>3. Links(t.links) /\ t.text = p.id
  BY <1>1, StructureLinks
<1> HIDE DEF p, t
<1>4. StoreInv'
  BY <1>2, <1>3 DEF IInv, StoreInv
<1>5. DatesBounded'
  BY <1>2 DEF IInv, DatesBounded
<1>6. UntouchedSettled => UntouchedSettled'
  <2> DEFINE w == p.id
  <2>1. run'.touched = run.touched \union {w}
    BY ProcessLedger DEF p
  <2>2. \A x \in structures' \ structures : x.text = w
    BY <1>2, <1>3
  <2> HIDE DEF w
  <2> QED
    BY <1>2, <2>1, <2>2, UntouchedStays
<1> QED
  BY <1>4, <1>5, <1>6, ProcessLedger, ProcessSettles DEF IInv

LEMMA ProcessHolds ==
  ASSUME MembersAssumption, NoneAssumption, IInv, NEW m \in Members, Process(m)
  PROVE  IInv'
<1>1. \/ ProjectArticle(Member[m]) \/ ProjectSection(Member[m]) \/ ProjectStructure(Member[m])
  BY DEF Process
<1> QED
  BY <1>1, ProcessArticleHolds, ProcessSectionHolds, ProcessStructureHolds

-----------------------------------------------------------------------------
(* The backfill.                                                           *)

(* What the backfill finds is known ...                                    *)
LEMMA FoundIsKnown ==
  ASSUME NEW from, NEW hangs, NEW secs, NEW forest, NEW a, NEW all, NEW touched
  PROVE  Pool(from, hangs, secs, forest, a, all, touched)
           \subseteq Pool(from, hangs, secs, forest, a, TRUE, {})
<1> SUFFICES ASSUME NEW c \in Pool(from, hangs, secs, forest, a, all, touched)
             PROVE  c \in Pool(from, hangs, secs, forest, a, TRUE, {})
  OBVIOUS
<1>1. \/ hangs # {} /\ Hung(c, from, hangs, secs, a, all, touched)
      \/ hangs = {} /\ Placed(c, from, secs, forest, a, all, touched)
  BY PoolMembers
<1>2. Hung(c, from, hangs, secs, a, all, touched) => Hung(c, from, hangs, secs, a, TRUE, {})
  BY DEF Hung
<1>3. Placed(c, from, secs, forest, a, all, touched) => Placed(c, from, secs, forest, a, TRUE, {})
  BY DEF Placed
<1> QED
  BY <1>1, <1>2, <1>3, PoolMembers

(* ... it finds all of it when its scope reaches the article or the        *)
(* section it hangs under ...                                              *)
LEMMA ReachedIsFound ==
  ASSUME NEW from, NEW hangs, NEW secs, NEW forest, NEW a, NEW all, NEW touched,
         \/ all \/ a \in touched
         \/ \A c \in Pool(from, hangs, secs, forest, a, TRUE, {}) : c.section.uid \in touched
  PROVE  Pool(from, hangs, secs, forest, a, all, touched) =
           Pool(from, hangs, secs, forest, a, TRUE, {})
<1> DEFINE K == Pool(from, hangs, secs, forest, a, TRUE, {})
           C == Pool(from, hangs, secs, forest, a, all, touched)
<1>1. \A c : c \in C <=> \/ hangs # {} /\ Hung(c, from, hangs, secs, a, all, touched)
                         \/ hangs = {} /\ Placed(c, from, secs, forest, a, all, touched)
  BY PoolMembers
<1>2. \A c : c \in K <=> \/ hangs # {} /\ Hung(c, from, hangs, secs, a, TRUE, {})
                         \/ hangs = {} /\ Placed(c, from, secs, forest, a, TRUE, {})
  BY PoolMembers
<1>3. all \/ a \in touched \/ \A c \in K : c.section.uid \in touched
  OBVIOUS
<1>4. C \subseteq K
  BY FoundIsKnown
<1> HIDE DEF K, C
<1>5. ASSUME NEW c \in K PROVE c \in C
  <2>1. CASE hangs # {}
    <3>1. PICK e \in hangs, s \in secs : s.uid = e.uid /\ c = Direct(e, s, from)
      BY <1>2, <2>1 DEF Hung
    <3>2. c.section = s
      BY <3>1 DEF Direct
    <3>3. all \/ a \in touched \/ s.uid \in touched
      BY <1>3, <3>2
    <3>4. Hung(c, from, hangs, secs, a, all, touched)
      BY <3>1, <3>3 DEF Hung
    <3> QED
      BY <1>1, <2>1, <3>4
  <2>2. CASE hangs = {}
    <3>1. PICK t \in forest : \E i \in DOMAIN t.links, s \in secs :
            Places(t.links, i, a, s) /\ c = Fallback(t.links, i, s, from)
      BY <1>2, <2>2 DEF Placed
    <3>2. PICK i \in DOMAIN t.links, s \in secs :
            Places(t.links, i, a, s) /\ c = Fallback(t.links, i, s, from)
      BY <3>1
    <3>3. c.section = s
      BY <3>2 DEF Fallback
    <3>4. all \/ a \in touched \/ s.uid \in touched
      BY <1>3, <3>3
    <3>5. Placed(c, from, secs, forest, a, all, touched)
      BY <3>2, <3>4 DEF Placed
    <3> QED
      BY <1>1, <2>2, <3>5
  <2> QED
    BY <2>1, <2>2
<1>6. C = K
  BY <1>4, <1>5
<1> QED
  BY <1>6 DEF C, K

(* ... and otherwise all that the structures the run added say of it.      *)
Joins(all, some, others) == all = some \union others

LEMMA KnownSplits ==
  ASSUME NEW from, NEW hangs, NEW secs, NEW trees, NEW forest \in SUBSET trees, NEW a, NEW all, NEW touched,
         \A t \in trees \ forest : t.text \in touched
  PROVE  Joins(Pool(from, hangs, secs, trees, a, TRUE, {}), Pool(from, hangs, secs, forest, a, TRUE, {}),
               Pool(from, hangs, secs, trees, a, all, touched))
<1> DEFINE K == Pool(from, hangs, secs, trees, a, TRUE, {})
           O == Pool(from, hangs, secs, forest, a, TRUE, {})
           C == Pool(from, hangs, secs, trees, a, all, touched)
<1>1. \A c : c \in C <=> \/ hangs # {} /\ Hung(c, from, hangs, secs, a, all, touched)
                         \/ hangs = {} /\ Placed(c, from, secs, trees, a, all, touched)
  BY PoolMembers
<1>2. \A c : c \in K <=> \/ hangs # {} /\ Hung(c, from, hangs, secs, a, TRUE, {})
                         \/ hangs = {} /\ Placed(c, from, secs, trees, a, TRUE, {})
  BY PoolMembers
<1>3. \A c : c \in O <=> \/ hangs # {} /\ Hung(c, from, hangs, secs, a, TRUE, {})
                         \/ hangs = {} /\ Placed(c, from, secs, forest, a, TRUE, {})
  BY PoolMembers
<1>4. C \subseteq K
  BY FoundIsKnown
<1> HIDE DEF K, C, O
<1>5. ASSUME NEW c \in O PROVE c \in K
  <2>1. Placed(c, from, secs, forest, a, TRUE, {}) => Placed(c, from, secs, trees, a, TRUE, {})
    BY DEF Placed
  <2> QED
    BY <1>2, <1>3, <2>1
<1>6. ASSUME NEW c \in K PROVE c \in O \/ c \in C
  <2>1. CASE hangs # {}
    BY <1>2, <1>3, <2>1
  <2>2. CASE hangs = {}
    <3>1. PICK t \in trees : \E i \in DOMAIN t.links, s \in secs :
            Places(t.links, i, a, s) /\ c = Fallback(t.links, i, s, from)
      BY <1>2, <2>2 DEF Placed
    <3>2. CASE t \in forest
      <4>1. Placed(c, from, secs, forest, a, TRUE, {})
        BY <3>1, <3>2 DEF Placed
      <4> QED
        BY <1>3, <2>2, <4>1
    <3>3. CASE t \notin forest
      <4>1. Placed(c, from, secs, trees, a, all, touched)
        BY <3>1, <3>3 DEF Placed
      <4> QED
        BY <1>1, <2>2, <4>1
    <3> QED
      BY <3>2, <3>3
  <2> QED
    BY <2>1, <2>2
<1>7. K = O \union C
  BY <1>4, <1>5, <1>6
<1> QED
  BY <1>7 DEF K, O, C, Joins

(* What is found has a path, and a section with a date that is bounded.    *)
LEMMA FoundHasPath ==
  ASSUME StoreInv, NEW from, NEW hangs, NEW a, NEW all, NEW touched,
         NEW c \in Pool(from, hangs, sections, structures, a, all, touched)
  PROVE  c.path \in Seq(Words) /\ c.section \in sections
<1>1. \/ Hung(c, from, hangs, sections, a, all, touched)
      \/ Placed(c, from, sections, structures, a, all, touched)
  BY PoolMembers
<1>2. CASE Hung(c, from, hangs, sections, a, all, touched)
  <2>1. PICK e \in hangs, s \in sections : c = Direct(e, s, from)
    BY <1>2 DEF Hung
  <2>2. c.path = s.path /\ c.section = s /\ s.path \in Seq(Words)
    BY <2>1 DEF Direct, StoreInv
  <2> QED
    BY <2>2
<1>3. CASE Placed(c, from, sections, structures, a, all, touched)
  <2>1. PICK t \in structures : \E i \in DOMAIN t.links, s \in sections :
          c = Fallback(t.links, i, s, from)
    BY <1>3 DEF Placed
  <2>2. PICK i \in DOMAIN t.links, s \in sections : c = Fallback(t.links, i, s, from)
    BY <2>1
  <2>3. c.path = Deeper(s, SubSeq(t.links, 1, i - 1)) /\ c.section = s
    BY <2>2 DEF Fallback
  <2>4. Links(t.links) /\ s.path \in Seq(Words) \ {<<>>}
    BY DEF StoreInv
  <2>5. Links(SubSeq(t.links, 1, i - 1))
    BY <2>4, LinksBefore
  <2>6. Deeper(s, SubSeq(t.links, 1, i - 1)) \in Seq(Words)
    BY <2>4, <2>5, DeeperType
  <2> QED
    BY <2>3, <2>6
<1> QED
  BY <1>1, <1>2, <1>3

LEMMA FoundIsPreferred ==
  ASSUME StoreInv, DatesBounded, NEW from, NEW hangs, NEW a, NEW all, NEW touched
  PROVE  LET C == Pool(from, hangs, sections, structures, a, all, touched)
         IN  Dated(C) /\ Preferred(C) \subseteq C /\ (C # {} => Preferred(C) # {})
<1> DEFINE C == Pool(from, hangs, sections, structures, a, all, touched)
<1>1. \A c \in C : c.section \in sections
  BY FoundHasPath
<1>2. PICK n \in Nat : \A s \in sections : s.from <= n
  BY DEF DatesBounded
<1> HIDE DEF C
<1>3. Dated(C) /\ \A c \in C : c.section.from <= n
  BY <1>1, <1>2 DEF Dated, StoreInv
<1>4. Preferred(C) \subseteq C
  BY DEF Preferred
<1>5. C # {} => Preferred(C) # {}
  BY <1>2, <1>3, PreferredExists
<1> QED
  BY <1>3, <1>4, <1>5 DEF C

(* What is deep enough stays so when the path gets longer.                 *)
LEMMA DeeperIsEnough ==
  ASSUME NEW C, \A c \in C : c.path \in Seq(Words), Preferred(C) \subseteq C,
         NEW short \in Seq(Words), NEW long \in Seq(Words), Len(short) <= Len(long),
         DeepEnough(C, short)
  PROVE  DeepEnough(C, long)
<1>1. PICK c \in Preferred(C) : Len(c.path) <= Len(short)
  BY DEF DeepEnough
<1>2. Len(c.path) \in Nat /\ Len(short) \in Nat /\ Len(long) \in Nat
  BY LenProperties
<1>3. Len(c.path) <= Len(long)
  BY <1>1, <1>2
<1> QED
  BY <1>3 DEF DeepEnough

(* The backfill of one article: found is what the scope finds, old what    *)
(* was known of it before the run, and both together all that is known.    *)
LEMMA BackfillSettles ==
  ASSUME StoreInv, DatesBounded, NEW from, NEW hangs, NEW a, NEW all, NEW touched,
         NEW forest \in SUBSET structures, \A t \in structures \ forest : t.text \in touched,
         NEW path \in Seq(Words), NEW after \in Seq(Words), Len(path) <= Len(after),
         LET found == Pool(from, hangs, sections, structures, a, all, touched)
         IN  found # {} => DeepEnough(found, after),
         (~all /\ a \notin touched) =>
           UntouchedOf(Pool(from, hangs, sections, forest, a, TRUE, {}), touched, path)
  PROVE  Settled(Pool(from, hangs, sections, structures, a, TRUE, {}), after)
<1> DEFINE found == Pool(from, hangs, sections, structures, a, all, touched)
           old == Pool(from, hangs, sections, forest, a, TRUE, {})
           known == Pool(from, hangs, sections, structures, a, TRUE, {})
<1>1. known = old \union found
  <2> DEFINE trees == structures
             secs == sections
  <2>1. forest \in SUBSET trees /\ \A t \in trees \ forest : t.text \in touched
    OBVIOUS
  <2> HIDE DEF trees, secs
  <2>2. Joins(Pool(from, hangs, secs, trees, a, TRUE, {}), Pool(from, hangs, secs, forest, a, TRUE, {}),
              Pool(from, hangs, secs, trees, a, all, touched))
    BY <2>1, KnownSplits, Zenon
  <2> QED
    BY <2>2 DEF trees, secs, Joins
<1>2. (all \/ a \in touched \/ \A c \in known : c.section.uid \in touched) => found = known
  BY ReachedIsFound
<1>3. \A c \in known : c.path \in Seq(Words)
  BY FoundHasPath
<1>4. /\ Dated(known) /\ Preferred(known) \subseteq known
      /\ Dated(found) /\ Preferred(found) \subseteq found
  BY FoundIsPreferred
<1>5. found # {} => DeepEnough(found, after)
  OBVIOUS
<1>6. (~all /\ a \notin touched) => UntouchedOf(old, touched, path)
  OBVIOUS
<1> HIDE DEF found, old, known
<1> SUFFICES ASSUME OneSection(known) PROVE DeepEnough(known, after)
  BY DEF Settled, known
<1>7. CASE found = known
  BY <1>5, <1>7 DEF OneSection
<1>8. CASE found # known
  <2>1. ~all /\ a \notin touched /\ \A c \in known : c.section.uid \notin touched
    <3>1. ~all /\ a \notin touched /\ \E c \in known : c.section.uid \notin touched
      BY <1>2, <1>8
    <3> QED
      BY <3>1 DEF OneSection
  <2>2. Settled(old, path)
    BY <1>1, <1>6, <2>1 DEF UntouchedOf
  <2>3. old # {}
    BY <1>1, <1>8
  <2>4. DeepEnough(old, path)
    BY <1>1, <2>2, <2>3 DEF OneSection, Settled
  <2>5. Preferred(old) \subseteq old
    BY DEF Preferred
  <2>6. DeepEnough(old, after)
    BY <1>1, <1>3, <2>4, <2>5, DeeperIsEnough
  <2>7. CASE found = {}
    BY <1>1, <2>6, <2>7
  <2>8. CASE found # {}
    <3>1. PICK o \in Preferred(old) : Len(o.path) <= Len(after)
      BY <2>6 DEF DeepEnough
    <3>2. PICK b \in Preferred(found) : Len(b.path) <= Len(after)
      BY <1>5, <2>8 DEF DeepEnough
    <3>3. Dated(old)
      BY <1>1, <1>4 DEF Dated
    <3>4. o \in Preferred(known) \/ b \in Preferred(known)
      BY <1>1, <1>4, <3>3, PreferredOfUnion
    <3> QED
      BY <3>1, <3>2, <3>4 DEF DeepEnough
  <2> QED
    BY <2>7, <2>8
<1> QED
  BY <1>7, <1>8

LEMMA ReadHierarchyHolds ==
  ASSUME IInv, ReadHierarchy
  PROVE  IInv'
<1> DEFINE Found(a) == Candidates(a, FullResume, run.touched)
           Reach(a) == Preferred(Found(a))
           listed == {a \in Articles : Reach(a) # {}}
<1>1. UNCHANGED storeVars /\ UNCHANGED <<published, recorded, consumed, faults>>
  BY DEF ReadHierarchy
<1>2. run.phase = "ingest" /\ run.todo = {}
  BY DEF ReadHierarchy
<1>3. PICK pick : /\ \A a \in listed : pick[a] \in Reach(a)
                  /\ LET deeper == {a \in listed : Len(pick[a].path) > Len(document[a].path)}
                     IN run' = [run EXCEPT !.phase = "backfill",
                                           !.updates = [a \in deeper |-> pick[a].path]]
  BY DEF ReadHierarchy
<1> DEFINE deeper == {a \in listed : Len(pick[a].path) > Len(document[a].path)}
           updates == [a \in deeper |-> pick[a].path]
<1>4. run \in Runs /\ StoreInv /\ DatesBounded
  BY DEF IInv, LedgerInv
<1>5. ASSUME NEW a \in Articles, Found(a) # {}
      PROVE  /\ document[a] # None
             /\ Found(a) = Pool(document[a].from, edges[a], sections, structures, a, run.skipped, run.touched)
             /\ Reach(a) \subseteq Found(a) /\ Reach(a) # {}
             /\ \A c \in Found(a) : c.path \in Seq(Words)
  <2>1. document[a] # None
    BY <1>5, CandidatesArePool
  <2> DEFINE C == Pool(document[a].from, edges[a], sections, structures, a, run.skipped, run.touched)
  <2>2. Found(a) = C
    BY <2>1, CandidatesArePool DEF FullResume
  <2>3. Preferred(C) \subseteq C /\ (C # {} => Preferred(C) # {})
    BY <1>4, FoundIsPreferred
  <2>4. \A c \in C : c.path \in Seq(Words)
    BY <1>4, FoundHasPath
  <2> HIDE DEF C, Found
  <2>5. Reach(a) \subseteq Found(a) /\ Reach(a) # {} /\ \A c \in Found(a) : c.path \in Seq(Words)
    BY <1>5, <2>2, <2>3, <2>4
  <2> QED
    BY <2>1, <2>2, <2>5 DEF C
<1>6. \A a \in Articles : Found(a) = {} => Reach(a) = {}
  BY DEF Preferred
<1>7. \A a \in Articles : a \in listed <=> Found(a) # {}
  <2> HIDE DEF Found
  <2> QED
    BY <1>5, <1>6
<1> HIDE DEF Found
<1>8. ASSUME NEW a \in listed
      PROVE  /\ a \in Articles /\ document[a] # None /\ pick[a] \in Preferred(Found(a))
             /\ pick[a].path \in Seq(Words)
  BY <1>3, <1>5, <1>7
<1> HIDE DEF listed
<1>9. deeper \in SUBSET Articles /\ \A a \in deeper : document[a] # None /\ pick[a].path \in Seq(Words)
  BY <1>8
<1>10. updates \in Updates
  <2>1. updates \in [deeper -> Seq(Words)]
    BY <1>9
  <2> HIDE DEF updates, deeper
  <2> QED
    BY <1>9, <2>1 DEF Updates
<1>11. run' = [run EXCEPT !.phase = "backfill", !.updates = updates]
  BY <1>3
<1>12. DOMAIN updates = deeper /\ \A a \in deeper : updates[a] = pick[a].path
  OBVIOUS
<1> HIDE DEF updates
<1>13. /\ run' \in Runs /\ run'.phase = "backfill" /\ run'.updates = updates
       /\ run'.batch = run.batch /\ run'.todo = {}
  BY <1>2, <1>4, <1>10, <1>11 DEF Runs, Phases
<1>14. LedgerInv'
  <2>1. document' = document
    BY <1>1 DEF storeVars
  <2> QED
    BY <1>1, <1>2, <1>9, <1>12, <1>13, <2>1 DEF IInv, LedgerInv, Working
<1>15. ASSUME NEW a \in Articles
       PROVE  Settled(KnownOf(document[a], edges[a], sections, structures, a),
                      IF a \in DOMAIN updates THEN updates[a] ELSE document[a].path)
  <2> DEFINE path == document[a].path
             after == IF a \in DOMAIN updates THEN updates[a] ELSE path
             K == KnownOf(document[a], edges[a], sections, structures, a)
  <2>1. CASE document[a] = None
    <3>1. K = {}
      BY <2>1 DEF KnownOf
    <3> HIDE DEF K, after
    <3>2. Settled(K, after)
      BY <3>1 DEF Settled, OneSection
    <3> QED
      BY <3>2 DEF K, after
  <2>2. CASE document[a] # None
    <3>1. document[a] \in Documents /\ path \in Seq(Words)
      BY <1>4, <2>2 DEF StoreInv, Documents
    <3>2. after \in Seq(Words) /\ Len(path) <= Len(after)
      <4>1. Len(path) \in Nat
        BY <3>1, LenProperties
      <4>2. CASE a \in deeper
        <5>1. a \in listed /\ after = pick[a].path /\ Len(pick[a].path) > Len(path)
          BY <1>12, <4>2
        <5>2. after \in Seq(Words)
          BY <1>8, <5>1
        <5>3. Len(after) \in Nat
          BY <5>2, LenProperties
        <5> HIDE DEF after, path
        <5> QED
          BY <4>1, <5>1, <5>2, <5>3
      <4>3. CASE a \notin deeper
        BY <1>12, <3>1, <4>1, <4>3
      <4> QED
        BY <4>2, <4>3
    <3>3. Found(a) # {} => DeepEnough(Found(a), after)
      <4>1. SUFFICES ASSUME Found(a) # {} PROVE DeepEnough(Found(a), after)
        OBVIOUS
      <4>2. a \in listed /\ pick[a] \in Preferred(Found(a)) /\ pick[a].path \in Seq(Words)
        BY <1>7, <1>8, <4>1
      <4>3. Len(pick[a].path) \in Nat /\ Len(path) \in Nat
        BY <3>1, <4>2, LenProperties
      <4>4. Len(pick[a].path) <= Len(after)
        <5>1. CASE a \in deeper
          BY <1>12, <4>3, <5>1
        <5>2. CASE a \notin deeper
          <6>1. after = path /\ ~(Len(pick[a].path) > Len(path))
            BY <1>12, <4>2, <5>2
          <6> HIDE DEF after, path
          <6> QED
            BY <4>3, <6>1
        <5> QED
          BY <5>1, <5>2
      <4> HIDE DEF after
      <4> QED
        BY <4>2, <4>4 DEF DeepEnough
    <3> DEFINE from == document[a].from
               hangs == edges[a]
    <3>4. Found(a) = Pool(from, hangs, sections, structures, a, run.skipped, run.touched)
      BY <2>2, CandidatesArePool DEF FullResume, Found
    <3>5. ~run.skipped => UntouchedSettled
      BY <1>2 DEF IInv, HierarchyInv
    <3>6. \E forest \in SUBSET structures :
            /\ \A t \in structures \ forest : t.text \in run.touched
            /\ (~run.skipped /\ a \notin run.touched) =>
                 UntouchedOf(Pool(from, hangs, sections, forest, a, TRUE, {}), run.touched, path)
      <4>1. CASE run.skipped
        BY <4>1
      <4>2. CASE ~run.skipped
        <5>1. PICK forest \in SUBSET structures :
                /\ \A t \in structures \ forest : t.text \in run.touched
                /\ \A b \in Articles \ run.touched :
                     UntouchedOf(KnownOf(document[b], edges[b], sections, forest, b), run.touched,
                                 document[b].path)
          BY <3>5, <4>2 DEF UntouchedSettled
        <5>2. KnownOf(document[a], edges[a], sections, forest, a) =
                Pool(from, hangs, sections, forest, a, TRUE, {})
          BY <2>2 DEF KnownOf
        <5>3. a \notin run.touched =>
                UntouchedOf(Pool(from, hangs, sections, forest, a, TRUE, {}), run.touched, path)
          BY <5>1, <5>2
        <5> HIDE DEF from, hangs, path
        <5> QED
          BY <5>1, <5>3
      <4> QED
        BY <4>1, <4>2
    <3>7. PICK forest \in SUBSET structures :
            /\ \A t \in structures \ forest : t.text \in run.touched
            /\ (~run.skipped /\ a \notin run.touched) =>
                 UntouchedOf(Pool(from, hangs, sections, forest, a, TRUE, {}), run.touched, path)
      BY <3>6
    <3> DEFINE all == run.skipped
               touched == run.touched
    <3>8. /\ Pool(from, hangs, sections, structures, a, all, touched) # {} =>
               DeepEnough(Pool(from, hangs, sections, structures, a, all, touched), after)
          /\ (~all /\ a \notin touched) =>
               UntouchedOf(Pool(from, hangs, sections, forest, a, TRUE, {}), touched, path)
          /\ \A t \in structures \ forest : t.text \in touched
      BY <3>3, <3>4, <3>7
    <3>9. K = Pool(from, hangs, sections, structures, a, TRUE, {})
      BY <2>2 DEF KnownOf
    <3> HIDE DEF from, hangs, path, after, all, touched, K
    <3>10. Settled(Pool(from, hangs, sections, structures, a, TRUE, {}), after)
      BY <1>4, <3>1, <3>2, <3>8, BackfillSettles
    <3>11. Settled(K, after)
      BY <3>9, <3>10
    <3> QED
      BY <3>11 DEF K, after, path
  <2> QED
    BY <2>1, <2>2
<1>16. HierarchyInv'
  <2>1. (recorded \subseteq consumed)' => AllSettled'
    BY <1>1, StoreStays DEF IInv, HierarchyInv
  <2>2. \A a \in Articles :
          Settled(KnownOf(document'[a], edges'[a], sections', structures', a), NewPath(a)')
    BY <1>1, <1>13, <1>15 DEF NewPath, storeVars
  <2> QED
    BY <1>13, <2>1, <2>2 DEF HierarchyInv
<1> QED
  BY <1>1, <1>14, <1>16, StoreStays DEF IInv

LEMMA WriteHierarchyHolds ==
  ASSUME NoneAssumption, IInv, WriteHierarchy
  PROVE  IInv'
<1> DEFINE path == run.updates
           changed == DOMAIN path
<1>1. /\ UNCHANGED <<published, recorded, consumed, edges, sections, structures, faults>>
      /\ run.phase = "backfill" /\ run' = [run EXCEPT !.phase = "finish"]
  BY DEF WriteHierarchy
<1>2. /\ document' = [a \in Articles |-> IF a \in changed THEN [document[a] EXCEPT !.path = path[a]]
                                         ELSE document[a]]
      /\ chunks' = [a \in Articles |-> IF a \in changed THEN Rehung(a, path[a]) ELSE chunks[a]]
      /\ vectors' = [a \in Articles |-> IF a \in changed THEN [i \in DOMAIN vectors[a] |-> None]
                                        ELSE vectors[a]]
  BY DEF WriteHierarchy
<1>3. /\ run \in Runs /\ StoreInv /\ DatesBounded /\ run.todo = {}
      /\ \A a \in changed : document[a] # None
  BY <1>1 DEF IInv, LedgerInv
<1>4. changed \in SUBSET Articles /\ \A a \in changed : path[a] \in Seq(Words)
  <2>1. path \in Updates
    BY <1>3 DEF Runs
  <2>2. PICK S \in SUBSET Articles : path \in [S -> Seq(Words)]
    BY <2>1 DEF Updates
  <2> HIDE DEF path
  <2> QED
    BY <2>2
<1> HIDE DEF changed, path
<1>5. ASSUME NEW a \in Articles
      PROVE  /\ ArticleHolds(document'[a], chunks'[a], vectors'[a])
             /\ KnownOf(document'[a], edges'[a], sections', structures', a) =
                  KnownOf(document[a], edges[a], sections, structures, a)
             /\ document'[a].path = NewPath(a)
  <2>1. ArticleHolds(document[a], chunks[a], vectors[a])
    BY <1>3 DEF StoreInv
  <2>2. CASE a \in changed
    <3>1. document[a] \in Documents /\ document[a] # None /\ path[a] \in Seq(Words)
      BY <1>3, <1>4, <2>1, <2>2 DEF ArticleHolds
    <3> DEFINE new == [document[a] EXCEPT !.path = path[a]]
    <3>2. ArticleHolds(new, Rehung(a, path[a]), [i \in DOMAIN vectors[a] |-> None])
      BY <2>1, <3>1, RehungHolds
    <3>3. new \in Documents /\ new.from = document[a].from /\ new.path = path[a]
      BY <3>1 DEF Documents
    <3>4. new # None
      BY <3>3 DEF NoneAssumption
    <3> HIDE DEF new
    <3>5. /\ document'[a] = new /\ chunks'[a] = Rehung(a, path[a])
          /\ vectors'[a] = [i \in DOMAIN vectors[a] |-> None]
      BY <1>2, <2>2 DEF new
    <3>6. KnownOf(new, edges[a], sections, structures, a) =
            KnownOf(document[a], edges[a], sections, structures, a)
      BY <3>1, <3>3, <3>4 DEF KnownOf
    <3>7. NewPath(a) = path[a]
      BY <2>2 DEF NewPath, changed, path
    <3> QED
      BY <1>1, <3>2, <3>3, <3>5, <3>6, <3>7
  <2>3. CASE a \notin changed
    <3>1. document'[a] = document[a] /\ chunks'[a] = chunks[a] /\ vectors'[a] = vectors[a]
      BY <1>2, <2>3
    <3>2. NewPath(a) = document[a].path
      BY <2>3 DEF NewPath, changed, path
    <3> QED
      BY <1>1, <2>1, <3>1, <3>2
  <2> QED
    BY <2>2, <2>3
<1>6. StoreInv'
  <2>1. ASSUME NEW a \in Articles
        PROVE  /\ document'[a] \in Documents \union {None} /\ chunks'[a] \in Seq(Rows)
               /\ vectors'[a] \in Seq(Texts \union {None})
    BY <1>5 DEF ArticleHolds
  <2>2. document' \in [Articles -> Documents \union {None}]
    BY <1>2, <2>1
  <2>3. chunks' \in [Articles -> Seq(Rows)]
    BY <1>2, <2>1
  <2>4. vectors' \in [Articles -> Seq(Texts \union {None})]
    <3> DEFINE T == Seq(Texts \union {None})
    <3>1. \A a \in Articles : vectors'[a] \in T
      BY <2>1
    <3> HIDE DEF T
    <3>2. vectors' \in [Articles -> T]
      BY <1>2, <3>1
    <3> QED
      BY <3>2 DEF T
  <2> QED
    BY <1>1, <1>3, <1>5, <2>2, <2>3, <2>4 DEF StoreInv
<1>7. DatesBounded'
  BY <1>1, <1>3 DEF DatesBounded
<1>8. /\ run' \in Runs /\ run'.phase = "finish" /\ run'.batch = run.batch /\ run'.todo = {}
      /\ run'.touched = run.touched /\ run'.skipped = run.skipped
  BY <1>1, <1>3 DEF Runs, Phases
<1>9. LedgerInv'
  BY <1>1, <1>3, <1>8 DEF IInv, LedgerInv, Working
<1>10. AllSettled'
  <2>1. \A a \in Articles :
          Settled(KnownOf(document[a], edges[a], sections, structures, a), NewPath(a))
    BY <1>1 DEF IInv, HierarchyInv
  <2> QED
    BY <1>5, <2>1 DEF AllSettled
<1>11. HierarchyInv'
  BY <1>8, <1>10 DEF HierarchyInv
<1> QED
  BY <1>6, <1>7, <1>9, <1>11 DEF IInv

LEMMA EmbedHolds ==
  ASSUME IInv, NEW a \in Articles, Embed(a)
  PROVE  IInv'
<1>1. /\ UNCHANGED <<published, recorded, consumed, document, edges, sections, structures, run, faults>>
      /\ run.phase = "embed"
  BY DEF Embed
<1>2. StoreInv
  BY DEF IInv
<1> DEFINE up == [i \in DOMAIN chunks[a] |-> [chunks[a][i] EXCEPT !.stamped = TRUE]]
           wide == [i \in DOMAIN vectors[a] |-> IF i \in Pending(a) THEN chunks[a][i].text
                                                ELSE vectors[a][i]]
<1>3. chunks' = [chunks EXCEPT ![a] = up] /\ vectors' = [vectors EXCEPT ![a] = wide]
  BY DEF Embed
<1>4. ArticleHolds(document[a], up, wide)
  BY <1>2, EmbeddedHolds DEF StoreInv
<1> HIDE DEF up, wide
<1>5. up \in Seq(Rows) /\ wide \in Seq(Texts \union {None})
  BY <1>4 DEF ArticleHolds
<1>6. StoreInv'
  <2>1. chunks' \in [Articles -> Seq(Rows)] /\ vectors' \in [Articles -> Seq(Texts \union {None})]
    <3> DEFINE R == Seq(Rows)
               T == Seq(Texts \union {None})
    <3>1. chunks \in [Articles -> R] /\ vectors \in [Articles -> T] /\ up \in R /\ wide \in T
      BY <1>2, <1>5 DEF StoreInv
    <3> HIDE DEF R, T
    <3>2. chunks' \in [Articles -> R] /\ vectors' \in [Articles -> T]
      BY <1>3, <3>1
    <3> QED
      BY <3>2 DEF R, T
  <2>2. ASSUME NEW b \in Articles PROVE ArticleHolds(document'[b], chunks'[b], vectors'[b])
    <3>1. DOMAIN chunks = Articles /\ DOMAIN vectors = Articles
      BY <1>2 DEF StoreInv
    <3>2. document' = document /\ ArticleHolds(document[b], chunks[b], vectors[b])
      BY <1>1, <1>2 DEF StoreInv
    <3>3. CASE b = a
      BY <1>3, <1>4, <3>1, <3>2, <3>3
    <3>4. CASE b # a
      BY <1>3, <3>1, <3>2, <3>4
    <3> QED
      BY <3>3, <3>4
  <2> QED
    BY <1>1, <1>2, <2>1, <2>2 DEF StoreInv
<1>7. DatesBounded' /\ LedgerInv'
  BY <1>1 DEF IInv, DatesBounded, LedgerInv
<1>8. HierarchyInv'
  BY <1>1 DEF IInv, HierarchyInv, AllSettled
<1> QED
  BY <1>6, <1>7, <1>8 DEF IInv

-----------------------------------------------------------------------------
(* The invariant, and what it says of the index.                           *)

LEMMA InitHolds ==
  ASSUME BoundsAssumption, Init
  PROVE  IInv
<1>1. /\ document = [a \in Articles |-> None] /\ edges = [a \in Articles |-> {}]
      /\ chunks = [a \in Articles |-> <<>>] /\ vectors = [a \in Articles |-> <<>>]
      /\ sections = {} /\ structures = {} /\ run = Idle /\ faults = 0
      /\ published = {} /\ recorded = {} /\ consumed = {}
  BY DEF Init
<1>2. ArticleHolds(None, <<>>, <<>>)
  BY DEF ArticleHolds
<1>3. StoreInv
  BY <1>1, <1>2 DEF StoreInv
<1>4. DatesBounded
  <2>1. 0 \in Nat /\ \A s \in sections : s.from <= 0
    BY <1>1
  <2> QED
    BY <2>1 DEF DatesBounded
<1>5. LedgerInv
  BY <1>1, IdleIsRun DEF BoundsAssumption, LedgerInv, Working
<1>6. AllSettled
  BY <1>1 DEF AllSettled, Settled, OneSection, KnownOf
<1>7. HierarchyInv
  BY <1>1, <1>6, IdleIsRun DEF HierarchyInv
<1> QED
  BY <1>3, <1>4, <1>5, <1>7 DEF IInv

LEMMA NextHolds ==
  ASSUME MembersAssumption, BoundsAssumption, NoneAssumption, IInv, [Next]_vars
  PROVE  IInv'
<1>1. CASE Begin
  BY <1>1, BeginHolds
<1>2. CASE ReadHierarchy
  BY <1>2, ReadHierarchyHolds
<1>3. CASE WriteHierarchy
  BY <1>3, WriteHierarchyHolds
<1>4. CASE Finish
  BY <1>4, FinishHolds
<1>5. CASE End
  <2>1. faults' \in 0..MaxFaults
    BY <1>5 DEF End, IInv, LedgerInv
  <2> QED
    BY <1>5, <2>1, EndHolds DEF End
<1>6. ASSUME NEW m \in Members, Skip(m) \/ Process(m) PROVE IInv'
  BY <1>6, SkipHolds, ProcessHolds
<1>7. ASSUME NEW a \in Articles, Embed(a) PROVE IInv'
  BY <1>7, EmbedHolds
<1>8. CASE Stop
  <2>1. faults' \in 0..MaxFaults
    BY <1>8 DEF BoundsAssumption, Stop, IInv, LedgerInv
  <2> QED
    BY <1>8, <2>1, EndHolds DEF Stop
<1>9. ASSUME NEW m \in Members, Publish(m) PROVE IInv'
  BY <1>9, PublishHolds
<1>10. CASE UNCHANGED vars
  <2>1. UNCHANGED storeVars /\ UNCHANGED <<published, recorded, consumed, run, faults>>
    BY <1>10 DEF vars
  <2>2. LedgerInv'
    BY <2>1 DEF IInv, LedgerInv, storeVars
  <2>3. HierarchyInv'
    BY <2>1 DEF IInv, HierarchyInv, AllSettled, UntouchedSettled, NewPath, storeVars
  <2> QED
    BY <2>1, <2>2, <2>3, StoreStays DEF IInv
<1> QED
  BY <1>1, <1>2, <1>3, <1>4, <1>5, <1>6, <1>7, <1>8, <1>9, <1>10 DEF Next, RunStep

LEMMA InvariantSays ==
  ASSUME IInv
  PROVE  TypeOK /\ IndexCarriesTheText /\ HierarchySettles
<1>1. \A a \in Articles : ArticleHolds(document[a], chunks[a], vectors[a])
  BY DEF IInv, StoreInv
<1>2. TypeOK
  <2>1. ASSUME NEW a \in Articles
        PROVE  /\ document[a] = None <=> chunks[a] = <<>>
               /\ Len(vectors[a]) = Len(chunks[a])
               /\ \A i \in DOMAIN chunks[a] : chunks[a][i].stamped \in BOOLEAN
    <3>1. /\ chunks[a] \in Seq(Rows)
          /\ document[a] = None <=> chunks[a] = <<>>
          /\ Len(vectors[a]) = Len(chunks[a])
      BY <1>1 DEF ArticleHolds
    <3>2. \A i \in DOMAIN chunks[a] : chunks[a][i] \in Rows
      BY <3>1
    <3> QED
      BY <3>1, <3>2 DEF Rows
  <2>2. run.phase \in Phases
    BY DEF IInv, LedgerInv, Runs
  <2> QED
    BY <2>1, <2>2 DEF IInv, LedgerInv, TypeOK, Phases
<1>3. IndexCarriesTheText
  <2>1. ASSUME NEW a \in Articles, document[a] # None
        PROVE  /\ FlattenSeq([i \in 1..document[a].parts |-> chunks[a][i].text.body]) = document[a].body
               /\ \A i \in DOMAIN chunks[a] : chunks[a][i].stamped => vectors[a][i] = chunks[a][i].text
    <3>1. ArticleHolds(document[a], chunks[a], vectors[a])
      BY <1>1
    <3>2. DOMAIN chunks[a] = 1..Len(chunks[a])
      BY <3>1 DEF ArticleHolds
    <3> QED
      BY <2>1, <3>1, <3>2 DEF ArticleHolds
  <2> QED
    BY <2>1 DEF IndexCarriesTheText
<1>4. HierarchySettles
  <2>1. SUFFICES ASSUME consumed = published, NEW a \in Articles,
                        LET known == Candidates(a, TRUE, {})
                        IN  known # {} /\ \A c, d \in known : c.section.uid = d.section.uid
                 PROVE  \E c \in Preferred(Candidates(a, TRUE, {})) : Len(c.path) <= Len(document[a].path)
    BY DEF HierarchySettles
  <2> DEFINE known == Candidates(a, TRUE, {})
  <2>2. recorded \subseteq consumed
    BY <2>1 DEF IInv, LedgerInv
  <2>3. AllSettled
    BY <2>2 DEF IInv, HierarchyInv
  <2>4. known = KnownOf(document[a], edges[a], sections, structures, a)
    BY DEF Candidates, KnownOf, Pool
  <2>5. OneSection(known)
    BY <2>1 DEF OneSection
  <2> HIDE DEF known
  <2>6. DeepEnough(known, document[a].path)
    BY <2>3, <2>4, <2>5 DEF AllSettled, Settled
  <2> QED
    BY <2>6 DEF DeepEnough, known
<1> QED
  BY <1>2, <1>3, <1>4

LEMMA InvariantAlways ==
  ASSUME MembersAssumption, BoundsAssumption, NoneAssumption
  PROVE  Spec => []IInv
<1>1. Init => IInv
  BY InitHolds
<1>2. IInv /\ [Next]_vars => IInv'
  BY NextHolds
<1> QED
  BY <1>1, <1>2, PTL DEF Spec

(* The members an archive, the ledger and the cursor account for, and the  *)
(* chunks and vectors of a document, one for one.                          *)
THEOREM TypeCorrect ==
  ASSUME MembersAssumption, BoundsAssumption, NoneAssumption
  PROVE  Spec => []TypeOK
<1>1. IInv => TypeOK
  BY InvariantSays
<1> QED
  BY <1>1, InvariantAlways, PTL

(* The chunks of an article carry its body, in order, and a stamped chunk  *)
(* has the vector of its present text, whatever was corrected, rehung or   *)
(* embedded in between (legi.rs, hierarchy_backfill.rs, embedding.rs).     *)
THEOREM IndexCarriesTheTextAlways ==
  ASSUME MembersAssumption, BoundsAssumption, NoneAssumption
  PROVE  Spec => []IndexCarriesTheText
<1>1. IInv => IndexCarriesTheText
  BY InvariantSays
<1> QED
  BY <1>1, InvariantAlways, PTL

(* Behind a cursor that caught up every article hangs as deep as what is   *)
(* known of its section, in whatever order and over however many runs,     *)
(* dead ones included, the members came (hierarchy_backfill.rs): a run     *)
(* that resumes nobody's work leaves settled what it does not touch, and   *)
(* one that skips looks at everything.                                     *)
THEOREM HierarchySettlesAlways ==
  ASSUME MembersAssumption, BoundsAssumption, NoneAssumption
  PROVE  Spec => []HierarchySettles
<1>1. IInv => HierarchySettles
  BY InvariantSays
<1> QED
  BY <1>1, InvariantAlways, PTL
=============================================================================
