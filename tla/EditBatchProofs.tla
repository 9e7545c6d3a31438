--------------------------- MODULE EditBatchProofs ---------------------------
(***************************************************************************)
(* What a committed batch reports of its splices is right for every text    *)
(* and every batch: a mirror that replays them has the new text, and a      *)
(* token that none of them replaces is found where shift says.              *)
(*                                                                          *)
(* Both are facts about splices of a text that are in order and apart.      *)
(* That those of a commit are, and that what it commits is again a text     *)
(* the next batch can be planned on, is the invariant, BatchInv.            *)
(***************************************************************************)
EXTENDS EditBatch, SequenceFacts, SequenceTheorems, FunctionTheorems, FiniteSetTheorems, TLAPS

----------------------------------------------------------------------------
(***************************************************************************)
(* Putting splices in order loses none and makes none up.                   *)
(***************************************************************************)

\* In a strict order of n things the k-th has k - 1 before it.
IsStrictOrder(R, n) ==
  /\ \A i \in 1 .. n : <<i, i>> \notin R
  /\ \A i, j, k \in 1 .. n : <<i, j>> \in R /\ <<j, k>> \in R => <<i, k>> \in R
  /\ \A i, j \in 1 .. n : i = j \/ <<i, j>> \in R \/ <<j, i>> \in R

Below(R, n, i) == {j \in 1 .. n : <<j, i>> \in R}

\* Who comes later has more before it.
LEMMA LaterHasMore ==
  ASSUME NEW n \in Nat, NEW R, IsStrictOrder(R, n), NEW i \in 1 .. n, NEW j \in 1 .. n,
         <<i, j>> \in R
  PROVE  Cardinality(Below(R, n, i)) < Cardinality(Below(R, n, j))
<1>1. /\ Below(R, n, i) \subseteq Below(R, n, j) \ {i}
      /\ i \in Below(R, n, j) /\ Below(R, n, j) \subseteq 1 .. n
  BY DEF IsStrictOrder, Below
<1>2. IsFiniteSet(Below(R, n, j))
  <2>1. IsFiniteSet(1 .. n)
    BY FS_Interval
  <2> QED BY <1>1, <2>1, FS_Subset
<1>3. /\ IsFiniteSet(Below(R, n, j) \ {i})
      /\ Cardinality(Below(R, n, j) \ {i}) = Cardinality(Below(R, n, j)) - 1
  BY <1>1, <1>2, FS_RemoveElement
<1>4. /\ IsFiniteSet(Below(R, n, i))
      /\ Cardinality(Below(R, n, i)) <= Cardinality(Below(R, n, j) \ {i})
  BY <1>1, <1>3, FS_Subset
<1>5. Cardinality(Below(R, n, i)) \in Nat /\ Cardinality(Below(R, n, j)) \in Nat
  BY <1>2, <1>4, FS_CardinalityType
<1> QED BY <1>3, <1>4, <1>5

\* So every rank is taken.
LEMMA Ranked ==
  ASSUME NEW n \in Nat, NEW R, IsStrictOrder(R, n), NEW k \in 1 .. n
  PROVE  \E i \in 1 .. n : Cardinality(Below(R, n, i)) = k - 1
<1> DEFINE D == 1 .. n
           rank == [i \in D |-> Cardinality(Below(R, n, i))]
           T == 0 .. (n - 1)
<1>1. /\ IsFiniteSet(D) /\ Cardinality(D) = n
      /\ IsFiniteSet(T) /\ Cardinality(T) = n
  <2>1. IsFiniteSet(1 .. n) /\ Cardinality(1 .. n) = n
    BY FS_Interval
  <2>2. 0 \in Int /\ n - 1 \in Int
    OBVIOUS
  <2>3. IsFiniteSet(0 .. (n - 1)) /\ Cardinality(0 .. (n - 1)) = IF 0 > n - 1 THEN 0 ELSE (n - 1) - 0 + 1
    BY <2>2, FS_Interval
  <2> QED BY <2>1, <2>3
<1>2. ASSUME NEW i \in D PROVE Cardinality(Below(R, n, i)) \in T
  <2>1. Below(R, n, i) \subseteq D \ {i}
    BY DEF IsStrictOrder, Below
  <2>2. IsFiniteSet(D \ {i}) /\ Cardinality(D \ {i}) = n - 1
    BY <1>1, FS_RemoveElement
  <2>3. IsFiniteSet(Below(R, n, i)) /\ Cardinality(Below(R, n, i)) <= n - 1
    BY <2>1, <2>2, FS_Subset
  <2>4. Cardinality(Below(R, n, i)) \in Nat
    BY <2>3, FS_CardinalityType
  <2> QED BY <2>3, <2>4
<1>3. \A i, j \in D : Cardinality(Below(R, n, i)) = Cardinality(Below(R, n, j)) => i = j
  <2> SUFFICES ASSUME NEW i \in D, NEW j \in D, i # j,
                      Cardinality(Below(R, n, i)) = Cardinality(Below(R, n, j))
               PROVE  FALSE
    OBVIOUS
  <2>1. <<i, j>> \in R \/ <<j, i>> \in R
    BY DEF IsStrictOrder
  <2>2. Cardinality(Below(R, n, i)) \in Nat /\ Cardinality(Below(R, n, j)) \in Nat
    BY <1>2
  <2> QED BY <2>1, <2>2, LaterHasMore
<1>4. rank \in Injection(D, T)
  <2>1. rank \in [D -> T]
    BY <1>2
  <2>2. \A i, j \in DOMAIN rank : rank[i] = rank[j] => i = j
    BY <1>3
  <2> QED BY <2>1, <2>2 DEF Injection, IsInjective
<1> HIDE DEF rank, D, T
<1>5. rank \in Surjection(D, T)
  BY <1>1, <1>4, FS_Injection
<1>6. k - 1 \in T
  BY DEF T
<1>7. PICK i \in D : rank[i] = k - 1
  BY <1>5, <1>6 DEF Surjection
<1> QED BY <1>7 DEF rank, D

\* Places to splice.
Placed(s) == \A i \in DOMAIN s : s[i].start \in Int /\ s[i].end \in Int

\* The splices in order are splices of the batch.
LEMMA InOrderType ==
  ASSUME NEW S, NEW s \in Seq(S), Placed(s)
  PROVE  InOrder(s) \in Seq(S) /\ Len(InOrder(s)) = Len(s)
<1> DEFINE n == Len(s)
           R == {r \in (1 .. n) \X (1 .. n) : Precedes(s, r[1], r[2])}
           before(i) == {j \in DOMAIN s : Precedes(s, j, i)}
<1>1. n \in Nat /\ DOMAIN s = 1 .. n
  OBVIOUS
<1>2. \A i, j \in 1 .. n : <<i, j>> \in R <=> Precedes(s, i, j)
  OBVIOUS
<1>3. \A i \in 1 .. n : s[i].start \in Int /\ s[i].end \in Int
  BY DEF Placed
<1> HIDE DEF R, n
<1>4. IsStrictOrder(R, n)
  <2>1. \A i \in 1 .. n : ~Precedes(s, i, i)
    BY <1>1, <1>3 DEF Precedes
  <2>2. \A i, j, k \in 1 .. n : Precedes(s, i, j) /\ Precedes(s, j, k) => Precedes(s, i, k)
    BY <1>1, <1>3 DEF Precedes
  <2>3. \A i, j \in 1 .. n : i = j \/ Precedes(s, i, j) \/ Precedes(s, j, i)
    BY <1>1, <1>3 DEF Precedes
  <2> QED BY <1>2, <2>1, <2>2, <2>3 DEF IsStrictOrder
<1>5. \A i \in 1 .. n : before(i) = Below(R, n, i)
  BY <1>1, <1>2 DEF Below
<1>6. ASSUME NEW k \in 1 .. n
      PROVE  \E i \in DOMAIN s : Cardinality(before(i)) = k - 1
  <2>1. PICK i \in 1 .. n : Cardinality(Below(R, n, i)) = k - 1
    BY <1>1, <1>4, Ranked
  <2>2. before(i) = Below(R, n, i)
    BY <1>5
  <2> HIDE DEF before
  <2> QED BY <1>1, <2>1, <2>2
<1> DEFINE of(k) == CHOOSE i \in DOMAIN s : Cardinality(before(i)) = k - 1
<1>7. \A k \in 1 .. n : of(k) \in DOMAIN s
  BY <1>6
<1> HIDE DEF before
<1>8. InOrder(s) = [k \in 1 .. n |-> s[of(k)]]
  BY <1>1 DEF InOrder, before
<1> HIDE DEF of
<1>9. \A k \in 1 .. n : s[of(k)] \in S
  BY <1>7
<1> QED BY <1>1, <1>8, <1>9 DEF n

\* The places of a text.
LEMMA UptoType ==
  ASSUME NEW n \in Nat
  PROVE  Upto(n) \in Seq(1 .. n) /\ Len(Upto(n)) = n
BY DEF Upto

\* So are those left of them when the same one is left out.
LEMMA DeduplicatedType ==
  ASSUME NEW S, NEW s \in Seq(S)
  PROVE  Deduplicated(s) \in Seq(S)
<1> DEFINE T == {i \in DOMAIN s : i = 1 \/ ~SameReplacement(s[i - 1], s[i])}
           kept == Only(Upto(Len(s)), T)
<1>1. kept \in Seq(1 .. Len(s))
  BY UptoType, OnlyType
<1>2. Deduplicated(s) = [k \in DOMAIN kept |-> s[kept[k]]]
  BY DEF Deduplicated
<1> HIDE DEF kept
<1>3. DOMAIN kept = 1 .. Len(kept) /\ Len(kept) \in Nat
  BY <1>1
<1>4. \A k \in 1 .. Len(kept) : s[kept[k]] \in S
  BY <1>1
<1> QED BY <1>2, <1>3, <1>4

----------------------------------------------------------------------------
(***************************************************************************)
(* Splices of a text, in order and apart.                                   *)
(***************************************************************************)
Expectations == [at : Int, qn : Seq(Spellings), newLeaf : BOOLEAN]

SplicesOf(t) ==
  {r \in [start : 0 .. Len(t), end : 0 .. Len(t), text : Seq(Tokens),
          expects : SUBSET Expectations] : r.start <= r.end}

Apart(t, s) == t \in Seq(Tokens) /\ s \in Seq(SplicesOf(t)) /\ ~Overlapping(s)

\* Each splice ends before the next starts, and all lie in the text.
LEMMA ApartFacts ==
  ASSUME NEW t, NEW s, Apart(t, s)
  PROVE  /\ Len(s) \in Nat /\ DOMAIN s = 1 .. Len(s) /\ Len(t) \in Nat
         /\ \A i \in 1 .. Len(s) :
              /\ s[i].start \in Nat /\ s[i].end \in Nat
              /\ s[i].start <= s[i].end /\ s[i].end <= Len(t)
              /\ s[i].text \in Seq(Tokens)
              /\ EndBefore(s, i) \in Nat /\ EndBefore(s, i) <= s[i].start
              /\ EndBefore(s, i + 1) = s[i].end
         /\ EndBefore(s, 1) = 0
         /\ \A i \in 0 .. Len(s) : EndBefore(s, i + 1) \in 0 .. Len(t)
<1>1. Len(s) \in Nat /\ DOMAIN s = 1 .. Len(s) /\ Len(t) \in Nat
  BY DEF Apart
<1>2. \A i \in 1 .. Len(s) :
        /\ s[i].start \in Nat /\ s[i].end \in Nat
        /\ s[i].start <= s[i].end /\ s[i].end <= Len(t)
        /\ s[i].text \in Seq(Tokens)
  <2>1. \A i \in 1 .. Len(s) : s[i] \in SplicesOf(t)
    BY DEF Apart
  <2> QED BY <1>1, <2>1 DEF SplicesOf
<1>3. \A i \in 1 .. Len(s) - 1 : ~(s[i + 1].start < s[i].end)
  BY DEF Apart, Overlapping
<1>4. \A i \in 1 .. Len(s) : i = 1 \/ (i - 1 \in 1 .. Len(s) - 1 /\ (i - 1) + 1 = i)
  BY <1>1
<1>5. \A i \in 1 .. Len(s) : EndBefore(s, i) \in Nat /\ EndBefore(s, i) <= s[i].start
  <2> SUFFICES ASSUME NEW i \in 1 .. Len(s)
               PROVE  EndBefore(s, i) \in Nat /\ EndBefore(s, i) <= s[i].start
    OBVIOUS
  <2>1. CASE i = 1
    BY <1>2, <2>1 DEF EndBefore
  <2>2. CASE i # 1
    <3>1. i - 1 \in 1 .. Len(s) - 1 /\ (i - 1) + 1 = i /\ i - 1 \in 1 .. Len(s)
      BY <1>1, <2>2
    <3>2. ~(s[i].start < s[i - 1].end)
      BY <1>3, <3>1
    <3> QED BY <1>2, <2>2, <3>1, <3>2 DEF EndBefore
  <2> QED BY <2>1, <2>2
<1>6. \A i \in 1 .. Len(s) : EndBefore(s, i + 1) = s[i].end
  BY <1>1 DEF EndBefore
<1>7. EndBefore(s, 1) = 0
  BY DEF EndBefore
<1>8. \A i \in 0 .. Len(s) : EndBefore(s, i + 1) \in 0 .. Len(t)
  BY <1>1, <1>2, <1>6, <1>7
<1> QED BY <1>1, <1>2, <1>5, <1>6, <1>7, <1>8

\* What each splice adds, the text before it and its own.
LEMMA PiecesType ==
  ASSUME NEW t, NEW s, Apart(t, s)
  PROVE  /\ Len(Pieces(t, s)) = Len(s)
         /\ \A i \in 1 .. Len(s) :
              /\ Pieces(t, s)[i] = SubSeq(t, EndBefore(s, i) + 1, s[i].start) \o s[i].text
              /\ SubSeq(t, EndBefore(s, i) + 1, s[i].start) \in Seq(Tokens)
              /\ Len(SubSeq(t, EndBefore(s, i) + 1, s[i].start)) = s[i].start - EndBefore(s, i)
              /\ Pieces(t, s)[i] \in Seq(Tokens)
<1>1. /\ Len(s) \in Nat /\ DOMAIN s = 1 .. Len(s) /\ t \in Seq(Tokens)
      /\ \A i \in 1 .. Len(s) :
              /\ s[i].start \in Nat /\ s[i].end \in Nat
              /\ s[i].start <= s[i].end /\ s[i].end <= Len(t)
              /\ s[i].text \in Seq(Tokens)
              /\ EndBefore(s, i) \in Nat /\ EndBefore(s, i) <= s[i].start
  BY ApartFacts DEF Apart
<1>2. \A i \in 1 .. Len(s) :
        Pieces(t, s)[i] = SubSeq(t, EndBefore(s, i) + 1, s[i].start) \o s[i].text
  BY <1>1 DEF Pieces, Piece
<1>3. Len(Pieces(t, s)) = Len(s)
  BY <1>1 DEF Pieces
<1>4. ASSUME NEW i \in 1 .. Len(s)
      PROVE  /\ SubSeq(t, EndBefore(s, i) + 1, s[i].start) \in Seq(Tokens)
             /\ Len(SubSeq(t, EndBefore(s, i) + 1, s[i].start)) = s[i].start - EndBefore(s, i)
  <2> DEFINE e == EndBefore(s, i)
             a == s[i].start
  <2>1. e \in Nat /\ a \in Nat /\ e <= a /\ a <= Len(t)
    BY <1>1
  <2> HIDE DEF e, a
  <2>2. \A k \in e + 1 .. a : t[k] \in Tokens
    BY <1>1, <2>1
  <2>3. /\ SubSeq(t, e + 1, a) \in Seq(Tokens)
        /\ Len(SubSeq(t, e + 1, a)) = IF e + 1 <= a THEN a - (e + 1) + 1 ELSE 0
    BY <2>1, <2>2, SubSeqProperties
  <2>4. (IF e + 1 <= a THEN a - (e + 1) + 1 ELSE 0) = a - e
    BY <2>1
  <2> QED BY <2>3, <2>4 DEF e, a
<1>5. \A i \in 1 .. Len(s) : Pieces(t, s)[i] \in Seq(Tokens)
  <2> SUFFICES ASSUME NEW i \in 1 .. Len(s) PROVE Pieces(t, s)[i] \in Seq(Tokens)
    OBVIOUS
  <2>1. SubSeq(t, EndBefore(s, i) + 1, s[i].start) \in Seq(Tokens) /\ s[i].text \in Seq(Tokens)
    BY <1>1, <1>4
  <2> QED BY <1>2, <2>1, ConcatProperties
<1> QED BY <1>2, <1>3, <1>4, <1>5
----------------------------------------------------------------------------
(***************************************************************************)
(* A mirror.                                                                *)
(***************************************************************************)

\* Replacing in a text of which the part after e was rewritten already.
LEMMA ReplaceBefore ==
  ASSUME NEW S, NEW t \in Seq(S), NEW D \in Seq(S), NEW r, r.text \in Seq(S),
         r.start \in Nat, r.end \in Nat, r.start <= r.end, r.end <= Len(t)
  PROVE  Replace(SubSeq(t, 1, r.end) \o D, r) = SubSeq(t, 1, r.start) \o r.text \o D
<1> DEFINE a == r.start
           e == r.end
           front == SubSeq(t, 1, e)
           q == front \o D
<1>1. a \in Nat /\ e \in Nat /\ a <= e /\ e <= Len(t) /\ Len(t) \in Nat
  OBVIOUS
<1> HIDE DEF a, e
<1>2. front \in Seq(S) /\ Len(front) = e /\ \A i \in 1 .. e : front[i] = t[i]
  <2>1. \A i \in 1 .. e : t[i] \in S
    BY <1>1
  <2>2. /\ front \in Seq(S) /\ Len(front) = IF 1 <= e THEN e - 1 + 1 ELSE 0
        /\ \A i \in 1 .. e - 1 + 1 : front[i] = t[1 + i - 1]
    BY <1>1, <2>1, SubSeqProperties
  <2>3. (IF 1 <= e THEN e - 1 + 1 ELSE 0) = e /\ e - 1 + 1 = e
    BY <1>1
  <2>4. \A i \in 1 .. e : 1 + i - 1 = i
    BY <1>1
  <2> HIDE DEF front
  <2> QED BY <2>2, <2>3, <2>4
<1> HIDE DEF front
<1>3. /\ q \in Seq(S) /\ Len(q) = e + Len(D) /\ Len(D) \in Nat
      /\ \A i \in 1 .. e + Len(D) : q[i] = IF i <= e THEN front[i] ELSE D[i - e]
  <2>1. /\ front \o D \in Seq(S) /\ Len(front \o D) = Len(front) + Len(D)
        /\ \A i \in 1 .. Len(front) + Len(D) :
             (front \o D)[i] = IF i <= Len(front) THEN front[i] ELSE D[i - Len(front)]
    BY <1>2, ConcatProperties, Zenon
  <2> HIDE DEF q
  <2>2. q = front \o D
    BY DEF q
  <2>3. Len(D) \in Nat
    OBVIOUS
  <2> QED BY <1>2, <2>1, <2>2, <2>3, Zenon
<1> HIDE DEF q
<1>4. SubSeq(q, 1, a) = SubSeq(t, 1, a)
  <2>1. \A i \in 1 .. a : q[i] = t[i] /\ q[i] \in S /\ t[i] \in S
    BY <1>1, <1>2, <1>3
  <2>2. /\ SubSeq(q, 1, a) \in Seq(S) /\ SubSeq(t, 1, a) \in Seq(S)
        /\ Len(SubSeq(q, 1, a)) = Len(SubSeq(t, 1, a))
        /\ Len(SubSeq(q, 1, a)) = IF 1 <= a THEN a - 1 + 1 ELSE 0
        /\ \A i \in 1 .. a - 1 + 1 : SubSeq(q, 1, a)[i] = q[1 + i - 1]
        /\ \A i \in 1 .. a - 1 + 1 : SubSeq(t, 1, a)[i] = t[1 + i - 1]
    BY <1>1, <2>1, SubSeqProperties
  <2>3. Len(SubSeq(q, 1, a)) = a /\ a - 1 + 1 = a /\ \A i \in 1 .. a : 1 + i - 1 = i
    BY <1>1, <2>2
  <2>4. \A i \in 1 .. Len(SubSeq(q, 1, a)) : SubSeq(q, 1, a)[i] = SubSeq(t, 1, a)[i]
    BY <2>1, <2>2, <2>3
  <2> QED BY <2>2, <2>4, SeqEqual
<1>5. SubSeq(q, e + 1, Len(q)) = D
  <2> DEFINE z == SubSeq(q, e + 1, Len(q))
  <2>1. \A i \in e + 1 .. Len(q) : q[i] \in S
    BY <1>1, <1>3
  <2>2. /\ z \in Seq(S) /\ Len(z) = IF e + 1 <= Len(q) THEN Len(q) - (e + 1) + 1 ELSE 0
        /\ \A i \in 1 .. Len(q) - (e + 1) + 1 : z[i] = q[(e + 1) + i - 1]
    BY <1>1, <1>3, <2>1, SubSeqProperties
  <2> HIDE DEF z
  <2>3. Len(z) = Len(D) /\ Len(q) - (e + 1) + 1 = Len(D)
    BY <1>1, <1>3, <2>2
  <2>4. \A i \in 1 .. Len(z) : z[i] = D[i]
    <3> SUFFICES ASSUME NEW i \in 1 .. Len(z) PROVE z[i] = D[i]
      OBVIOUS
    <3>1. z[i] = q[(e + 1) + i - 1]
      BY <2>2, <2>3
    <3>2. (e + 1) + i - 1 = e + i /\ e + i \in 1 .. e + Len(D) /\ ~(e + i <= e) /\ (e + i) - e = i
      BY <1>1, <1>3, <2>3
    <3> QED BY <1>3, <3>1, <3>2
  <2> QED BY <2>2, <2>3, <2>4, SeqEqual DEF z
<1> QED BY <1>4, <1>5 DEF Replace, q, front, a, e

\* The text after the last k of s.
IsReplay(f, t, s, n) ==
  f = [i \in 0 .. n |-> IF i = 0 THEN t ELSE Replace(f[i - 1], s[Len(s) + 1 - i])]

\* There is such a function.
LEMMA ReplayExists ==
  ASSUME NEW t, NEW s
  PROVE  \A n \in Nat : \E f : IsReplay(f, t, s, n)
<1> DEFINE Counts == {k \in Nat : \E f : IsReplay(f, t, s, k)}
<1>1. 0 \in Counts
  <2>1. IsReplay([i \in 0 .. 0 |-> t], t, s, 0)
    BY DEF IsReplay
  <2> QED BY <2>1
<1>2. ASSUME NEW k \in Nat, k \in Counts PROVE k + 1 \in Counts
  <2>1. PICK f : IsReplay(f, t, s, k)
    BY <1>2
  <2> DEFINE next == Replace(f[k], s[Len(s) + 1 - (k + 1)])
             g == [i \in 0 .. (k + 1) |-> IF i = k + 1 THEN next ELSE f[i]]
  <2>2. \A i \in 0 .. k : g[i] = f[i]
    OBVIOUS
  <2>3. g[k + 1] = Replace(g[k], s[Len(s) + 1 - (k + 1)])
    <3>1. g[k + 1] = next /\ g[k] = f[k]
      BY <2>2
    <3> HIDE DEF g
    <3> QED BY <3>1
  <2>4. ASSUME NEW i \in 1 .. k PROVE g[i] = Replace(g[i - 1], s[Len(s) + 1 - i])
    <3>1. i \in 0 .. k /\ i - 1 \in 0 .. k /\ i # 0
      OBVIOUS
    <3>2. f[i] = Replace(f[i - 1], s[Len(s) + 1 - i])
      BY <2>1, <3>1 DEF IsReplay
    <3>3. g[i] = f[i] /\ g[i - 1] = f[i - 1]
      BY <2>2, <3>1
    <3> HIDE DEF g
    <3> QED BY <3>2, <3>3
  <2>5. g[0] = t
    BY <2>1, <2>2 DEF IsReplay
  <2> HIDE DEF next
  <2>6. g = [i \in 0 .. (k + 1) |-> g[i]]
    OBVIOUS
  <2> HIDE DEF g
  <2>7. ASSUME NEW i \in 0 .. (k + 1)
        PROVE  g[i] = IF i = 0 THEN t ELSE Replace(g[i - 1], s[Len(s) + 1 - i])
    <3>1. CASE i = 0
      BY <2>5, <3>1
    <3>2. CASE i \in 1 .. k
      <4>1. i # 0
        BY <3>2
      <4> QED BY <2>4, <3>2, <4>1
    <3>3. CASE i = k + 1
      <4>1. i # 0 /\ i - 1 = k
        BY <3>3
      <4> QED BY <2>3, <3>3, <4>1
    <3>4. i = 0 \/ i \in 1 .. k \/ i = k + 1
      OBVIOUS
    <3> QED BY <3>1, <3>2, <3>3, <3>4
  <2>8. IsReplay(g, t, s, k + 1)
    BY <2>6, <2>7 DEF IsReplay
  <2> QED BY <2>8
<1> HIDE DEF Counts
<1>3. \A k \in Nat : k \in Counts
  BY <1>1, <1>2, SetInduction
<1> QED BY <1>3 DEF Counts

\* With the last k splices replayed, what is rewritten is the end of the new
\* text, and what is not is the beginning of the old.
HalfWay(t, s, f, built, k) ==
  \E D \in Seq(Tokens) :
    /\ f[k] = SubSeq(t, 1, EndBefore(s, Len(s) - k + 1)) \o D
    /\ Spliced(t, s) = built[Len(s) - k] \o D

\* Nothing is replayed yet: the copy is the old text.
LEMMA HalfWayStart ==
  ASSUME NEW t, NEW s, Apart(t, s), NEW f, NEW built,
         f[0] = t, JoinedBy(built, Pieces(t, s), Tokens)
  PROVE  HalfWay(t, s, f, built, 0)
<1> DEFINE n == Len(s)
           e == EndBefore(s, n + 1)
           D == SubSeq(t, e + 1, Len(t))
<1>1. n \in Nat /\ Len(t) \in Nat /\ t \in Seq(Tokens) /\ e \in 0 .. Len(t) /\ Len(Pieces(t, s)) = n
  BY ApartFacts, PiecesType DEF Apart
<1>2. n - 0 = n
  BY <1>1
<1> HIDE DEF n, e
<1>3. D \in Seq(Tokens)
  <2>1. \A i \in e + 1 .. Len(t) : t[i] \in Tokens
    BY <1>1
  <2> QED BY <1>1, <2>1, SubSeqProperties
<1>4. SubSeq(t, 1, e) \o D = t
  <2>1. 1 \in 1 .. Len(t) + 1 /\ e \in 1 - 1 .. Len(t) /\ Len(t) \in e .. Len(t)
    BY <1>1
  <2>2. SubSeq(t, 1, e) \o SubSeq(t, e + 1, Len(t)) = SubSeq(t, 1, Len(t))
    BY <1>1, <2>1, ConcatAdjacentSubSeq
  <2> QED BY <1>1, <2>2, SubSeqFull
<1>5. Spliced(t, s) = built[n] \o D
  BY <1>1 DEF Spliced, JoinedBy, n, e
<1> HIDE DEF D
<1> QED BY <1>2, <1>3, <1>4, <1>5 DEF HalfWay, n, e

\* One more is replayed.
LEMMA HalfWayNext ==
  ASSUME NEW t, NEW s, NEW f, NEW built, NEW k
  PROVE  /\ Apart(t, s) /\ k \in Nat /\ k + 1 <= Len(s)
         /\ f[k + 1] = Replace(f[k], s[Len(s) + 1 - (k + 1)])
         /\ JoinedBy(built, Pieces(t, s), Tokens) /\ HalfWay(t, s, f, built, k)
         => HalfWay(t, s, f, built, k + 1)
<1>0. SUFFICES ASSUME Apart(t, s), k \in Nat, k + 1 <= Len(s),
                      f[k + 1] = Replace(f[k], s[Len(s) + 1 - (k + 1)]),
                      JoinedBy(built, Pieces(t, s), Tokens), HalfWay(t, s, f, built, k)
               PROVE  HalfWay(t, s, f, built, k + 1)
  OBVIOUS
<1> DEFINE n == Len(s)
           i == n - k
           r == s[i]
           e == EndBefore(s, i)
           gap == SubSeq(t, e + 1, r.start)
<1>1. n \in Nat /\ i \in 1 .. n /\ n + 1 - (k + 1) = i /\ n - (k + 1) = i - 1 /\ n - k + 1 = i + 1
      /\ (i - 1) + 1 = i
  BY <1>0, ApartFacts
<1>2. /\ r.start \in Nat /\ r.end \in Nat /\ r.start <= r.end /\ r.end <= Len(t)
      /\ r.text \in Seq(Tokens) /\ e \in Nat /\ e <= r.start /\ EndBefore(s, i + 1) = r.end
      /\ t \in Seq(Tokens) /\ Len(t) \in Nat
  BY <1>0, <1>1, ApartFacts DEF Apart
<1>3. /\ Len(Pieces(t, s)) = n /\ Pieces(t, s)[i] = gap \o r.text /\ gap \in Seq(Tokens)
      /\ Pieces(t, s)[i] \in Seq(Tokens)
  BY <1>0, <1>1, PiecesType
<1>4. PICK D : /\ D \in Seq(Tokens)
               /\ f[k] = SubSeq(t, 1, EndBefore(s, n - k + 1)) \o D
               /\ Spliced(t, s) = built[n - k] \o D
  BY <1>0 DEF HalfWay
<1>5. built[i] = built[i - 1] \o (gap \o r.text) /\ built[i - 1] \in Seq(Tokens)
  <2>1. i \in 1 .. Len(Pieces(t, s)) /\ i - 1 \in 0 .. Len(Pieces(t, s))
    BY <1>1, <1>3
  <2> QED BY <1>0, <1>3, <2>1 DEF JoinedBy
<1>6. f[k] = SubSeq(t, 1, r.end) \o D
  BY <1>1, <1>2, <1>4
<1>7. f[k + 1] = SubSeq(t, 1, r.start) \o r.text \o D
  <2>1. f[k + 1] = Replace(f[k], r)
    BY <1>0, <1>1
  <2> HIDE DEF r
  <2>2. /\ r.text \in Seq(Tokens) /\ r.start \in Nat /\ r.end \in Nat /\ r.start <= r.end
        /\ r.end <= Len(t) /\ t \in Seq(Tokens) /\ D \in Seq(Tokens)
    BY <1>2, <1>4
  <2> HIDE DEF gap, i, n, e
  <2>3. Replace(SubSeq(t, 1, r.end) \o D, r) = SubSeq(t, 1, r.start) \o r.text \o D
    BY <2>2, ReplaceBefore
  <2> QED BY <1>6, <2>1, <2>3
<1>8. SubSeq(t, 1, r.start) = SubSeq(t, 1, e) \o gap
  <2>1. 1 \in 1 .. Len(t) + 1 /\ e \in 1 - 1 .. Len(t) /\ r.start \in e .. Len(t)
    BY <1>2
  <2> QED BY <1>2, <2>1, ConcatAdjacentSubSeq
<1>9. SubSeq(t, 1, e) \in Seq(Tokens)
  <2>1. \A j \in 1 .. e : t[j] \in Tokens
    BY <1>2
  <2> QED BY <1>2, <2>1, SubSeqProperties
<1> HIDE DEF gap, i, n, e
<1> DEFINE x == SubSeq(t, 1, e)
           y == r.text
<1> HIDE DEF x, y
<1>10. x \in Seq(Tokens) /\ gap \in Seq(Tokens) /\ y \in Seq(Tokens) /\ D \in Seq(Tokens)
  BY <1>2, <1>3, <1>4, <1>9 DEF x, y
<1> DEFINE B == built[i - 1]
<1> HIDE DEF B
<1>11. B \in Seq(Tokens)
  BY <1>5 DEF B
<1>12. (x \o gap) \o y = x \o (gap \o y) /\ gap \o y \in Seq(Tokens)
  <2>1. gap \o y \in Seq(Tokens)
    BY <1>10, ConcatProperties
  <2>2. (x \o gap) \o y = x \o (gap \o y)
    BY <1>10, ConcatAssociative
  <2> QED BY <2>1, <2>2
<1> DEFINE w == gap \o y
<1>13. f[k + 1] = (x \o w) \o D
  BY <1>7, <1>8, <1>12 DEF x, y
<1>14. Spliced(t, s) = (B \o w) \o D
  BY <1>4, <1>5 DEF y, i, B
<1>15. w \in Seq(Tokens)
  BY <1>12
<1> HIDE DEF w
<1> DEFINE G == w \o D
<1>16. G \in Seq(Tokens)
  BY <1>10, <1>15, ConcatProperties
<1>17. (x \o w) \o D = x \o G
  <2>1. x \in Seq(Tokens) /\ D \in Seq(Tokens)
    BY <1>10
  <2> QED BY <1>15, <2>1, ConcatAssociative
<1>18. (B \o w) \o D = B \o G
  <2>1. D \in Seq(Tokens)
    BY <1>10
  <2> QED BY <1>11, <1>15, <2>1, ConcatAssociative
<1> HIDE DEF G
<1>19. f[k + 1] = x \o G /\ Spliced(t, s) = B \o G
  BY <1>13, <1>14, <1>17, <1>18
<1> QED BY <1>1, <1>16, <1>19 DEF HalfWay, x, n, e, i, B

\* Splices that are replayed last one first give the text that is committed.
LEMMA MirrorAgrees ==
  ASSUME NEW t, NEW s, Apart(t, s)
  PROVE  Replayed(t, s) = Spliced(t, s)
<1> DEFINE n == Len(s)
           f == CHOOSE f : IsReplay(f, t, s, n)
<1>1. n \in Nat /\ t \in Seq(Tokens) /\ EndBefore(s, 1) = 0 /\ Len(Pieces(t, s)) = n
  BY ApartFacts, PiecesType DEF Apart
<1>2. IsReplay(f, t, s, n)
  BY <1>1, ReplayExists
<1>3. Replayed(t, s) = f[n]
  BY DEF Replayed, IsReplay
<1> HIDE DEF f
<1>4. PICK built : JoinedBy(built, Pieces(t, s), Tokens)
  BY <1>1, PiecesType, JoinedStepwise
<1>5. f[0] = t
  BY <1>1, <1>2 DEF IsReplay
<1>6. \A k \in Nat : k + 1 <= n => f[k + 1] = Replace(f[k], s[n + 1 - (k + 1)])
  <2> SUFFICES ASSUME NEW k \in Nat, k + 1 <= n
               PROVE  f[k + 1] = Replace(f[k], s[n + 1 - (k + 1)])
    OBVIOUS
  <2>1. k + 1 \in 0 .. n /\ k + 1 # 0 /\ (k + 1) - 1 = k
    BY <1>1
  <2>2. f[k + 1] = Replace(f[(k + 1) - 1], s[Len(s) + 1 - (k + 1)])
    BY <1>2, <2>1 DEF IsReplay
  <2> QED BY <2>1, <2>2
<1> DEFINE Counts == {k \in Nat : k <= n => HalfWay(t, s, f, built, k)}
<1>7. 0 \in Counts
  BY <1>4, <1>5, HalfWayStart
<1>8. ASSUME NEW k \in Nat, k \in Counts PROVE k + 1 \in Counts
  <2> SUFFICES ASSUME k + 1 <= n PROVE HalfWay(t, s, f, built, k + 1)
    OBVIOUS
  <2>1. HalfWay(t, s, f, built, k)
    BY <1>1, <1>8
  <2>2. f[k + 1] = Replace(f[k], s[Len(s) + 1 - (k + 1)])
    BY <1>6
  <2> HIDE DEF Counts
  <2> QED BY <1>4, <2>1, <2>2, HalfWayNext
<1> HIDE DEF Counts
<1>9. n \in Counts
  BY <1>1, <1>7, <1>8, SetInduction
<1>10. HalfWay(t, s, f, built, n)
  BY <1>1, <1>9 DEF Counts
<1>11. PICK D \in Seq(Tokens) : /\ f[n] = SubSeq(t, 1, EndBefore(s, n - n + 1)) \o D
                                /\ Spliced(t, s) = built[n - n] \o D
  BY <1>10 DEF HalfWay
<1>12. n - n = 0 /\ n - n + 1 = 1
  BY <1>1
<1>13. SubSeq(t, 1, 0) = <<>>
  BY SubSeqEmpty
<1>14. built[0] = <<>>
  BY <1>4 DEF JoinedBy
<1>15. f[n] = <<>> \o D
  BY <1>1, <1>11, <1>12, <1>13
<1>16. Spliced(t, s) = <<>> \o D
  BY <1>11, <1>12, <1>14
<1> QED BY <1>3, <1>15, <1>16

----------------------------------------------------------------------------
(***************************************************************************)
(* A token that no splice replaces.                                         *)
(***************************************************************************)

\* The token at i is left.
Spared(s, i) == \A k \in DOMAIN s : ~(s[k].start < i /\ i <= s[k].end)

\* The splices before the token at i.
Ahead(s, i) == {k \in DOMAIN s : s[k].end <= i - 1}

\* Both ends of a spared token are past the same splices, those before it,
\* and inside none.
LEMMA EndsAgree ==
  ASSUME NEW t, NEW s, NEW i
  PROVE  Apart(t, s) /\ i \in 1 .. Len(t) /\ Spared(s, i)
         => /\ Shift(s, i - 1, FALSE) = (i - 1) + Grown(s, Ahead(s, i))
            /\ Shift(s, i, TRUE) = i + Grown(s, Ahead(s, i))
<1>1. SUFFICES ASSUME Apart(t, s), i \in 1 .. Len(t), Spared(s, i)
               PROVE  /\ Shift(s, i - 1, FALSE) = (i - 1) + Grown(s, Ahead(s, i))
                      /\ Shift(s, i, TRUE) = i + Grown(s, Ahead(s, i))
  OBVIOUS
<1>2. /\ DOMAIN s = 1 .. Len(s) /\ Len(s) \in Nat /\ i \in Int
      /\ \A k \in 1 .. Len(s) : s[k].start \in Nat /\ s[k].end \in Nat /\ s[k].start <= s[k].end
  BY <1>1, ApartFacts DEF Apart
<1>3. \A k \in DOMAIN s : ~(s[k].start < i /\ i <= s[k].end)
  BY <1>1 DEF Spared
<1>4. \A k \in DOMAIN s : Passed(s[k], i - 1, FALSE) <=> s[k].end <= i - 1
  BY <1>2 DEF Passed
<1>5. \A k \in DOMAIN s : Passed(s[k], i, TRUE) <=> s[k].end <= i - 1
  <2> SUFFICES ASSUME NEW k \in DOMAIN s
               PROVE  Passed(s[k], i, TRUE) <=> s[k].end <= i - 1
    OBVIOUS
  <2>1. s[k].start \in Int /\ s[k].end \in Int /\ s[k].start <= s[k].end
    BY <1>2
  <2>2. ~(s[k].start < i /\ i <= s[k].end)
    BY <1>3
  <2>3. i > s[k].end \/ (i = s[k].end /\ s[k].start # s[k].end) <=> s[k].end <= i - 1
    BY <1>2, <2>1, <2>2
  <2> QED BY <2>3 DEF Passed, Insertion
<1>6. \A k \in DOMAIN s \ Ahead(s, i) : ~(i - 1 > s[k].start) /\ ~(i > s[k].start)
  BY <1>2, <1>3 DEF Ahead
<1>7. {k \in DOMAIN s : Passed(s[k], i - 1, FALSE)} = Ahead(s, i)
  BY <1>4 DEF Ahead
<1>8. {k \in DOMAIN s : Passed(s[k], i, TRUE)} = Ahead(s, i)
  BY <1>5 DEF Ahead
<1>9. Shift(s, i - 1, FALSE) = (i - 1) + Grown(s, Ahead(s, i))
  BY <1>6, <1>7 DEF Shift
<1>10. Shift(s, i, TRUE) = i + Grown(s, Ahead(s, i))
  BY <1>6, <1>8 DEF Shift
<1> QED BY <1>9, <1>10

\* How much the first k of s have grown the text where these are passed.
IsGrown(f, s, passed, n) ==
  f = [i \in 0 .. n |-> IF i = 0 THEN 0 ELSE f[i - 1] + IF i \in passed THEN Grows(s[i]) ELSE 0]

\* There is such a function.
LEMMA GrownExists ==
  ASSUME NEW s, NEW passed
  PROVE  \A n \in Nat : \E f : IsGrown(f, s, passed, n)
<1> DEFINE Counts == {k \in Nat : \E f : IsGrown(f, s, passed, k)}
<1>1. 0 \in Counts
  <2>1. IsGrown([i \in 0 .. 0 |-> 0], s, passed, 0)
    BY DEF IsGrown
  <2> QED BY <2>1
<1>2. ASSUME NEW k \in Nat, k \in Counts PROVE k + 1 \in Counts
  <2>1. PICK f : IsGrown(f, s, passed, k)
    BY <1>2
  <2> DEFINE next == f[k] + IF (k + 1) \in passed THEN Grows(s[(k + 1)]) ELSE 0
             g == [i \in 0 .. (k + 1) |-> IF i = k + 1 THEN next ELSE f[i]]
  <2>2. \A i \in 0 .. k : g[i] = f[i]
    OBVIOUS
  <2>3. g[k + 1] = g[k] + IF (k + 1) \in passed THEN Grows(s[(k + 1)]) ELSE 0
    <3>1. g[k + 1] = next /\ g[k] = f[k]
      BY <2>2
    <3> HIDE DEF g
    <3> QED BY <3>1
  <2>4. ASSUME NEW i \in 1 .. k PROVE g[i] = g[i - 1] + IF i \in passed THEN Grows(s[i]) ELSE 0
    <3>1. i \in 0 .. k /\ i - 1 \in 0 .. k /\ i # 0
      OBVIOUS
    <3>2. f[i] = f[i - 1] + IF i \in passed THEN Grows(s[i]) ELSE 0
      BY <2>1, <3>1 DEF IsGrown
    <3>3. g[i] = f[i] /\ g[i - 1] = f[i - 1]
      BY <2>2, <3>1
    <3> HIDE DEF g
    <3> QED BY <3>2, <3>3
  <2>5. g[0] = 0
    BY <2>1, <2>2 DEF IsGrown
  <2> HIDE DEF next
  <2>6. g = [i \in 0 .. (k + 1) |-> g[i]]
    OBVIOUS
  <2> HIDE DEF g
  <2>7. ASSUME NEW i \in 0 .. (k + 1)
        PROVE  g[i] = IF i = 0 THEN 0 ELSE g[i - 1] + IF i \in passed THEN Grows(s[i]) ELSE 0
    <3>1. CASE i = 0
      BY <2>5, <3>1
    <3>2. CASE i \in 1 .. k
      <4>1. i # 0
        BY <3>2
      <4> QED BY <2>4, <3>2, <4>1
    <3>3. CASE i = k + 1
      <4>1. i # 0 /\ i - 1 = k
        BY <3>3
      <4> QED BY <2>3, <3>3, <4>1
    <3>4. i = 0 \/ i \in 1 .. k \/ i = k + 1
      OBVIOUS
    <3> QED BY <3>1, <3>2, <3>3, <3>4
  <2>8. IsGrown(g, s, passed, k + 1)
    BY <2>6, <2>7 DEF IsGrown
  <2> QED BY <2>8
<1> HIDE DEF Counts
<1>3. \A k \in Nat : k \in Counts
  BY <1>1, <1>2, SetInduction
<1> QED BY <1>3 DEF Counts

\* With the first k splices made, the token at i is where their growth puts
\* it, or is not written yet.
Reached(t, s, i, f, built, k) ==
  /\ f[k] \in Int
  /\ EndBefore(s, k + 1) <= i - 1 => f[k] = Len(built[k]) - EndBefore(s, k + 1)
  /\ i <= EndBefore(s, k + 1) => i + f[k] \in 1 .. Len(built[k]) /\ built[k][i + f[k]] = t[i]

\* It is found where a text of tokens goes on with what follows e.
LEMMA FoundBehind ==
  ASSUME NEW S, NEW t \in Seq(S), NEW B \in Seq(S), NEW e \in Nat, NEW a \in Nat,
         a <= Len(t), NEW i \in 1 .. Len(t), e <= i - 1, i <= a
  PROVE  /\ i + (Len(B) - e) \in 1 .. Len(B \o SubSeq(t, e + 1, a))
         /\ (B \o SubSeq(t, e + 1, a))[i + (Len(B) - e)] = t[i]
<1> DEFINE gap == SubSeq(t, e + 1, a)
           at == i - e
<1>1. /\ e \in Int /\ a \in Int /\ i \in Int /\ Len(B) \in Nat /\ Len(t) \in Nat
      /\ 1 <= i /\ e <= i - 1 /\ i <= a
  OBVIOUS
<1>2. /\ gap \in Seq(S) /\ Len(gap) = IF e + 1 <= a THEN a - (e + 1) + 1 ELSE 0
      /\ \A j \in 1 .. a - (e + 1) + 1 : gap[j] = t[e + 1 + j - 1]
  <2>1. \A j \in e + 1 .. a : t[j] \in S
    OBVIOUS
  <2>2. e + 1 \in Int /\ a \in Int
    OBVIOUS
  <2> QED BY <2>1, <2>2, SubSeqProperties
<1>3. Len(gap) = a - e /\ at \in 1 .. a - e /\ a - (e + 1) + 1 = a - e /\ e + 1 + at - 1 = i
  BY <1>1, <1>2
<1>4. gap[at] = t[i]
  BY <1>2, <1>3
<1> HIDE DEF gap
<1>5. /\ Len(B \o gap) = Len(B) + Len(gap)
      /\ \A j \in 1 .. Len(B) + Len(gap) : (B \o gap)[j] = IF j <= Len(B) THEN B[j] ELSE gap[j - Len(B)]
  BY <1>2, ConcatProperties
<1>6. /\ i + (Len(B) - e) \in 1 .. Len(B) + Len(gap) /\ ~(i + (Len(B) - e) <= Len(B))
      /\ (i + (Len(B) - e)) - Len(B) = at
  BY <1>1, <1>3
<1> QED BY <1>4, <1>5, <1>6 DEF gap

\* It stays where it is when more is written.
LEMMA FoundStill ==
  ASSUME NEW S, NEW B \in Seq(S), NEW C \in Seq(S), NEW j \in 1 .. Len(B)
  PROVE  j \in 1 .. Len(B \o C) /\ (B \o C)[j] = B[j]
<1>1. /\ Len(B \o C) = Len(B) + Len(C)
      /\ \A l \in 1 .. Len(B) + Len(C) : (B \o C)[l] = IF l <= Len(B) THEN B[l] ELSE C[l - Len(B)]
  BY ConcatProperties
<1>2. j \in 1 .. Len(B) + Len(C) /\ j <= Len(B)
  OBVIOUS
<1> QED BY <1>1, <1>2

\* One more splice is made, before the token or after it.
LEMMA ReachedNext ==
  ASSUME NEW t, NEW s, NEW i, NEW f, NEW built, NEW k
  PROVE  /\ Apart(t, s) /\ i \in 1 .. Len(t) /\ Spared(s, i) /\ k \in Nat /\ k + 1 <= Len(s)
         /\ f[k + 1] = f[k] + IF k + 1 \in Ahead(s, i) THEN Grows(s[k + 1]) ELSE 0
         /\ JoinedBy(built, Pieces(t, s), Tokens) /\ Reached(t, s, i, f, built, k)
         => Reached(t, s, i, f, built, k + 1)
<1>1. SUFFICES ASSUME Apart(t, s), i \in 1 .. Len(t), Spared(s, i), k \in Nat, k + 1 <= Len(s),
                      f[k + 1] = f[k] + IF k + 1 \in Ahead(s, i) THEN Grows(s[k + 1]) ELSE 0,
                      JoinedBy(built, Pieces(t, s), Tokens), Reached(t, s, i, f, built, k)
               PROVE  Reached(t, s, i, f, built, k + 1)
  OBVIOUS
<1> DEFINE r == s[k + 1]
           e == EndBefore(s, k + 1)
           B == built[k]
           gap == SubSeq(t, e + 1, r.start)
<1>2. k + 1 \in 1 .. Len(s) /\ k + 1 \in DOMAIN s /\ (k + 1) - 1 = k
  BY <1>1, ApartFacts
<1>3. /\ r.start \in Nat /\ r.end \in Nat /\ r.start <= r.end /\ r.end <= Len(t)
      /\ r.text \in Seq(Tokens) /\ e \in Nat /\ e <= r.start /\ EndBefore(s, (k + 1) + 1) = r.end
      /\ t \in Seq(Tokens) /\ Len(t) \in Nat
  BY <1>1, <1>2, ApartFacts DEF Apart
<1>4. ~(r.start < i /\ i <= r.end)
  BY <1>1, <1>2 DEF Spared
<1>5. /\ Len(Pieces(t, s)) = Len(s) /\ Pieces(t, s)[k + 1] = gap \o r.text /\ gap \in Seq(Tokens)
      /\ Len(gap) = r.start - e
  BY <1>1, <1>2, PiecesType, ZenonT(30)
<1>6. built[k + 1] = B \o (gap \o r.text) /\ B \in Seq(Tokens)
  <2>1. k + 1 \in 1 .. Len(Pieces(t, s)) /\ k \in 0 .. Len(Pieces(t, s))
    BY <1>1, <1>2, <1>5
  <2> QED BY <1>1, <1>2, <1>5, <2>1 DEF JoinedBy
<1>7. /\ f[k] \in Int
      /\ e <= i - 1 => f[k] = Len(B) - e
      /\ i <= e => i + f[k] \in 1 .. Len(B) /\ B[i + f[k]] = t[i]
  BY <1>1 DEF Reached
<1>8. k + 1 \in Ahead(s, i) <=> r.end <= i - 1
  BY <1>2 DEF Ahead
<1>9. f[k + 1] = f[k] + IF r.end <= i - 1 THEN Len(r.text) - (r.end - r.start) ELSE 0
  BY <1>1, <1>8 DEF Grows
<1>10. i \in Int /\ 1 <= i /\ i <= Len(t)
  BY <1>1, <1>3
<1> HIDE DEF r, e, B, gap
<1>11. /\ Len(gap \o r.text) = Len(gap) + Len(r.text) /\ gap \o r.text \in Seq(Tokens)
       /\ Len(r.text) \in Nat /\ Len(gap) \in Nat /\ Len(B) \in Nat
  <2>1. Len(gap \o r.text) = Len(gap) + Len(r.text) /\ gap \o r.text \in Seq(Tokens)
    BY <1>3, <1>5, ConcatProperties
  <2> QED BY <1>3, <1>5, <1>6, <2>1
<1>12. f[k + 1] \in Int
  BY <1>3, <1>7, <1>9, <1>11
<1>13. ASSUME r.end <= i - 1
       PROVE  f[k + 1] = Len(built[k + 1]) - r.end
  <2>1. e <= i - 1
    BY <1>3, <1>10, <1>13
  <2>2. f[k + 1] = (Len(B) - e) + (Len(r.text) - (r.end - r.start))
    BY <1>7, <1>9, <1>13, <2>1
  <2>3. Len(built[k + 1]) = Len(B) + Len(gap \o r.text)
    <3> DEFINE piece == gap \o r.text
    <3>1. piece \in Seq(Tokens)
      BY <1>11
    <3>2. built[k + 1] = B \o piece
      BY <1>6
    <3> HIDE DEF piece
    <3>3. Len(B \o piece) = Len(B) + Len(piece)
      BY <1>6, <3>1, ConcatProperties
    <3> QED BY <3>2, <3>3 DEF piece
  <2> DEFINE lb == Len(B)
             lt == Len(r.text)
             lg == Len(gap)
             lp == Len(gap \o r.text)
             a == r.start
             z == r.end
  <2>4. /\ lb \in Nat /\ lt \in Nat /\ lg \in Nat /\ a \in Nat /\ z \in Nat /\ e \in Nat
        /\ lp = lg + lt /\ lg = a - e
    BY <1>3, <1>5, <1>11
  <2>5. f[k + 1] = (lb - e) + (lt - (z - a)) /\ Len(built[k + 1]) = lb + lp
    BY <2>2, <2>3
  <2> HIDE DEF lb, lt, lg, lp, a, z
  <2>6. (lb - e) + (lt - (z - a)) = (lb + lp) - z
    BY <2>4
  <2>7. f[k + 1] = Len(built[k + 1]) - z
    BY <2>5, <2>6
  <2> QED BY <2>7 DEF z
<1>14. ASSUME i <= r.end
       PROVE  i + f[k + 1] \in 1 .. Len(built[k + 1]) /\ built[k + 1][i + f[k + 1]] = t[i]
  <2>1. i <= r.start /\ ~(r.end <= i - 1)
    BY <1>3, <1>4, <1>10, <1>14
  <2>2. f[k + 1] = f[k]
    BY <1>7, <1>9, <2>1
  <2>3. built[k + 1] = (B \o gap) \o r.text
    <3>1. (B \o gap) \o r.text = B \o (gap \o r.text)
      <4> DEFINE x == r.text
      <4>1. B \in Seq(Tokens) /\ gap \in Seq(Tokens) /\ x \in Seq(Tokens)
        BY <1>3, <1>5, <1>6
      <4> HIDE DEF x
      <4>2. (B \o gap) \o x = B \o (gap \o x)
        BY <4>1, ConcatAssociative
      <4> QED BY <4>2 DEF x
    <3> QED BY <1>6, <3>1
  <2>4. B \o gap \in Seq(Tokens)
    BY <1>5, <1>6, ConcatProperties
  <2>5. CASE e <= i - 1
    <3>1. i + (Len(B) - e) \in 1 .. Len(B \o gap) /\ (B \o gap)[i + (Len(B) - e)] = t[i]
      <4> DEFINE a == r.start
      <4>1. /\ a \in Nat /\ a <= Len(t) /\ i \in 1 .. Len(t) /\ e \in Nat /\ i <= a
            /\ t \in Seq(Tokens) /\ B \in Seq(Tokens) /\ gap = SubSeq(t, e + 1, a)
        BY <1>3, <1>6, <1>10, <2>1 DEF gap
      <4> HIDE DEF a
      <4>2. i + (Len(B) - e) \in 1 .. Len(B \o SubSeq(t, e + 1, a))
        BY <2>5, <4>1, FoundBehind
      <4>3. (B \o SubSeq(t, e + 1, a))[i + (Len(B) - e)] = t[i]
        BY <2>5, <4>1, FoundBehind
      <4> QED BY <4>1, <4>2, <4>3
    <3>2. i + f[k + 1] = i + (Len(B) - e)
      BY <1>7, <2>2, <2>5
    <3> DEFINE C == B \o gap
               j == i + (Len(B) - e)
    <3>3. C \in Seq(Tokens) /\ j \in 1 .. Len(C) /\ C[j] = t[i] /\ built[k + 1] = C \o r.text
      BY <2>3, <2>4, <3>1
    <3> HIDE DEF C, j
    <3>4. j \in 1 .. Len(C \o r.text) /\ (C \o r.text)[j] = C[j]
      BY <1>3, <3>3, FoundStill
    <3> QED BY <3>2, <3>3, <3>4 DEF j
  <2>6. CASE i <= e
    <3> DEFINE j == i + f[k]
               piece == gap \o r.text
    <3>1. j \in 1 .. Len(B) /\ B[j] = t[i] /\ i + f[k + 1] = j
      BY <1>7, <2>2, <2>6
    <3>2. piece \in Seq(Tokens) /\ built[k + 1] = B \o piece
      BY <1>6, <1>11
    <3> HIDE DEF j, piece
    <3>3. j \in 1 .. Len(B \o piece) /\ (B \o piece)[j] = B[j]
      BY <1>6, <3>1, <3>2, FoundStill
    <3> QED BY <3>1, <3>2, <3>3
  <2>7. e <= i - 1 \/ i <= e
    BY <1>3, <1>10
  <2> QED BY <2>5, <2>6, <2>7
<1>15. EndBefore(s, (k + 1) + 1) = r.end
  BY <1>3
<1> QED BY <1>12, <1>13, <1>14, <1>15 DEF Reached

\* A spared token is in the new text, where the growth of the splices before
\* it puts it.
LEMMA TokenFound ==
  ASSUME NEW t, NEW s, NEW i
  PROVE  Apart(t, s) /\ i \in 1 .. Len(t) /\ Spared(s, i)
         => /\ Grown(s, Ahead(s, i)) \in Int
            /\ Spliced(t, s)[i + Grown(s, Ahead(s, i))] = t[i]
<1>1. SUFFICES ASSUME Apart(t, s), i \in 1 .. Len(t), Spared(s, i)
               PROVE  /\ Grown(s, Ahead(s, i)) \in Int
                      /\ Spliced(t, s)[i + Grown(s, Ahead(s, i))] = t[i]
  OBVIOUS
<1> DEFINE n == Len(s)
           P == Ahead(s, i)
           f == CHOOSE f : IsGrown(f, s, P, n)
           e == EndBefore(s, n + 1)
           tail == SubSeq(t, e + 1, Len(t))
<1>2. /\ n \in Nat /\ t \in Seq(Tokens) /\ EndBefore(s, 1) = 0 /\ Len(Pieces(t, s)) = n
      /\ Len(t) \in Nat /\ e \in 0 .. Len(t)
  BY <1>1, ApartFacts, PiecesType DEF Apart
<1>3. IsGrown(f, s, P, n)
  BY <1>2, GrownExists
<1>4. Grown(s, P) = f[n]
  BY DEF Grown, IsGrown
<1> HIDE DEF f, P
<1>5. PICK built : JoinedBy(built, Pieces(t, s), Tokens)
  BY <1>1, <1>2, PiecesType, JoinedStepwise
<1>6. Reached(t, s, i, f, built, 0)
  <2>1. f[0] = 0
    BY <1>2, <1>3 DEF IsGrown
  <2>2. built[0] = <<>>
    BY <1>5 DEF JoinedBy
  <2>3. EndBefore(s, 0 + 1) = 0 /\ i >= 1 /\ i \in Int
    BY <1>1, <1>2
  <2> QED BY <2>1, <2>2, <2>3 DEF Reached
<1>7. \A k \in Nat : k + 1 <= n => f[k + 1] = f[k] + IF k + 1 \in P THEN Grows(s[k + 1]) ELSE 0
  <2> SUFFICES ASSUME NEW k \in Nat, k + 1 <= n
               PROVE  f[k + 1] = f[k] + IF k + 1 \in P THEN Grows(s[k + 1]) ELSE 0
    OBVIOUS
  <2>1. k + 1 \in 0 .. n /\ k + 1 # 0 /\ (k + 1) - 1 = k
    BY <1>2
  <2>2. f[k + 1] = f[(k + 1) - 1] + IF k + 1 \in P THEN Grows(s[k + 1]) ELSE 0
    BY <1>3, <2>1 DEF IsGrown
  <2> QED BY <2>1, <2>2
<1> DEFINE Made == {k \in Nat : k <= n => Reached(t, s, i, f, built, k)}
<1>8. 0 \in Made
  BY <1>6
<1>9. ASSUME NEW k \in Nat, k \in Made PROVE k + 1 \in Made
  <2> SUFFICES ASSUME k + 1 <= n PROVE Reached(t, s, i, f, built, k + 1)
    OBVIOUS
  <2>1. Reached(t, s, i, f, built, k)
    BY <1>2, <1>9
  <2>2. f[k + 1] = f[k] + IF k + 1 \in P THEN Grows(s[k + 1]) ELSE 0
    BY <1>7
  <2> HIDE DEF Made
  <2> QED BY <1>1, <1>5, <2>1, <2>2, ReachedNext DEF P
<1> HIDE DEF Made
<1>10. n \in Made
  BY <1>2, <1>8, <1>9, SetInduction
<1>11. Reached(t, s, i, f, built, n)
  BY <1>2, <1>10 DEF Made
<1> DEFINE B == built[n]
<1>12. B \in Seq(Tokens) /\ Spliced(t, s) = B \o tail
  <2>1. n \in 0 .. Len(Pieces(t, s))
    BY <1>2
  <2> QED BY <1>2, <1>5, <2>1 DEF JoinedBy, Spliced
<1>13. /\ f[n] \in Int
       /\ e <= i - 1 => f[n] = Len(B) - e
       /\ i <= e => i + f[n] \in 1 .. Len(B) /\ B[i + f[n]] = t[i]
  BY <1>11 DEF Reached
<1> HIDE DEF n, e, B
<1>14. tail \in Seq(Tokens)
  <2>1. \A j \in e + 1 .. Len(t) : t[j] \in Tokens
    BY <1>2
  <2>2. e + 1 \in Int /\ Len(t) \in Int
    BY <1>2
  <2> QED BY <2>1, <2>2, SubSeqProperties
<1>15. CASE e <= i - 1
  <2>1. i <= Len(t) /\ e \in Nat /\ Len(t) <= Len(t)
    BY <1>1, <1>2
  <2>2. (B \o tail)[i + (Len(B) - e)] = t[i]
    BY <1>1, <1>2, <1>12, <1>15, <2>1, FoundBehind
  <2> QED BY <1>4, <1>12, <1>13, <1>15, <2>2 DEF P
<1>16. CASE i <= e
  <2> DEFINE j == i + f[n]
  <2>1. j \in 1 .. Len(B) /\ B[j] = t[i]
    BY <1>13, <1>16
  <2> HIDE DEF j, tail
  <2>2. (B \o tail)[j] = B[j]
    BY <1>12, <1>14, <2>1, FoundStill
  <2> QED BY <1>4, <1>12, <1>13, <2>1, <2>2 DEF P, j
<1>17. e <= i - 1 \/ i <= e
  BY <1>1, <1>2
<1> QED BY <1>15, <1>16, <1>17

----------------------------------------------------------------------------
(***************************************************************************)
(* The resolved model of a text.                                            *)
(***************************************************************************)

\* A table has what it is made of.
LEMMA TableFacts ==
  ASSUME NEW n \in Nat, NEW f, f = [i \in 1 .. n |-> f[i]]
  PROVE  DOMAIN Table(f) = 1 .. n /\ \A i \in 1 .. n : Table(f)[i] = f[i]
<1> DEFINE S == {f[i] : i \in 1 .. n}
<1>1. DOMAIN f = 1 .. n /\ \A i \in 1 .. n : f[i] \in S
  OBVIOUS
<1> HIDE DEF S
<1>2. f \in Seq(S) /\ Len(f) = n
  BY <1>1
<1>3. SubSeq(f, 1, Len(f)) = f
  BY <1>2, SubSeqFull
<1> QED BY <1>1, <1>3 DEF Table

\* A text as the parser takes it.
Wellformed(t) == t \in Seq(Tokens) /\ Parses(t)

\* The tokens of a text and where they are.
LEMMA TextFacts ==
  ASSUME NEW t \in Seq(Tokens)
  PROVE  /\ Len(t) \in Nat /\ DOMAIN t = 1 .. Len(t)
         /\ Opens(t) \subseteq 1 .. Len(t) /\ Segments(t) \subseteq 1 .. Len(t)
         /\ Heads(t) \subseteq Segments(t)
         /\ \A i \in 1 .. Len(t) :
              /\ t[i] \in Tokens /\ t[i].name \in Spellings /\ t[i].id \in Identities
<1>1. Len(t) \in Nat /\ DOMAIN t = 1 .. Len(t) /\ \A i \in 1 .. Len(t) : t[i] \in Tokens
  OBVIOUS
<1>2. /\ Opens(t) \subseteq 1 .. Len(t) /\ Segments(t) \subseteq 1 .. Len(t)
      /\ Heads(t) \subseteq Segments(t)
  BY <1>1 DEF Opens, Segments, Heads
<1>3. \A x \in Tokens : x.name \in Spellings /\ x.id \in Identities
  BY DEF Tokens
<1>4. \A i \in 1 .. Len(t) : t[i].name \in Spellings /\ t[i].id \in Identities
  BY <1>1, <1>3
<1> QED BY <1>1, <1>2, <1>4

\* A member of a text that parses ends where or after it begins.
LEMMA EndsFacts ==
  ASSUME NEW t, Wellformed(t)
  PROVE  /\ DOMAIN Ends(t) = 1 .. Len(t)
         /\ \A i \in Opens(t) : Ends(t)[i] \in i .. Len(t)
<1>1. /\ t \in Seq(Tokens) /\ Len(t) \in Nat /\ DOMAIN t = 1 .. Len(t) /\ Opens(t) \subseteq 1 .. Len(t)
      /\ \A i \in Opens(t) : \E j \in i .. Len(t) : EndsAt(t, i, j)
  BY TextFacts DEF Wellformed, Parses
<1>2. \A i \in Opens(t) : EndOf(t, i) \in i .. Len(t)
  BY <1>1 DEF EndOf
<1> DEFINE f == [i \in DOMAIN t |-> IF i \in Opens(t) THEN EndOf(t, i) ELSE 0]
<1>3. Ends(t) = Table(f)
  BY DEF Ends
<1>4. /\ f = [i \in 1 .. Len(t) |-> f[i]]
      /\ \A i \in Opens(t) : f[i] = EndOf(t, i)
  BY <1>1
<1> HIDE DEF f
<1>5. DOMAIN Table(f) = 1 .. Len(t) /\ \A i \in 1 .. Len(t) : Table(f)[i] = f[i]
  BY <1>1, <1>4, TableFacts
<1> QED BY <1>1, <1>2, <1>3, <1>4, <1>5

\* What a token is in begins before it.
LEMMA OwnersFacts ==
  ASSUME NEW n \in Nat, NEW end, DOMAIN end = 1 .. n
  PROVE  /\ DOMAIN Owners(Arounds(end)) = 1 .. n
         /\ \A i \in 1 .. n : Owners(Arounds(end))[i] \in 0 .. i - 1
<1> DEFINE f == [i \in DOMAIN end |-> {0} \cup {j \in 1 .. i - 1 : i <= end[j]}]
           g == [i \in DOMAIN Arounds(end) |-> Max(Arounds(end)[i])]
<1>1. f = [i \in 1 .. n |-> f[i]]
  OBVIOUS
<1>2. \A i \in 1 .. n : f[i] \subseteq 0 .. i - 1 /\ f[i] # {}
  OBVIOUS
<1>3. Arounds(end) = Table(f)
  BY DEF Arounds
<1> HIDE DEF f
<1>4. DOMAIN Arounds(end) = 1 .. n /\ \A i \in 1 .. n : Arounds(end)[i] = f[i]
  BY <1>1, <1>3, TableFacts
<1>5. ASSUME NEW i \in 1 .. n PROVE Max(f[i]) \in 0 .. i - 1
  <2> DEFINE U == f[i]
  <2>1. i - 1 \in Nat /\ U \subseteq 0 .. i - 1 /\ U # {}
    BY <1>2
  <2> HIDE DEF U
  <2>2. \E x \in U : \A y \in U : x >= y
    BY <2>1, Greatest
  <2>3. Max(U) \in U
    BY <2>2 DEF Max
  <2> QED BY <2>1, <2>3 DEF U
<1>6. g = [i \in 1 .. n |-> g[i]] /\ \A i \in 1 .. n : g[i] \in 0 .. i - 1
  BY <1>4, <1>5
<1>7. Owners(Arounds(end)) = Table(g)
  BY DEF Owners
<1> HIDE DEF g
<1> QED BY <1>6, <1>7, TableFacts

\* The qualified names of the first k.
IsNamed(f, t, owner, n) ==
  f = [i \in 0 .. n |-> IF i = 0 THEN <<>> ELSE Append(f[owner[i]], t[i].name)]

\* There is such a function where every owner comes before its members.
LEMMA NamedExists ==
  ASSUME NEW t, NEW owner, NEW m \in Nat, \A i \in 1 .. m : owner[i] \in 0 .. i - 1
  PROVE  \A n \in Nat : n <= m => \E f : IsNamed(f, t, owner, n)
<1> DEFINE Made == {k \in Nat : k <= m => \E f : IsNamed(f, t, owner, k)}
<1>1. 0 \in Made
  <2>1. IsNamed([i \in 0 .. 0 |-> <<>>], t, owner, 0)
    BY DEF IsNamed
  <2> QED BY <2>1
<1>2. ASSUME NEW k \in Nat, k \in Made PROVE k + 1 \in Made
  <2> SUFFICES ASSUME k + 1 <= m PROVE \E f : IsNamed(f, t, owner, k + 1)
    OBVIOUS
  <2>1. PICK f : IsNamed(f, t, owner, k)
    BY <1>2
  <2> DEFINE next == Append(f[owner[k + 1]], t[k + 1].name)
             g == [i \in 0 .. (k + 1) |-> IF i = k + 1 THEN next ELSE f[i]]
  <2>2. \A i \in 0 .. k : g[i] = f[i]
    OBVIOUS
  <2>3. owner[k + 1] \in 0 .. k /\ \A i \in 1 .. k : owner[i] \in 0 .. k
    <3>1. k + 1 \in 1 .. m /\ (k + 1) - 1 = k
      OBVIOUS
    <3>2. \A i \in 1 .. k : i \in 1 .. m /\ \A j \in 0 .. i - 1 : j \in 0 .. k
      OBVIOUS
    <3> QED BY <3>1, <3>2
  <2>4. g[k + 1] = Append(g[owner[k + 1]], t[k + 1].name)
    <3>1. g[k + 1] = next /\ g[owner[k + 1]] = f[owner[k + 1]]
      BY <2>2, <2>3
    <3> HIDE DEF g
    <3> QED BY <3>1
  <2>5. ASSUME NEW i \in 1 .. k PROVE g[i] = Append(g[owner[i]], t[i].name)
    <3>1. i \in 0 .. k /\ i # 0
      OBVIOUS
    <3>2. f[i] = Append(f[owner[i]], t[i].name)
      BY <2>1, <3>1 DEF IsNamed
    <3>3. g[i] = f[i] /\ g[owner[i]] = f[owner[i]]
      BY <2>2, <2>3, <3>1
    <3> HIDE DEF g
    <3> QED BY <3>2, <3>3
  <2>6. g[0] = <<>>
    BY <2>1, <2>2 DEF IsNamed
  <2> HIDE DEF next
  <2>7. g = [i \in 0 .. (k + 1) |-> g[i]]
    OBVIOUS
  <2> HIDE DEF g
  <2>8. ASSUME NEW i \in 0 .. (k + 1)
        PROVE  g[i] = IF i = 0 THEN <<>> ELSE Append(g[owner[i]], t[i].name)
    <3>1. CASE i = 0
      BY <2>6, <3>1
    <3>2. CASE i \in 1 .. k
      <4>1. i # 0
        BY <3>2
      <4> QED BY <2>5, <3>2, <4>1
    <3>3. CASE i = k + 1
      <4>1. i # 0
        BY <3>3
      <4> QED BY <2>4, <3>3, <4>1
    <3>4. i = 0 \/ i \in 1 .. k \/ i = k + 1
      OBVIOUS
    <3> QED BY <3>1, <3>2, <3>3, <3>4
  <2>9. IsNamed(g, t, owner, k + 1)
    BY <2>7, <2>8 DEF IsNamed
  <2> QED BY <2>9
<1> HIDE DEF Made
<1>3. \A k \in Nat : k \in Made
  BY <1>1, <1>2, SetInduction
<1> QED BY <1>3 DEF Made

\* Qualified names are spelled with names of the text, at least one.
LEMMA NamesFacts ==
  ASSUME NEW t \in Seq(Tokens), NEW owner, \A i \in 1 .. Len(t) : owner[i] \in 0 .. i - 1
  PROVE  /\ DOMAIN QualifiedNames(t, owner) = 1 .. Len(t)
         /\ \A i \in 1 .. Len(t) : QualifiedNames(t, owner)[i] \in Seq(Spellings)
         /\ \A i \in Opens(t) : QualifiedNames(t, owner)[i] # <<>>
<1> DEFINE m == Len(t)
           f == CHOOSE f : IsNamed(f, t, owner, m)
           g == [i \in DOMAIN t |-> IF i \in Opens(t) THEN f[i] ELSE <<>>]
<1>1. /\ m \in Nat /\ DOMAIN t = 1 .. m /\ Opens(t) \subseteq 1 .. m
      /\ \A i \in 1 .. m : t[i].name \in Spellings
  BY TextFacts
<1>2. IsNamed(f, t, owner, m)
  <2>1. m \in Nat /\ m <= m /\ \A i \in 1 .. m : owner[i] \in 0 .. i - 1
    BY <1>1
  <2> HIDE DEF m
  <2>2. \A n \in Nat : n <= m => \E h : IsNamed(h, t, owner, n)
    BY <2>1, NamedExists
  <2>3. \E h : IsNamed(h, t, owner, m)
    BY <2>1, <2>2
  <2> QED BY <2>3
<1>3. QualifiedNames(t, owner) = Table(g)
  BY DEF QualifiedNames, IsNamed
<1>4. g = [i \in 1 .. m |-> g[i]] /\ \A i \in 1 .. m : g[i] = IF i \in Opens(t) THEN f[i] ELSE <<>>
  BY <1>1
<1> HIDE DEF g, f, m
<1>5. DOMAIN Table(g) = 1 .. m /\ \A i \in 1 .. m : Table(g)[i] = g[i]
  BY <1>1, <1>4, TableFacts
<1> DEFINE Good == {k \in Nat : \A i \in 0 .. k : i <= m => f[i] \in Seq(Spellings) /\ (i # 0 => f[i] # <<>>)}
<1>6. f[0] = <<>> /\ \A i \in 1 .. m : f[i] = Append(f[owner[i]], t[i].name)
  <2>1. 0 \in 0 .. m /\ \A i \in 1 .. m : i \in 0 .. m /\ i # 0
    BY <1>1
  <2> QED BY <1>2, <2>1 DEF IsNamed
<1>7. 0 \in Good
  <2>1. <<>> \in Seq(Spellings)
    OBVIOUS
  <2>2. \A i \in 0 .. 0 : i = 0
    OBVIOUS
  <2> QED BY <1>6, <2>1, <2>2
<1>8. ASSUME NEW k \in Nat, k \in Good PROVE k + 1 \in Good
  <2> SUFFICES ASSUME k + 1 <= m
               PROVE  f[k + 1] \in Seq(Spellings) /\ f[k + 1] # <<>>
    <3>1. \A i \in 0 .. (k + 1) : i \in 0 .. k \/ (i = k + 1 /\ i # 0)
      OBVIOUS
    <3> QED BY <1>8, <3>1
  <2>1. k + 1 \in 1 .. m /\ (k + 1) - 1 = k
    BY <1>1
  <2>2. owner[k + 1] \in 0 .. k
    <3>1. owner[k + 1] \in 0 .. (k + 1) - 1
      BY <2>1 DEF m
    <3> QED BY <2>1, <3>1
  <2>3. owner[k + 1] <= m
    BY <1>1, <2>1, <2>2
  <2>4. f[owner[k + 1]] \in Seq(Spellings)
    BY <1>8, <2>2, <2>3
  <2>5. f[k + 1] = Append(f[owner[k + 1]], t[k + 1].name) /\ t[k + 1].name \in Spellings
    BY <1>1, <1>6, <2>1
  <2> DEFINE q == f[owner[k + 1]]
             x == t[k + 1].name
  <2> HIDE DEF q, x
  <2>6. q \in Seq(Spellings) /\ x \in Spellings /\ f[k + 1] = Append(q, x)
    BY <2>4, <2>5 DEF q, x
  <2>7. Append(q, x) \in Seq(Spellings) /\ Append(q, x) # <<>>
    BY <2>6, AppendProperties
  <2> QED BY <2>6, <2>7
<1> HIDE DEF Good
<1>9. m \in Good
  BY <1>1, <1>7, <1>8, SetInduction
<1>10. \A i \in 1 .. m : f[i] \in Seq(Spellings) /\ f[i] # <<>>
  BY <1>1, <1>9 DEF Good
<1>11. <<>> \in Seq(Spellings)
  OBVIOUS
<1> QED BY <1>1, <1>3, <1>4, <1>5, <1>10, <1>11 DEF m

\* What planning reads of the model.
ModelFits(t, m) ==
  /\ DOMAIN m.target = 1 .. Len(t)
  /\ \A i \in Opens(t) : m.end[i] \in i .. Len(t)
  /\ \A i \in 1 .. Len(t) : m.owner[i] \in 0 .. Len(t) /\ m.qn[i] \in Seq(Spellings)
  /\ \A i \in Opens(t) : m.qn[i] # <<>>

\* The model of a text that parses has it.
LEMMA ModelFacts ==
  ASSUME NEW t, Wellformed(t)
  PROVE  ModelFits(t, Model(t))
<1> DEFINE end == Ends(t)
           around == Arounds(end)
           owner == Owners(around)
<1>1. t \in Seq(Tokens) /\ Len(t) \in Nat /\ DOMAIN t = 1 .. Len(t) /\ Opens(t) \subseteq 1 .. Len(t)
  BY TextFacts DEF Wellformed
<1>2. DOMAIN end = 1 .. Len(t) /\ \A i \in Opens(t) : end[i] \in i .. Len(t)
  BY EndsFacts
<1>3. \A i \in 1 .. Len(t) : owner[i] \in 0 .. i - 1
  <2> HIDE DEF end
  <2> QED BY <1>1, <1>2, OwnersFacts
<1> HIDE DEF end, around, owner
<1>4. /\ \A i \in 1 .. Len(t) : QualifiedNames(t, owner)[i] \in Seq(Spellings)
      /\ \A i \in Opens(t) : QualifiedNames(t, owner)[i] # <<>>
  BY <1>1, <1>3, NamesFacts
<1> DEFINE f == [i \in DOMAIN t |-> Targets(t, around, owner)[i]]
<1>5. DOMAIN Table(f) = 1 .. Len(t)
  <2>1. f = [i \in 1 .. Len(t) |-> f[i]]
    BY <1>1
  <2> HIDE DEF f
  <2> QED BY <1>1, <2>1, TableFacts
<1>6. /\ Model(t).end = end /\ Model(t).owner = owner
      /\ Model(t).target = Table(f) /\ Model(t).qn = QualifiedNames(t, owner)
  BY DEF Model, end, around, owner
<1>7. \A i \in 1 .. Len(t) : owner[i] \in 0 .. Len(t)
  BY <1>1, <1>3
<1> QED BY <1>2, <1>4, <1>5, <1>6, <1>7 DEF ModelFits

----------------------------------------------------------------------------
(***************************************************************************)
(* Plans.                                                                   *)
(***************************************************************************)
ElementsOf(t) == {t[i].id : i \in Opens(t)}
ReferencesOf(t) == {t[i].id : i \in Heads(t)}

\* The operations a host may stage on a text.
Orders(t) ==
       [op : {"rename", "replace"}, of : ElementsOf(t), name : Names]
  \cup [op : {"remove"}, of : ElementsOf(t)]
  \cup [op : {"move"}, of : ElementsOf(t), to : ElementsOf(t), slot : {"first", "end"}]
  \cup [op : {"insert"}, id : Fresh,
          to : ElementsOf(t) \cup {Root}, name : Names, slot : {"first", "end"}]
  \cup [op : {"retarget"}, of : ReferencesOf(t), to : ElementsOf(t)]

\* A plan has splices of the text, and is refused for a reason, never for
\* being done.
IsPlan(t, p) ==
  /\ DOMAIN p = {"splices", "mapped", "consumed", "carried", "refused"}
  /\ p.splices \in Seq(SplicesOf(t))
  /\ p.refused \in {"no", "name taken", "breaks references", "into own subtree"}

\* A splice of a text.
LEMMA SpliceFits ==
  ASSUME NEW t \in Seq(Tokens), NEW a \in Int, NEW b \in Int, 0 <= a, a <= b, b <= Len(t),
         NEW new \in Seq(Tokens), NEW ex \in SUBSET Expectations
  PROVE  Splice(a, b, new, ex) \in SplicesOf(t)
<1>1. Len(t) \in Nat /\ a \in 0 .. Len(t) /\ b \in 0 .. Len(t)
  OBVIOUS
<1> QED BY <1>1 DEF Splice, SplicesOf

\* What planning does to a plan leaves one.
LEMMA PlanSteps ==
  ASSUME NEW t, NEW p, IsPlan(t, p)
  PROVE  /\ \A a, b : IsPlan(t, Consume(p, a, b))
         /\ \A a, b : IsPlan(t, MapName(p, a, b))
         /\ \A x \in SplicesOf(t) : IsPlan(t, [p EXCEPT !.splices = Append(@, x)])
         /\ \A q \in Seq(SplicesOf(t)) : IsPlan(t, [p EXCEPT !.splices = @ \o q])
         /\ \A x, c : x \in SplicesOf(t)
                      => IsPlan(t, [p EXCEPT !.splices = Append(@, x), !.carried = c])
<1> DEFINE F == {"splices", "mapped", "consumed", "carried", "refused"}
           S == SplicesOf(t)
           R == {"no", "name taken", "breaks references", "into own subtree"}
<1>1. DOMAIN p = F /\ p.splices \in Seq(S) /\ p.refused \in R
  BY DEF IsPlan
<1>2. \A q : DOMAIN q = F /\ q.splices \in Seq(S) /\ q.refused \in R => IsPlan(t, q)
  BY DEF IsPlan
<1> HIDE DEF S, R
<1>3. \A a, b : IsPlan(t, Consume(p, a, b))
  BY <1>1, <1>2 DEF Consume
<1>4. \A a, b : IsPlan(t, MapName(p, a, b))
  BY <1>1, <1>2 DEF MapName
<1>5. \A x \in S : Append(p.splices, x) \in Seq(S)
  BY <1>1
<1>6. \A q \in Seq(S) : p.splices \o q \in Seq(S)
  BY <1>1
<1>7. \A x \in S : IsPlan(t, [p EXCEPT !.splices = Append(@, x)])
  BY <1>1, <1>2, <1>5
<1>8. \A q \in Seq(S) : IsPlan(t, [p EXCEPT !.splices = @ \o q])
  <2>1. \A c \in Seq(S) : IsPlan(t, [p EXCEPT !.splices = c])
    BY <1>1, <1>2
  <2> QED BY <1>6, <2>1
<1>9. \A x, c : x \in S => IsPlan(t, [p EXCEPT !.splices = Append(@, x), !.carried = c])
  BY <1>1, <1>2, <1>5
<1> QED BY <1>3, <1>4, <1>7, <1>8, <1>9 DEF S

\* So does refusing it.
LEMMA RefuseFits ==
  ASSUME NEW t, NEW p, IsPlan(t, p), NEW why \in {"name taken", "breaks references", "into own subtree"}
  PROVE  IsPlan(t, Refuse(p, why))
BY DEF IsPlan, Refuse

\* So does a splice of the text.
LEMMA PutFits ==
  ASSUME NEW t \in Seq(Tokens), NEW p, IsPlan(t, p),
         NEW a \in Int, NEW b \in Int, 0 <= a, a <= b, b <= Len(t),
         NEW new \in Seq(Tokens), NEW ex \in SUBSET Expectations
  PROVE  IsPlan(t, Put(p, a, b, new, ex))
<1>1. Splice(a, b, new, ex) \in SplicesOf(t)
  BY SpliceFits
<1> QED BY <1>1, PlanSteps DEF Put

\* Tokens that are written.
LEMMA WrittenTokens ==
  /\ \A e \in Identities, n \in Spellings : Open(e, n) \in Tokens
  /\ Close \in Tokens /\ Semi \in Tokens
  /\ \A r \in Identities, n \in Spellings, h \in BOOLEAN : Segment(r, n, h) \in Tokens
  /\ Names \subseteq Spellings /\ Fresh \subseteq Identities
<1>1. Nothing \in Identities /\ "" \in Spellings
  BY DEF Identities, Spellings
<1>2. Names \subseteq Spellings /\ Fresh \subseteq Identities
  BY Zenon DEF Identities, Spellings
<1> QED BY <1>1, <1>2 DEF Open, Close, Semi, Segment, Token, Tokens

\* Respelling a site.
LEMMA RespellFits ==
  ASSUME NEW t \in Seq(Tokens), NEW p, IsPlan(t, p), NEW sites,
         NEW new \in Seq(Spellings), new # <<>>
  PROVE  IsPlan(t, Respell(p, t, sites, new))
<1> DEFINE inText == Only(Upto(Len(t)), sites)
           q == [k \in DOMAIN inText |-> Respelled(t, inText[k], new)]
<1>1. Len(t) \in Nat /\ DOMAIN t = 1 .. Len(t)
  OBVIOUS
<1>2. inText \in Seq(1 .. Len(t))
  BY <1>1, UptoType, OnlyType
<1>3. new[Len(new)] \in Spellings
  OBVIOUS
<1>4. ASSUME NEW i \in 1 .. Len(t) PROVE Respelled(t, i, new) \in SplicesOf(t)
  <2> DEFINE x == [t[i] EXCEPT !.name = new[Len(new)]]
             ex == {[at |-> 0, qn |-> new, newLeaf |-> TRUE]}
  <2>1. x \in Tokens
    <3>1. t[i] \in Tokens
      OBVIOUS
    <3> QED BY <1>3, <3>1 DEF Tokens
  <2>2. ex \in SUBSET Expectations
    BY DEF Expectations
  <2> HIDE DEF x, ex
  <2>3. <<x>> \in Seq(Tokens)
    BY <2>1
  <2>4. i - 1 \in Int /\ i \in Int /\ 0 <= i - 1 /\ i - 1 <= i /\ i <= Len(t)
    BY <1>1
  <2>5. Splice(i - 1, i, <<x>>, ex) \in SplicesOf(t)
    BY <2>2, <2>3, <2>4, SpliceFits
  <2> QED BY <2>5 DEF Respelled, x, ex
<1> HIDE DEF inText
<1>5. q \in Seq(SplicesOf(t))
  <2>1. DOMAIN inText = 1 .. Len(inText) /\ Len(inText) \in Nat
    BY <1>2
  <2>2. \A k \in 1 .. Len(inText) : Respelled(t, inText[k], new) \in SplicesOf(t)
    BY <1>2, <1>4
  <2> QED BY <2>1, <2>2
<1>6. Respell(p, t, sites, new) = [p EXCEPT !.splices = @ \o q]
  BY DEF Respell, inText
<1> HIDE DEF q
<1>7. \A c \in Seq(SplicesOf(t)) : IsPlan(t, [p EXCEPT !.splices = @ \o c])
  BY PlanSteps
<1>8. IsPlan(t, [p EXCEPT !.splices = @ \o q])
  BY <1>5, <1>7
<1> QED BY <1>6, <1>8

\* A place for a member.
LEMMA PlaceFits ==
  ASSUME NEW t \in Seq(Tokens), NEW m, ModelFits(t, m), NEW scope,
         scope = 0 \/ scope \in Opens(t), NEW siblings, siblings \subseteq Opens(t),
         NEW slot, NEW new \in Seq(Tokens)
  PROVE  Place(t, m, scope, siblings, slot, new) \in SplicesOf(t)
<1>1. /\ Len(t) \in Nat /\ Opens(t) \subseteq 1 .. Len(t)
      /\ {} \in SUBSET Expectations
  BY TextFacts
<1>2. CASE slot = "first" /\ siblings # {}
  <2> DEFINE at == Min(siblings) - 1
  <2>1. siblings \subseteq Nat
    BY <1>1
  <2>2. \E x \in siblings : \A y \in siblings : x <= y
    BY <1>2, <2>1, Least
  <2>3. Min(siblings) \in siblings
    BY <2>2 DEF Min
  <2>4. at \in Int /\ 0 <= at /\ at <= at /\ at <= Len(t)
    BY <1>1, <2>3
  <2> HIDE DEF at
  <2>5. Splice(at, at, new, {}) \in SplicesOf(t)
    BY <1>1, <2>4, SpliceFits
  <2> QED BY <1>2, <2>5 DEF Place, at
<1>3. CASE ~(slot = "first" /\ siblings # {}) /\ scope = 0
  <2>1. Splice(Len(t), Len(t), new, {}) \in SplicesOf(t)
    BY <1>1, SpliceFits
  <2> QED BY <1>3, <2>1 DEF Place
<1>4. CASE ~(slot = "first" /\ siblings # {}) /\ scope \in Opens(t)
  <2> DEFINE last == m.end[scope] - 1
  <2>1. scope # 0 /\ scope \in 1 .. Len(t)
    BY <1>1, <1>4
  <2>2. m.end[scope] \in scope .. Len(t)
    BY <1>4 DEF ModelFits
  <2>3. /\ last \in Int /\ last + 1 \in Int /\ 0 <= last /\ last <= last /\ last <= Len(t)
        /\ last <= last + 1 /\ last + 1 <= Len(t)
    BY <1>1, <2>1, <2>2
  <2> HIDE DEF last
  <2>4. Append(new, Close) \in Seq(Tokens)
    BY WrittenTokens, AppendProperties
  <2>5. Splice(last, last, new, {}) \in SplicesOf(t)
    BY <1>1, <2>3, SpliceFits
  <2>6. Splice(last, last + 1, Append(new, Close), {}) \in SplicesOf(t)
    BY <1>1, <2>3, <2>4, SpliceFits
  <2> QED BY <1>4, <2>1, <2>5, <2>6 DEF Place, last
<1> QED BY <1>2, <1>3, <1>4

\* An element is where At says.
LEMMA AtFacts ==
  ASSUME NEW t \in Seq(Tokens), NEW e \in ElementsOf(t)
  PROVE  At(t, e) \in Opens(t) /\ e \in Identities
<1>1. PICK i \in Opens(t) : t[i].id = e
  BY DEF ElementsOf
<1>2. At(t, e) \in Opens(t)
  BY <1>1 DEF At
<1>3. e \in Identities
  BY <1>1, TextFacts
<1> QED BY <1>2, <1>3

\* A qualified name in a scope.
LEMMA NameInFacts ==
  ASSUME NEW t \in Seq(Tokens), NEW m, ModelFits(t, m), NEW scope \in 0 .. Len(t),
         NEW n \in Spellings
  PROVE  NameIn(m, scope, n) \in Seq(Spellings) /\ NameIn(m, scope, n) # <<>>
<1> DEFINE q == IF scope = 0 THEN <<>> ELSE m.qn[scope]
<1>1. q \in Seq(Spellings)
  <2>1. CASE scope = 0
    BY <2>1
  <2>2. CASE scope # 0
    <3>1. Len(t) \in Nat
      OBVIOUS
    <3>2. scope \in 1 .. Len(t)
      BY <2>2, <3>1
    <3> QED BY <2>2, <3>2 DEF ModelFits
  <2> QED BY <2>1, <2>2
<1> HIDE DEF q
<1>2. Append(q, n) \in Seq(Spellings) /\ Append(q, n) # <<>>
  BY <1>1, AppendProperties
<1> QED BY <1>2 DEF NameIn, q

\* One token.
LEMMA OneToken == ASSUME NEW x \in Tokens PROVE <<x>> \in Seq(Tokens)
OBVIOUS

\* plan_rename plans splices of the text.
LEMMA RenameFits ==
  ASSUME NEW t \in Seq(Tokens), NEW m, ModelFits(t, m), NEW p, IsPlan(t, p),
         NEW op, op.of \in ElementsOf(t), op.name \in Names
  PROVE  IsPlan(t, PlanRename(p, t, m, op))
<1> DEFINE i   == At(t, op.of)
           new == NameIn(m, m.owner[i], op.name)
           q   == MapName(p, m.qn[i], new)
           x   == Open(op.of, op.name)
<1>1. Len(t) \in Nat /\ Opens(t) \subseteq 1 .. Len(t) /\ op.name \in Spellings
  BY TextFacts, WrittenTokens
<1>2. i \in Opens(t) /\ op.of \in Identities
  BY AtFacts
<1> HIDE DEF i
<1>3. i \in 1 .. Len(t) /\ i - 1 \in Int /\ i \in Int /\ 0 <= i - 1 /\ i - 1 <= i /\ i <= Len(t)
  BY <1>1, <1>2
<1>4. new \in Seq(Spellings) /\ new # <<>>
  <2>1. m.owner[i] \in 0 .. Len(t)
    BY <1>3 DEF ModelFits
  <2> QED BY <1>1, <2>1, NameInFacts
<1>5. IsPlan(t, q)
  BY PlanSteps
<1>6. <<x>> \in Seq(Tokens)
  BY <1>1, <1>2, WrittenTokens, OneToken
<1>7. {} \in SUBSET Expectations
  OBVIOUS
<1>8. PlanRename(p, t, m, op) = Respell(Put(q, i - 1, i, <<x>>, {}), t, SpelledAs(t, m, i), new)
  BY DEF PlanRename, i
<1> HIDE DEF q, x, new
<1> DEFINE r == Put(q, i - 1, i, <<x>>, {})
<1>9. IsPlan(t, r)
  BY <1>3, <1>5, <1>6, <1>7, PutFits
<1> HIDE DEF r
<1>10. IsPlan(t, Respell(r, t, SpelledAs(t, m, i), new))
  BY <1>4, <1>9, RespellFits
<1> QED BY <1>8, <1>10 DEF r

\* The extent of a member is text.
LEMMA ExtentFacts ==
  ASSUME NEW t \in Seq(Tokens), NEW m, ModelFits(t, m), NEW i \in Opens(t)
  PROVE  /\ Extent(m, i).start \in Int /\ Extent(m, i).end \in Int
         /\ 0 <= Extent(m, i).start /\ Extent(m, i).start <= Extent(m, i).end
         /\ Extent(m, i).end <= Len(t)
<1>1. Len(t) \in Nat /\ i \in 1 .. Len(t) /\ m.end[i] \in i .. Len(t)
  BY TextFacts DEF ModelFits
<1> QED BY <1>1 DEF Extent

\* So does plan_remove, or it refuses.
LEMMA RemoveFits ==
  ASSUME NEW t \in Seq(Tokens), NEW m, ModelFits(t, m), NEW p, IsPlan(t, p),
         NEW op, op.of \in ElementsOf(t)
  PROVE  IsPlan(t, PlanRemove(p, t, m, op))
<1> DEFINE cut == Extent(m, At(t, op.of))
           q == Consume(p, cut.start, cut.end)
<1>1. /\ cut.start \in Int /\ cut.end \in Int /\ 0 <= cut.start /\ cut.start <= cut.end
      /\ cut.end <= Len(t)
  BY AtFacts, ExtentFacts
<1>2. IsPlan(t, q)
  BY PlanSteps
<1>3. <<>> \in Seq(Tokens) /\ {} \in SUBSET Expectations
  OBVIOUS
<1> HIDE DEF q, cut
<1>4. IsPlan(t, Put(q, cut.start, cut.end, <<>>, {}))
  BY <1>1, <1>2, <1>3, PutFits
<1>5. IsPlan(t, Refuse(p, "breaks references"))
  BY RefuseFits
<1>6. \/ PlanRemove(p, t, m, op) = Refuse(p, "breaks references")
      \/ PlanRemove(p, t, m, op) = Put(q, cut.start, cut.end, <<>>, {})
  BY DEF PlanRemove, q, cut
<1> QED BY <1>4, <1>5, <1>6

\* So does plan_insert.
LEMMA InsertFits ==
  ASSUME NEW t \in Seq(Tokens), NEW m, ModelFits(t, m), NEW p, IsPlan(t, p),
         NEW op, op.to \in ElementsOf(t) \cup {Root}, op.id \in Fresh, op.name \in Names
  PROVE  IsPlan(t, PlanInsert(p, t, m, op))
<1> DEFINE scope == IF op.to = Root THEN 0 ELSE At(t, op.to)
           x == Open(op.id, op.name)
           new == <<x, Semi>>
           put == Place(t, m, scope, Members(t, m, scope), op.slot, new)
<1>1. scope = 0 \/ scope \in Opens(t)
  BY AtFacts
<1>2. new \in Seq(Tokens)
  <2>1. x \in Tokens /\ Semi \in Tokens
    BY WrittenTokens
  <2> HIDE DEF x
  <2> QED BY <2>1
<1> HIDE DEF scope, new
<1>3. Members(t, m, scope) \subseteq Opens(t)
  BY DEF Members
<1>4. put \in SplicesOf(t)
  BY <1>1, <1>2, <1>3, PlaceFits
<1>5. PlanInsert(p, t, m, op) = [p EXCEPT !.splices = Append(@, put)]
  BY DEF PlanInsert, scope, new
<1> HIDE DEF put
<1>6. \A y \in SplicesOf(t) : IsPlan(t, [p EXCEPT !.splices = Append(@, y)])
  BY PlanSteps
<1> QED BY <1>4, <1>5, <1>6

\* So does plan_move, or it refuses.
LEMMA MoveFits ==
  ASSUME NEW t \in Seq(Tokens), NEW m, ModelFits(t, m), NEW p, IsPlan(t, p),
         NEW op, op.of \in ElementsOf(t), op.to \in ElementsOf(t)
  PROVE  IsPlan(t, PlanMove(p, t, m, op))
<1> DEFINE i     == At(t, op.of)
           to    == At(t, op.to)
           cut   == Extent(m, i)
           body  == SubSeq(t, cut.start + 1, cut.end)
           put   == Place(t, m, to, Members(t, m, to) \ {i}, op.slot, body)
           sites == {j \in Sites(m) : Within(j, cut)}
           new   == NameIn(m, to, t[i].name)
           q     == IF new = m.qn[i] THEN p ELSE MapName(p, m.qn[i], new)
           c     == Consume(q, cut.start, cut.end)
           r     == Put(c, cut.start, cut.end, <<>>, {})
           carried == IF sites = {} THEN r.carried
                      ELSE Append(r.carried, [at |-> put.start, text |-> put.text,
                             sites |-> {[at |-> j - i, qn |-> m.qn[m.target[j]]] : j \in sites}])
<1>1. i \in Opens(t) /\ to \in Opens(t)
  BY AtFacts
<1> HIDE DEF i, to
<1>2. /\ cut.start \in Int /\ cut.end \in Int /\ 0 <= cut.start /\ cut.start <= cut.end
      /\ cut.end <= Len(t)
  BY <1>1, ExtentFacts
<1>3. /\ PlanMove(p, t, m, op) = IF to = i \/ i \in m.around[to] THEN Refuse(p, "into own subtree")
                              ELSE [r EXCEPT !.splices = Append(@, put), !.carried = carried]
  BY DEF PlanMove, i, to
<1> HIDE DEF cut, carried
<1>4. body \in Seq(Tokens)
  <2>1. Len(t) \in Nat
    OBVIOUS
  <2>2. \A k \in cut.start + 1 .. cut.end : t[k] \in Tokens
    BY <1>2, <2>1
  <2>3. cut.start + 1 \in Int
    BY <1>2
  <2> QED BY <1>2, <2>2, <2>3, SubSeqProperties
<1> HIDE DEF body
<1>5. Members(t, m, to) \ {i} \subseteq Opens(t)
  BY DEF Members
<1>6. put \in SplicesOf(t)
  BY <1>1, <1>4, <1>5, PlaceFits
<1>7. IsPlan(t, q)
  <2>1. IsPlan(t, MapName(p, m.qn[i], new))
    BY PlanSteps
  <2> QED BY <2>1
<1> HIDE DEF q
<1>8. IsPlan(t, c)
  BY <1>7, PlanSteps
<1>9. <<>> \in Seq(Tokens) /\ {} \in SUBSET Expectations
  OBVIOUS
<1> HIDE DEF c
<1>10. IsPlan(t, r)
  BY <1>2, <1>8, <1>9, PutFits
<1> HIDE DEF r, put
<1>11. \A y, d : y \in SplicesOf(t)
                 => IsPlan(t, [r EXCEPT !.splices = Append(@, y), !.carried = d])
  BY <1>10, PlanSteps
<1>12. IsPlan(t, [r EXCEPT !.splices = Append(@, put), !.carried = carried])
  BY <1>6, <1>11
<1>13. IsPlan(t, Refuse(p, "into own subtree"))
  BY RefuseFits
<1> QED BY <1>3, <1>12, <1>13

\* So does plan_replace.
LEMMA ReplaceFits ==
  ASSUME NEW t \in Seq(Tokens), NEW m, ModelFits(t, m), NEW p, IsPlan(t, p),
         NEW op, op.of \in ElementsOf(t), op.name \in Names
  PROVE  IsPlan(t, PlanReplace(p, t, m, op))
<1> DEFINE i   == At(t, op.of)
           cut == Extent(m, i)
           c   == Consume(p, cut.start, cut.end)
           x   == Open(op.of, op.name)
           w   == <<x, Semi>>
           q   == Put(c, cut.start, cut.end, w, {})
           new == NameIn(m, m.owner[i], op.name)
           sites == {j \in SpelledAs(t, m, i) : ~Speaks(q, j)}
<1>1. Len(t) \in Nat /\ Opens(t) \subseteq 1 .. Len(t) /\ op.name \in Spellings
  BY TextFacts, WrittenTokens
<1>2. i \in Opens(t) /\ op.of \in Identities
  BY AtFacts
<1>3. w \in Seq(Tokens)
  <2>1. x \in Tokens /\ Semi \in Tokens
    BY <1>1, <1>2, WrittenTokens
  <2> HIDE DEF x
  <2> QED BY <2>1
<1>4. PlanReplace(p, t, m, op) = IF op.name = t[i].name THEN q
                                 ELSE Respell(MapName(q, m.qn[i], new), t, sites, new)
  BY DEF PlanReplace
<1> HIDE DEF i, x, w, sites
<1>5. /\ cut.start \in Int /\ cut.end \in Int /\ 0 <= cut.start /\ cut.start <= cut.end
      /\ cut.end <= Len(t)
  BY <1>2, ExtentFacts
<1>6. new \in Seq(Spellings) /\ new # <<>>
  <2>1. m.owner[i] \in 0 .. Len(t)
    BY <1>1, <1>2 DEF ModelFits
  <2> QED BY <1>1, <2>1, NameInFacts
<1>7. IsPlan(t, c)
  BY PlanSteps
<1>8. {} \in SUBSET Expectations
  OBVIOUS
<1> HIDE DEF cut, c, new
<1>9. IsPlan(t, q)
  BY <1>3, <1>5, <1>7, <1>8, PutFits
<1> HIDE DEF q
<1> DEFINE r == MapName(q, m.qn[i], new)
<1>10. IsPlan(t, r)
  BY <1>9, PlanSteps
<1> HIDE DEF r
<1>11. IsPlan(t, Respell(r, t, sites, new))
  BY <1>6, <1>10, RespellFits
<1> QED BY <1>4, <1>9, <1>11 DEF r

\* So does the plan of a retarget.
LEMMA RetargetFits ==
  ASSUME NEW t \in Seq(Tokens), NEW m, ModelFits(t, m), NEW p, IsPlan(t, p),
         NEW op, op.of \in ReferencesOf(t), op.to \in ElementsOf(t)
  PROVE  IsPlan(t, PlanRetarget(p, t, m, op))
<1> DEFINE first == HeadAt(t, op.of)
           last  == LastOf(t, first)
           qn    == m.qn[At(t, op.to)]
           c     == Consume(p, first - 1, last)
           ex    == {[at |-> Len(qn) - 1, qn |-> qn, newLeaf |-> FALSE]}
           w     == Reference(op.of, qn)
<1>1. /\ Len(t) \in Nat /\ Segments(t) \subseteq 1 .. Len(t) /\ Heads(t) \subseteq Segments(t)
      /\ Opens(t) \subseteq 1 .. Len(t)
  BY TextFacts
<1>2. first \in Heads(t) /\ op.of \in Identities
  <2>1. PICK i \in Heads(t) : t[i].id = op.of
    BY DEF ReferencesOf
  <2>2. t[i].id \in Identities
    BY <1>1, <2>1, TextFacts
  <2> QED BY <2>1, <2>2 DEF HeadAt
<1>3. PlanRetarget(p, t, m, op) = Put(c, first - 1, last, w, ex)
  BY DEF PlanRetarget
<1>4. qn \in Seq(Spellings)
  <2>1. At(t, op.to) \in 1 .. Len(t)
    BY <1>1, AtFacts
  <2> QED BY <2>1 DEF ModelFits
<1> HIDE DEF first, qn
<1>5. last \in Segments(t) /\ first <= last
  <2> DEFINE U == {j \in Segments(t) : t[j].id = t[first].id}
  <2>1. U \subseteq 0 .. Len(t) /\ first \in U
    BY <1>1, <1>2
  <2>2. last = Max(U)
    BY DEF LastOf
  <2> HIDE DEF U, last
  <2>3. \E x \in U : \A y \in U : x >= y
    BY <1>1, <2>1, Greatest
  <2>4. Max(U) \in U /\ \A y \in U : Max(U) >= y
    BY <2>3 DEF Max
  <2>5. first <= Max(U)
    <3>1. Max(U) >= first
      BY <2>1, <2>4
    <3>2. \A x \in 0 .. Len(t) : x \in Int
      OBVIOUS
    <3>3. Max(U) \in Int /\ first \in Int
      <4>1. Max(U) \in 0 .. Len(t) /\ first \in 0 .. Len(t)
        BY <2>1, <2>4, Zenon
      <4> QED BY <3>2, <4>1, Zenon
    <3> QED BY <3>1, <3>3
  <2> QED BY <2>2, <2>4, <2>5 DEF U
<1>6. first - 1 \in Int /\ last \in Int /\ 0 <= first - 1 /\ first - 1 <= last /\ last <= Len(t)
  BY <1>1, <1>2, <1>5
<1>7. IsPlan(t, c)
  BY PlanSteps
<1>8. w \in Seq(Tokens)
  <2>1. DOMAIN qn = 1 .. Len(qn) /\ Len(qn) \in Nat
    BY <1>4
  <2>2. ASSUME NEW k \in 1 .. Len(qn) PROVE Segment(op.of, qn[k], k = 1) \in Tokens
    <3>1. qn[k] \in Spellings
      BY <1>4
    <3>2. \A h \in BOOLEAN : Segment(op.of, qn[k], h) \in Tokens
      BY <1>2, <3>1, WrittenTokens
    <3>3. (k = 1) \in BOOLEAN
      OBVIOUS
    <3> QED BY <3>2, <3>3, Zenon
  <2>3. w = [k \in 1 .. Len(qn) |-> Segment(op.of, qn[k], k = 1)]
    BY <2>1 DEF Reference
  <2> HIDE DEF w
  <2> DEFINE g(k) == Segment(op.of, qn[k], k = 1)
  <2>4. \A k \in 1 .. Len(qn) : g(k) \in Tokens
    BY <2>2
  <2>5. w = [k \in 1 .. Len(qn) |-> g(k)]
    BY <2>3
  <2> HIDE DEF g
  <2> QED BY <2>1, <2>4, <2>5
<1>9. ex \in SUBSET Expectations
  <2>1. Len(qn) - 1 \in Int
    BY <1>4
  <2> QED BY <1>4, <2>1 DEF Expectations
<1> HIDE DEF last, c, ex, w
<1>10. IsPlan(t, Put(c, first - 1, last, w, ex))
  BY <1>6, <1>7, <1>8, <1>9, PutFits
<1> QED BY <1>3, <1>10

\* Every operation leaves a plan.
LEMMA PlanFits ==
  ASSUME NEW t \in Seq(Tokens), NEW m, ModelFits(t, m), NEW p, IsPlan(t, p),
         NEW op \in Orders(t)
  PROVE  IsPlan(t, Plan(p, t, m, op))
<1>1. \/ op.op = "rename" /\ op.of \in ElementsOf(t) /\ op.name \in Names
      \/ op.op = "replace" /\ op.of \in ElementsOf(t) /\ op.name \in Names
      \/ op.op = "remove" /\ op.of \in ElementsOf(t)
      \/ op.op = "move" /\ op.of \in ElementsOf(t) /\ op.to \in ElementsOf(t)
      \/ op.op = "insert" /\ op.id \in Fresh /\ op.to \in ElementsOf(t) \cup {Root} /\ op.name \in Names
      \/ op.op = "retarget" /\ op.of \in ReferencesOf(t) /\ op.to \in ElementsOf(t)
  BY DEF Orders
<1>2. CASE p.refused # "no"
  BY <1>1, <1>2 DEF Plan
<1>3. CASE p.refused = "no" /\ op.op = "rename" /\ op.of \in ElementsOf(t) /\ op.name \in Names
  BY <1>3, RenameFits DEF Plan
<1>4. CASE p.refused = "no" /\ op.op = "replace" /\ op.of \in ElementsOf(t) /\ op.name \in Names
  BY <1>4, ReplaceFits DEF Plan
<1>5. CASE p.refused = "no" /\ op.op = "remove" /\ op.of \in ElementsOf(t)
  BY <1>5, RemoveFits DEF Plan
<1>6. CASE p.refused = "no" /\ op.op = "move" /\ op.of \in ElementsOf(t) /\ op.to \in ElementsOf(t)
  BY <1>6, MoveFits DEF Plan
<1>7. CASE /\ p.refused = "no" /\ op.op = "insert" /\ op.id \in Fresh
           /\ op.to \in ElementsOf(t) \cup {Root} /\ op.name \in Names
  BY <1>7, InsertFits DEF Plan
<1>8. CASE p.refused = "no" /\ op.op = "retarget" /\ op.of \in ReferencesOf(t) /\ op.to \in ElementsOf(t)
  BY <1>8, RetargetFits DEF Plan
<1> QED BY <1>1, <1>2, <1>3, <1>4, <1>5, <1>6, <1>7, <1>8

\* The plan after the first k operations.
IsPlanning(f, t, m, ops, n) ==
  f = [i \in 0 .. n |-> IF i = 0 THEN NoPlan ELSE Plan(f[i - 1], t, m, ops[i])]

\* There is such a function.
LEMMA PlansExist ==
  ASSUME NEW t, NEW m, NEW ops
  PROVE  \A n \in Nat : \E f : IsPlanning(f, t, m, ops, n)
<1> DEFINE Counts == {k \in Nat : \E f : IsPlanning(f, t, m, ops, k)}
<1>1. 0 \in Counts
  <2>1. IsPlanning([i \in 0 .. 0 |-> NoPlan], t, m, ops, 0)
    BY DEF IsPlanning
  <2> QED BY <2>1
<1>2. ASSUME NEW k \in Nat, k \in Counts PROVE k + 1 \in Counts
  <2>1. PICK f : IsPlanning(f, t, m, ops, k)
    BY <1>2
  <2> DEFINE next == Plan(f[k], t, m, ops[(k + 1)])
             g == [i \in 0 .. (k + 1) |-> IF i = k + 1 THEN next ELSE f[i]]
  <2>2. \A i \in 0 .. k : g[i] = f[i]
    OBVIOUS
  <2>3. g[k + 1] = Plan(g[k], t, m, ops[(k + 1)])
    <3>1. g[k + 1] = next /\ g[k] = f[k]
      BY <2>2
    <3> HIDE DEF g
    <3> QED BY <3>1
  <2>4. ASSUME NEW i \in 1 .. k PROVE g[i] = Plan(g[i - 1], t, m, ops[i])
    <3>1. i \in 0 .. k /\ i - 1 \in 0 .. k /\ i # 0
      OBVIOUS
    <3>2. f[i] = Plan(f[i - 1], t, m, ops[i])
      BY <2>1, <3>1 DEF IsPlanning
    <3>3. g[i] = f[i] /\ g[i - 1] = f[i - 1]
      BY <2>2, <3>1
    <3> HIDE DEF g
    <3> QED BY <3>2, <3>3
  <2>5. g[0] = NoPlan
    BY <2>1, <2>2 DEF IsPlanning
  <2> HIDE DEF next
  <2>6. g = [i \in 0 .. (k + 1) |-> g[i]]
    OBVIOUS
  <2> HIDE DEF g
  <2>7. ASSUME NEW i \in 0 .. (k + 1)
        PROVE  g[i] = IF i = 0 THEN NoPlan ELSE Plan(g[i - 1], t, m, ops[i])
    <3>1. CASE i = 0
      BY <2>5, <3>1
    <3>2. CASE i \in 1 .. k
      <4>1. i # 0
        BY <3>2
      <4> QED BY <2>4, <3>2, <4>1
    <3>3. CASE i = k + 1
      <4>1. i # 0 /\ i - 1 = k
        BY <3>3
      <4> QED BY <2>3, <3>3, <4>1
    <3>4. i = 0 \/ i \in 1 .. k \/ i = k + 1
      OBVIOUS
    <3> QED BY <3>1, <3>2, <3>3, <3>4
  <2>8. IsPlanning(g, t, m, ops, k + 1)
    BY <2>6, <2>7 DEF IsPlanning
  <2> QED BY <2>8
<1> HIDE DEF Counts
<1>3. \A k \in Nat : k \in Counts
  BY <1>1, <1>2, SetInduction
<1> QED BY <1>3 DEF Counts

\* So does a batch.
LEMMA PlannedFits ==
  ASSUME NEW t \in Seq(Tokens), NEW m, ModelFits(t, m), NEW ops \in Seq(Orders(t))
  PROVE  IsPlan(t, Planned(t, m, ops))
<1>1. IsPlan(t, NoPlan)
  BY DEF IsPlan, NoPlan
<1>2. CASE NameTaken(t, m, ops)
  <2>1. IsPlan(t, Refuse(NoPlan, "name taken"))
    BY <1>1, RefuseFits
  <2> QED BY <1>2, <2>1 DEF Planned
<1>3. CASE ~NameTaken(t, m, ops)
  <2> DEFINE n == Len(ops)
             f == CHOOSE f : IsPlanning(f, t, m, ops, n)
  <2>1. n \in Nat /\ \A k \in 1 .. n : ops[k] \in Orders(t)
    OBVIOUS
  <2>2. IsPlanning(f, t, m, ops, n)
    <3>1. \E h : IsPlanning(h, t, m, ops, n)
      BY <2>1, PlansExist
    <3> QED BY <3>1
  <2>3. Planned(t, m, ops) = f[n]
    BY <1>3 DEF Planned, IsPlanning
  <2> HIDE DEF f, n
  <2> DEFINE Good == {k \in Nat : k <= n => IsPlan(t, f[k])}
  <2>4. 0 \in Good
    <3>1. f[0] = NoPlan
      BY <2>1, <2>2 DEF IsPlanning
    <3> QED BY <1>1, <3>1
  <2>5. ASSUME NEW k \in Nat, k \in Good PROVE k + 1 \in Good
    <3> SUFFICES ASSUME k + 1 <= n PROVE IsPlan(t, f[k + 1])
      OBVIOUS
    <3>1. k + 1 \in 0 .. n /\ k + 1 \in 1 .. n /\ k + 1 # 0 /\ (k + 1) - 1 = k /\ k <= n
      BY <2>1
    <3>2. f[k + 1] = Plan(f[(k + 1) - 1], t, m, ops[k + 1])
      BY <2>2, <3>1 DEF IsPlanning
    <3>3. IsPlan(t, f[k])
      BY <2>5, <3>1
    <3>4. ops[k + 1] \in Orders(t)
      BY <2>1, <3>1
    <3> HIDE DEF Good
    <3>5. IsPlan(t, Plan(f[k], t, m, ops[k + 1]))
      BY <3>3, <3>4, PlanFits
    <3> QED BY <3>1, <3>2, <3>5
  <2> HIDE DEF Good
  <2>6. n \in Good
    BY <2>1, <2>4, <2>5, SetInduction
  <2> QED BY <2>1, <2>3, <2>6 DEF Good
<1> QED BY <1>2, <1>3

----------------------------------------------------------------------------
(***************************************************************************)
(* Commits.                                                                 *)
(***************************************************************************)

\* The new text is a text.
LEMMA SplicedType ==
  ASSUME NEW t, NEW s, Apart(t, s)
  PROVE  Spliced(t, s) \in Seq(Tokens)
<1> DEFINE n == Len(s)
           e == EndBefore(s, n + 1)
           tail == SubSeq(t, e + 1, Len(t))
           front == Joined(Pieces(t, s))
<1>1. /\ n \in Nat /\ t \in Seq(Tokens) /\ Len(Pieces(t, s)) = n /\ Len(t) \in Nat
      /\ e \in 0 .. Len(t)
  BY ApartFacts, PiecesType DEF Apart
<1>2. PICK built : JoinedBy(built, Pieces(t, s), Tokens)
  BY <1>1, PiecesType, JoinedStepwise
<1>3. front \in Seq(Tokens)
  <2>1. n \in 0 .. Len(Pieces(t, s))
    BY <1>1
  <2> QED BY <1>1, <1>2, <2>1 DEF JoinedBy
<1> HIDE DEF n, e
<1>4. tail \in Seq(Tokens)
  <2>1. \A j \in e + 1 .. Len(t) : t[j] \in Tokens
    BY <1>1
  <2>2. e + 1 \in Int /\ Len(t) \in Int
    BY <1>1
  <2> QED BY <2>1, <2>2, SubSeqProperties
<1>5. Spliced(t, s) = front \o tail
  BY DEF Spliced, n, e
<1> HIDE DEF front, tail
<1> QED BY <1>3, <1>4, <1>5, ConcatProperties

\* What is applied are splices of the text.
LEMMA AppliedFits ==
  ASSUME NEW t \in Seq(Tokens), NEW p, IsPlan(t, p)
  PROVE  Deduplicated(InOrder(p.splices)) \in Seq(SplicesOf(t))
<1> DEFINE q == p.splices
           S == SplicesOf(t)
<1>1. q \in Seq(S)
  BY DEF IsPlan
<1>2. \A x \in S : x.start \in Int /\ x.end \in Int
  BY DEF SplicesOf
<1> HIDE DEF q, S
<1>3. Placed(q)
  <2>1. \A i \in DOMAIN q : q[i] \in S
    BY <1>1
  <2> QED BY <1>2, <2>1 DEF Placed
<1>4. InOrder(q) \in Seq(S)
  BY <1>1, <1>3, InOrderType
<1>5. Deduplicated(InOrder(q)) \in Seq(S)
  <2> DEFINE r == InOrder(q)
  <2>1. r \in Seq(S)
    BY <1>4
  <2> HIDE DEF r
  <2>2. Deduplicated(r) \in Seq(S)
    BY <2>1, DeduplicatedType
  <2> QED BY <2>2 DEF r
<1> QED BY <1>5 DEF q, S

\* Only splices that are apart and leave a text that parses are committed.
LEMMA DoneMeans ==
  ASSUME NEW t, NEW p, IsPlan(t, p), NEW s, NEW m, Verdict(p, t, s, m) = "done"
  PROVE  ~Overlapping(s) /\ Parses(Spliced(t, s))
<1>1. p.refused # "done"
  BY DEF IsPlan
<1> QED BY <1>1 DEF Verdict

BatchInv ==
  /\ Wellformed(text)
  /\ resolved = Model(text)
  /\ batch \in Seq(Orders(text))
  /\ Done => Apart(report.old, report.splices) /\ text = Spliced(report.old, report.splices)

\* A session opens on a text that parses.
LEMMA BatchInit == Init => BatchInv
<1> SUFFICES ASSUME Init PROVE BatchInv
  OBVIOUS
<1>1. text \in Documents /\ resolved = Model(text) /\ batch = <<>> /\ report.verdict = "none"
  BY DEF Init
<1>2. Wellformed(text)
  BY <1>1, DocumentsAssumption DEF Wellformed
<1> QED BY <1>1, <1>2 DEF BatchInv, Done

\* What is staged speaks of the text.
LEMMA BatchStage ==
  ASSUME BatchInv, NEW op \in Operations, Stage(op)
  PROVE  BatchInv'
<1>1. /\ text' = text /\ resolved' = resolved /\ report' = report
      /\ batch' = Append(batch, op)
  BY DEF Stage
<1>2. op \in Orders(text)
  <2>1. NextFresh \subseteq Fresh
    BY DEF NextFresh
  <2>2. Elements = ElementsOf(text) /\ References = ReferencesOf(text)
    BY DEF Elements, References, ElementsOf, ReferencesOf
  <2> HIDE DEF NextFresh, Elements, References
  <2> QED BY <2>1, <2>2 DEF Operations, Orders
<1>3. Wellformed(text) /\ resolved = Model(text) /\ batch \in Seq(Orders(text))
  BY DEF BatchInv
<1>4. Append(batch, op) \in Seq(Orders(text))
  BY <1>2, <1>3, AppendProperties
<1>5. Wellformed(text)' /\ (resolved = Model(text))' /\ (batch \in Seq(Orders(text)))'
  BY <1>1, <1>3, <1>4
<1>6. (Done => Apart(report.old, report.splices) /\ text = Spliced(report.old, report.splices))'
  BY <1>1 DEF BatchInv, Done
<1> QED BY <1>5, <1>6 DEF BatchInv

\* A commit leaves a text that parses, by splices of the old one.
LEMMA BatchCommit ==
  ASSUME BatchInv, Commit
  PROVE  BatchInv'
<1> DEFINE p == Planned(text, resolved, batch)
           s == Deduplicated(InOrder(p.splices))
           v == Verdict(p, text, s, resolved)
<1>1. /\ batch' = <<>>
      /\ text' = IF v = "done" THEN Spliced(text, s) ELSE text
      /\ resolved' = IF v = "done" THEN Model(Spliced(text, s)) ELSE resolved
      /\ report' = [verdict |-> v, old |-> text, splices |-> IF v = "done" THEN s ELSE <<>>,
                    mapped |-> p.mapped, batch |-> batch]
  BY DEF Commit
<1>2. text \in Seq(Tokens) /\ Wellformed(text) /\ resolved = Model(text) /\ batch \in Seq(Orders(text))
  BY DEF BatchInv, Wellformed
<1>3. IsPlan(text, p)
  BY <1>2, ModelFacts, PlannedFits
<1>4. s \in Seq(SplicesOf(text))
  <2> HIDE DEF p
  <2> QED BY <1>2, <1>3, AppliedFits
<1> HIDE DEF p, s
<1>5. CASE v = "done"
  <2>1. ~Overlapping(s) /\ Parses(Spliced(text, s))
    BY <1>3, <1>5, DoneMeans
  <2>2. Apart(text, s)
    BY <1>2, <1>4, <2>1 DEF Apart
  <2>3. Spliced(text, s) \in Seq(Tokens)
    BY <2>2, SplicedType
  <2> HIDE DEF v
  <2>4. text' = Spliced(text, s) /\ resolved' = Model(text')
    BY <1>1, <1>5
  <2>5. Wellformed(text')
    BY <2>1, <2>3, <2>4 DEF Wellformed
  <2>6. report'.old = text /\ report'.splices = s
    BY <1>1, <1>5
  <2>7. batch' \in Seq(Orders(text'))
    BY <1>1
  <2> QED BY <2>2, <2>4, <2>5, <2>6, <2>7 DEF BatchInv
<1>6. CASE v # "done"
  <2> HIDE DEF v
  <2>1. text' = text /\ resolved' = resolved /\ report'.verdict # "done"
    BY <1>1, <1>6
  <2>2. batch' \in Seq(Orders(text'))
    BY <1>1
  <2> QED BY <1>2, <2>1, <2>2 DEF BatchInv, Done
<1> QED BY <1>5, <1>6

\* The session's text parses, its model is that of its text, what is staged
\* speaks of it, and a report stands for the commit that made the text
\* (EditBuilder, Planner::commit).
THEOREM Batching == Spec => []BatchInv
<1>1. ASSUME BatchInv, [Next]_vars PROVE BatchInv'
  <2>1. CASE \E op \in Operations : Stage(op)
    BY <1>1, <2>1, BatchStage
  <2>2. CASE Commit
    BY <1>1, <2>2, BatchCommit
  <2>3. CASE UNCHANGED vars
    <3>1. text' = text /\ resolved' = resolved /\ batch' = batch /\ report' = report
      BY <2>3 DEF vars
    <3> QED BY <1>1, <3>1 DEF BatchInv, Done
  <2> QED BY <1>1, <2>1, <2>2, <2>3 DEF Next
<1> QED BY BatchInit, <1>1, PTL DEF Spec

\* A mirror that replays the reported splices on its copy of the old text,
\* the last one first, has the new text, whatever the text and the batch
\* (CommitReport::splices).
THEOREM Mirroring == Spec => []MirrorsFollow
<1>1. ASSUME BatchInv PROVE MirrorsFollow
  <2> SUFFICES ASSUME Done
               PROVE  Replayed(report.old, report.splices) = text /\ resolved = Model(text)
    BY DEF MirrorsFollow
  <2>1. Apart(report.old, report.splices) /\ text = Spliced(report.old, report.splices)
    BY <1>1 DEF BatchInv
  <2>2. Replayed(report.old, report.splices) = Spliced(report.old, report.splices)
    BY <2>1, MirrorAgrees
  <2> QED BY <1>1, <2>1, <2>2 DEF BatchInv
<1> QED BY Batching, <1>1, PTL

\* A token that no reported splice replaces is found by the shift of either
\* end of its span, whatever was written at its edges: check 1 of a commit
\* and the ids of its report look in the right place (shift and new_start of
\* Planner::commit).
THEOREM Following == Spec => []TokensFollowed
<1>1. ASSUME BatchInv PROVE TokensFollowed
  <2> DEFINE t == report.old
             s == report.splices
  <2>1. SUFFICES ASSUME Done, NEW i \in DOMAIN t, Spared(s, i)
                 PROVE  /\ Shift(s, i, TRUE) = Shift(s, i - 1, FALSE) + 1
                        /\ text[Shift(s, i - 1, FALSE) + 1] = t[i]
    BY DEF TokensFollowed, Spared
  <2>2. Apart(t, s) /\ text = Spliced(t, s)
    BY <1>1, <2>1 DEF BatchInv
  <2> HIDE DEF t, s
  <2>3. i \in 1 .. Len(t) /\ Len(t) \in Nat
    BY <2>2, ApartFacts, <2>1 DEF Apart
  <2> DEFINE g == Grown(s, Ahead(s, i))
  <2>4. /\ Shift(s, i - 1, FALSE) = (i - 1) + g
        /\ Shift(s, i, TRUE) = i + g
    BY <2>1, <2>2, <2>3, EndsAgree
  <2>5. g \in Int /\ Spliced(t, s)[i + g] = t[i]
    BY <2>1, <2>2, <2>3, TokenFound
  <2> HIDE DEF g
  <2>6. i + g = ((i - 1) + g) + 1
    BY <2>3, <2>5
  <2>7. Shift(s, i, TRUE) = Shift(s, i - 1, FALSE) + 1
    BY <2>4, <2>6, Zenon
  <2>8. text[Shift(s, i - 1, FALSE) + 1] = t[i]
    BY <2>2, <2>4, <2>5, <2>6, Zenon
  <2> QED BY <2>7, <2>8
<1> QED BY Batching, <1>1, PTL
=============================================================================
