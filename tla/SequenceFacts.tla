---------------------------- MODULE SequenceFacts ----------------------------
(***************************************************************************)
(* Facts about sequences and recursive functions that the proofs about      *)
(* several components rest on.  Induction over the naturals is stated with  *)
(* a set in the place of a predicate: so no prover has to find the          *)
(* predicate.                                                               *)
(***************************************************************************)
EXTENDS Subsequences, Integers, FiniteSets, SequenceTheorems, FunctionTheorems, FiniteSetTheorems, TLAPS

\* A set of numbers that is not empty has a least one.
LEMMA Least ==
  ASSUME NEW U, U \subseteq Nat, U # {}
  PROVE  \E x \in U : \A y \in U : x <= y
<1>1. PICK x \in U : \A y \in U : <<y, x>> \notin OpToRel(<, Nat)
  BY NatLessThanWellFounded, WFMin
<1>2. \A y \in U : <<y, x>> \in Nat \X Nat
  OBVIOUS
<1>3. \A y \in U : y < x => <<y, x>> \in OpToRel(<, Nat)
  BY <1>2 DEF OpToRel
<1>4. \A y \in U : ~(y < x)
  BY <1>1, <1>3
<1> QED BY <1>4

\* A set that has zero, and the successor of every number it has, has all.
LEMMA SetInduction ==
  ASSUME NEW T, 0 \in T, \A n \in Nat : n \in T => n + 1 \in T
  PROVE  \A n \in Nat : n \in T
<1> SUFFICES ASSUME NEW m \in Nat, m \notin T
             PROVE  FALSE
  OBVIOUS
<1>1. PICK x \in Nat \ T : \A y \in Nat \ T : x <= y
  <2> DEFINE U == Nat \ T
  <2>1. U \subseteq Nat /\ U # {}
    OBVIOUS
  <2> HIDE DEF U
  <2>2. \E x \in U : \A y \in U : x <= y
    BY <2>1, Least
  <2> QED BY <2>2 DEF U
<1>2. x # 0 /\ x - 1 \in Nat /\ x - 1 < x
  OBVIOUS
<1>3. x - 1 \in T
  BY <1>1, <1>2
<1> QED BY <1>2, <1>3

----------------------------------------------------------------------------
(***************************************************************************)
(* Only.                                                                    *)
(***************************************************************************)

\* What is left of the prefixes of q, up to the n-th.
IsOnly(f, q, T, n) ==
  f = [i \in 0 .. n |->
         IF i = 0 THEN <<>>
         ELSE IF q[i] \in T THEN Append(f[i - 1], q[i]) ELSE f[i - 1]]

\* There is such a function.
LEMMA OnlyExists ==
  ASSUME NEW q, NEW T
  PROVE  \A n \in Nat : \E f : IsOnly(f, q, T, n)
<1> DEFINE Done == {k \in Nat : \E f : IsOnly(f, q, T, k)}
<1>1. 0 \in Done
  <2>1. IsOnly([i \in 0 .. 0 |-> <<>>], q, T, 0)
    BY DEF IsOnly
  <2> QED BY <2>1
<1>2. ASSUME NEW k \in Nat, k \in Done PROVE k + 1 \in Done
  <2>1. PICK f : IsOnly(f, q, T, k)
    BY <1>2
  <2> DEFINE next == IF q[k + 1] \in T THEN Append(f[k], q[k + 1]) ELSE f[k]
             g == [i \in 0 .. (k + 1) |-> IF i = k + 1 THEN next ELSE f[i]]
  <2>2. \A i \in 0 .. k : g[i] = f[i]
    OBVIOUS
  <2>3. g[k + 1] = IF q[k + 1] \in T THEN Append(g[k], q[k + 1]) ELSE g[k]
    BY <2>2
  <2>4. ASSUME NEW i \in 1 .. k
        PROVE  g[i] = IF q[i] \in T THEN Append(g[i - 1], q[i]) ELSE g[i - 1]
    <3>1. i \in 0 .. k /\ i - 1 \in 0 .. k /\ i # 0
      OBVIOUS
    <3>2. f[i] = IF q[i] \in T THEN Append(f[i - 1], q[i]) ELSE f[i - 1]
      BY <2>1, <3>1 DEF IsOnly
    <3>3. g[i] = f[i] /\ g[i - 1] = f[i - 1]
      BY <2>2, <3>1
    <3> HIDE DEF g
    <3> QED BY <3>2, <3>3
  <2>5. g[0] = <<>>
    BY <2>1, <2>2 DEF IsOnly
  <2> HIDE DEF next
  <2>6. g = [i \in 0 .. (k + 1) |-> g[i]]
    OBVIOUS
  <2> HIDE DEF g
  <2>7. \A i \in 0 .. (k + 1) : i = 0 \/ i \in 1 .. k \/ i = k + 1
    OBVIOUS
  <2>8. \A i \in 0 .. (k + 1) : g[i] =
          IF i = 0 THEN <<>>
          ELSE IF q[i] \in T THEN Append(g[i - 1], q[i]) ELSE g[i - 1]
    BY <2>3, <2>4, <2>5, <2>7
  <2>9. IsOnly(g, q, T, k + 1)
    BY <2>6, <2>8 DEF IsOnly
  <2> QED BY <2>9
<1> HIDE DEF Done
<1>3. \A k \in Nat : k \in Done
  BY <1>1, <1>2, SetInduction
<1> QED BY <1>3 DEF Done

\* What p leaves of the first k elements of q, none of them twice if q has
\* none twice.
LeftOf(p, q, T, k) ==
  /\ p \in Seq({q[i] : i \in 1 .. k} \cap T) /\ Len(p) <= k
  /\ \A i \in 1 .. k : q[i] \in T => \E j \in 1 .. Len(p) : p[j] = q[i]
  /\ (\A i, j \in 1 .. k : q[i] = q[j] => i = j) =>
        \A i, j \in 1 .. Len(p) : p[i] = p[j] => i = j

\* One element more.
LEMMA LeftOfNext ==
  ASSUME NEW S, NEW q \in Seq(S), NEW T, NEW k \in Nat, k + 1 <= Len(q), NEW p,
         LeftOf(p, q, T, k)
  PROVE  LeftOf(IF q[k + 1] \in T THEN Append(p, q[k + 1]) ELSE p, q, T, k + 1)
<1> DEFINE x == q[k + 1]
           E == {q[i] : i \in 1 .. k} \cap T
           F == {q[i] : i \in 1 .. (k + 1)} \cap T
<1>1. p \in Seq(E) /\ E \subseteq F /\ Len(p) \in Nat
  BY DEF LeftOf
<1>2. CASE x \notin T
  BY <1>1, <1>2 DEF LeftOf
<1>3. CASE x \in T
  <2> DEFINE r == Append(p, x)
  <2>1. x \in F
    BY <1>3
  <2>2. /\ r \in Seq(F) /\ Len(r) = Len(p) + 1 /\ r[Len(p) + 1] = x
        /\ \A i \in 1 .. Len(p) : r[i] = p[i]
    BY <1>1, <2>1
  <2>3. \A i \in 1 .. Len(p) : p[i] \in E
    BY <1>1
  <2> HIDE DEF r
  <2>4. ASSUME NEW i \in 1 .. (k + 1), q[i] \in T
        PROVE  \E j \in 1 .. Len(r) : r[j] = q[i]
    <3>1. CASE i = k + 1
      BY <1>1, <2>2, <3>1
    <3>2. CASE i \in 1 .. k
      <4>1. PICK j \in 1 .. Len(p) : p[j] = q[i]
        BY <2>4, <3>2 DEF LeftOf
      <4>2. j \in 1 .. Len(r) /\ r[j] = q[i]
        BY <1>1, <2>2, <4>1
      <4> QED BY <4>2
    <3> QED BY <3>1, <3>2
  <2>5. ASSUME \A i, j \in 1 .. (k + 1) : q[i] = q[j] => i = j,
               NEW i \in 1 .. Len(r), NEW j \in 1 .. Len(r), r[i] = r[j]
        PROVE  i = j
    <3>1. x \notin E
      BY <2>5
    <3>2. \A a, b \in 1 .. Len(p) : p[a] = p[b] => a = b
      BY <2>5 DEF LeftOf
    <3> HIDE DEF x, E
    <3>3. \A a \in 1 .. Len(r) : a \in 1 .. Len(p) \/ a = Len(p) + 1
      BY <1>1, <2>2
    <3> QED BY <2>2, <2>3, <2>5, <3>1, <3>2, <3>3
  <2>6. Len(r) <= k + 1
    BY <1>1, <2>2 DEF LeftOf
  <2> QED BY <1>3, <2>2, <2>4, <2>5, <2>6 DEF LeftOf, r
<1> QED BY <1>2, <1>3

\* Only keeps what is in T.
LEMMA OnlyLeaves ==
  ASSUME NEW S, NEW q \in Seq(S), NEW T
  PROVE  LeftOf(Only(q, T), q, T, Len(q))
<1>1. Len(q) \in Nat
  OBVIOUS
<1> DEFINE f == CHOOSE f : IsOnly(f, q, T, Len(q))
<1>2. IsOnly(f, q, T, Len(q))
  BY <1>1, OnlyExists
<1>3. Only(q, T) = f[Len(q)]
  BY DEF Only, IsOnly
<1> HIDE DEF f
<1> DEFINE Done == {k \in Nat : k <= Len(q) => LeftOf(f[k], q, T, k)}
<1>4. 0 \in Done
  <2>1. f[0] = <<>>
    BY <1>1, <1>2 DEF IsOnly
  <2>2. \A U : <<>> \in Seq(U) /\ Len(<<>>) = 0
    OBVIOUS
  <2>3. LeftOf(<<>>, q, T, 0)
    BY <2>2 DEF LeftOf
  <2> QED BY <2>1, <2>3
<1>5. ASSUME NEW k \in Nat, k \in Done PROVE k + 1 \in Done
  <2> SUFFICES ASSUME k + 1 <= Len(q) PROVE LeftOf(f[k + 1], q, T, k + 1)
    OBVIOUS
  <2>1. LeftOf(f[k], q, T, k)
    BY <1>1, <1>5
  <2>2. f[k + 1] = IF q[k + 1] \in T THEN Append(f[k], q[k + 1]) ELSE f[k]
    <3>1. k + 1 \in 0 .. Len(q) /\ k + 1 # 0 /\ (k + 1) - 1 = k
      BY <1>1
    <3> QED BY <1>2, <3>1 DEF IsOnly
  <2> QED BY <2>1, <2>2, LeftOfNext
<1> HIDE DEF Done
<1>6. Len(q) \in Done
  BY <1>1, <1>4, <1>5, SetInduction
<1> QED BY <1>1, <1>3, <1>6 DEF Done

\* The elements left, as a set.
LEMMA OnlyRange ==
  ASSUME NEW S, NEW q \in Seq(S), NEW T
  PROVE  /\ Only(q, T) \in Seq(S) /\ Len(Only(q, T)) <= Len(q)
         /\ {Only(q, T)[i] : i \in 1 .. Len(Only(q, T))}
              = {q[i] : i \in 1 .. Len(q)} \cap T
<1> DEFINE p == Only(q, T)
           E == {q[i] : i \in 1 .. Len(q)} \cap T
<1>1. LeftOf(p, q, T, Len(q))
  BY OnlyLeaves
<1> HIDE DEF p
<1>2. /\ p \in Seq(E) /\ Len(p) <= Len(q)
      /\ \A i \in 1 .. Len(q) : q[i] \in T => \E j \in 1 .. Len(p) : p[j] = q[i]
  BY <1>1 DEF LeftOf
<1>3. E \subseteq S
  OBVIOUS
<1>4. \A j \in 1 .. Len(p) : p[j] \in E
  BY <1>2
<1>5. p \in Seq(S)
  BY <1>2, <1>3
<1>6. {p[i] : i \in 1 .. Len(p)} = E
  BY <1>2, <1>4
<1> QED BY <1>2, <1>5, <1>6 DEF p

----------------------------------------------------------------------------
(***************************************************************************)
(* Joined.                                                                  *)
(***************************************************************************)

\* The first n of q, one after the other.
IsJoined(f, q, n) == f = [i \in 0 .. n |-> IF i = 0 THEN <<>> ELSE f[i - 1] \o q[i]]

\* There is such a function.
LEMMA JoinedExists ==
  ASSUME NEW q
  PROVE  \A n \in Nat : \E f : IsJoined(f, q, n)
<1> DEFINE Done == {k \in Nat : \E f : IsJoined(f, q, k)}
<1>1. 0 \in Done
  <2>1. IsJoined([i \in 0 .. 0 |-> <<>>], q, 0)
    BY DEF IsJoined
  <2> QED BY <2>1
<1>2. ASSUME NEW k \in Nat, k \in Done PROVE k + 1 \in Done
  <2>1. PICK f : IsJoined(f, q, k)
    BY <1>2
  <2> DEFINE next == f[k] \o q[k + 1]
             g == [i \in 0 .. (k + 1) |-> IF i = k + 1 THEN next ELSE f[i]]
  <2>2. \A i \in 0 .. k : g[i] = f[i]
    OBVIOUS
  <2>3. g[k + 1] = g[k] \o q[k + 1]
    <3>1. g[k + 1] = next /\ g[k] = f[k]
      BY <2>2
    <3> HIDE DEF g
    <3> QED BY <3>1
  <2>4. ASSUME NEW i \in 1 .. k PROVE g[i] = g[i - 1] \o q[i]
    <3>1. i \in 0 .. k /\ i - 1 \in 0 .. k /\ i # 0
      OBVIOUS
    <3>2. f[i] = f[i - 1] \o q[i]
      BY <2>1, <3>1 DEF IsJoined
    <3>3. g[i] = f[i] /\ g[i - 1] = f[i - 1]
      BY <2>2, <3>1
    <3> HIDE DEF g
    <3> QED BY <3>2, <3>3
  <2>5. g[0] = <<>>
    BY <2>1, <2>2 DEF IsJoined
  <2> HIDE DEF next
  <2>6. g = [i \in 0 .. (k + 1) |-> g[i]]
    OBVIOUS
  <2> HIDE DEF g
  <2>7. \A i \in 0 .. (k + 1) : i = 0 \/ i \in 1 .. k \/ i = k + 1
    OBVIOUS
  <2>8. ASSUME NEW i \in 0 .. (k + 1)
        PROVE  g[i] = IF i = 0 THEN <<>> ELSE g[i - 1] \o q[i]
    <3>1. CASE i = 0
      BY <2>5, <3>1
    <3>2. CASE i \in 1 .. k
      <4>1. i # 0
        BY <3>2
      <4> QED BY <2>4, <3>2, <4>1
    <3>3. CASE i = k + 1
      <4>1. i # 0 /\ i - 1 = k
        BY <3>3
      <4> QED BY <2>3, <3>3, <4>1
    <3> QED BY <2>7, <3>1, <3>2, <3>3
  <2>9. IsJoined(g, q, k + 1)
    BY <2>6, <2>8 DEF IsJoined
  <2> QED BY <2>9
<1> HIDE DEF Done
<1>3. \A k \in Nat : k \in Done
  BY <1>1, <1>2, SetInduction
<1> QED BY <1>3 DEF Done

\* How q is joined, element by element.
JoinedBy(f, q, S) ==
  /\ f[0] = <<>> /\ f[Len(q)] = Joined(q)
  /\ \A i \in 1 .. Len(q) : f[i] = f[i - 1] \o q[i]
  /\ \A i \in 0 .. Len(q) : f[i] \in Seq(S)

\* What it has for the prefixes of the sequence.
LEMMA JoinedStepwise ==
  ASSUME NEW S, NEW q, Len(q) \in Nat, \A i \in 1 .. Len(q) : q[i] \in Seq(S)
  PROVE  \E f : JoinedBy(f, q, S)
<1> DEFINE f == CHOOSE f : IsJoined(f, q, Len(q))
<1>1. IsJoined(f, q, Len(q))
  BY JoinedExists
<1>2. Joined(q) = f[Len(q)]
  BY DEF Joined, IsJoined
<1> HIDE DEF f
<1>3. f[0] = <<>>
  BY <1>1 DEF IsJoined
<1>4. \A i \in 1 .. Len(q) : f[i] = f[i - 1] \o q[i]
  <2>1. \A i \in 1 .. Len(q) : i \in 0 .. Len(q) /\ i # 0
    OBVIOUS
  <2> QED BY <1>1, <2>1 DEF IsJoined
<1> DEFINE Done == {k \in Nat : k <= Len(q) => f[k] \in Seq(S)}
<1>5. 0 \in Done
  <2>1. <<>> \in Seq(S)
    OBVIOUS
  <2> QED BY <1>3, <2>1
<1>6. ASSUME NEW k \in Nat, k \in Done PROVE k + 1 \in Done
  <2> SUFFICES ASSUME k + 1 <= Len(q) PROVE f[k + 1] \in Seq(S)
    OBVIOUS
  <2>1. k + 1 \in 1 .. Len(q) /\ (k + 1) - 1 = k /\ k <= Len(q)
    OBVIOUS
  <2>2. f[k] \in Seq(S) /\ q[k + 1] \in Seq(S)
    BY <1>6, <2>1
  <2>3. f[k + 1] = f[k] \o q[k + 1]
    BY <1>4, <2>1
  <2> QED BY <2>2, <2>3
<1> HIDE DEF Done
<1>7. \A k \in Nat : k \in Done
  BY <1>5, <1>6, SetInduction
<1>8. \A i \in 0 .. Len(q) : f[i] \in Seq(S)
  <2>1. \A i \in 0 .. Len(q) : i \in Nat /\ i <= Len(q)
    OBVIOUS
  <2> QED BY <1>7, <2>1 DEF Done
<1>9. JoinedBy(f, q, S)
  BY <1>2, <1>3, <1>4, <1>8 DEF JoinedBy
<1> QED BY <1>9

\* Where only one has elements, they are what is joined.
LEMMA JoinedOfOne ==
  ASSUME NEW S, NEW q, Len(q) \in Nat, NEW j \in 1 .. Len(q), q[j] \in Seq(S),
         \A i \in 1 .. Len(q) : i # j => q[i] = <<>>
  PROVE  Joined(q) = q[j]
<1>1. /\ <<>> \in Seq(S)
      /\ \A s \in Seq(S) : s \o <<>> = s /\ <<>> \o s = s
  BY ConcatEmptySeq, EmptySeq
<1>2. \A i \in 1 .. Len(q) : q[i] \in Seq(S)
  BY <1>1
<1>3. PICK f : JoinedBy(f, q, S)
  BY <1>2, JoinedStepwise
<1> DEFINE Done == {k \in Nat : k <= Len(q) => f[k] = IF k < j THEN <<>> ELSE q[j]}
<1>4. 0 \in Done
  BY <1>3 DEF JoinedBy
<1>5. ASSUME NEW k \in Nat, k \in Done PROVE k + 1 \in Done
  <2> SUFFICES ASSUME k + 1 <= Len(q)
               PROVE  f[k + 1] = IF k + 1 < j THEN <<>> ELSE q[j]
    OBVIOUS
  <2>1. k + 1 \in 1 .. Len(q) /\ (k + 1) - 1 = k /\ k <= Len(q)
    OBVIOUS
  <2>2. f[k + 1] = f[k] \o q[k + 1]
    BY <1>3, <2>1 DEF JoinedBy
  <2>3. f[k] = IF k < j THEN <<>> ELSE q[j]
    BY <1>5, <2>1
  <2>4. CASE k + 1 = j
    <3>1. f[k] = <<>> /\ ~(k + 1 < j)
      BY <2>3, <2>4
    <3>2. f[k + 1] = <<>> \o q[j]
      BY <2>2, <2>4, <3>1
    <3> QED BY <1>1, <3>1, <3>2
  <2>5. CASE k + 1 # j
    <3>1. q[k + 1] = <<>>
      BY <2>1, <2>5
    <3>2. k < j <=> k + 1 < j
      BY <2>5
    <3> QED BY <1>1, <2>2, <2>3, <3>1, <3>2
  <2> QED BY <2>4, <2>5
<1> HIDE DEF Done
<1>6. Len(q) \in Done
  BY <1>4, <1>5, SetInduction
<1> QED BY <1>3, <1>6 DEF Done, JoinedBy

----------------------------------------------------------------------------
(***************************************************************************)
(* What Only makes of sequences that are taken apart or put together.       *)
(***************************************************************************)

\* A set that has the empty sequence, and with a sequence every one that has
\* an element more, has all.
LEMMA SequenceInduction ==
  ASSUME NEW S, NEW T, <<>> \in T,
         \A q \in Seq(S), x \in S : q \in T => Append(q, x) \in T
  PROVE  \A q \in Seq(S) : q \in T
<1> DEFINE Done == {n \in Nat : \A q \in Seq(S) : Len(q) = n => q \in T}
<1>1. 0 \in Done
  BY EmptySeq
<1>2. ASSUME NEW n \in Nat, n \in Done PROVE n + 1 \in Done
  <2> SUFFICES ASSUME NEW q \in Seq(S), Len(q) = n + 1 PROVE q \in T
    OBVIOUS
  <2>1. q # <<>>
    BY EmptySeq
  <2>2. PICK p \in Seq(S), x \in S : q = Append(p, x)
    BY <2>1, SequenceEmptyOrAppend
  <2>3. Len(p) = n
    BY <2>2
  <2> QED BY <1>2, <2>2, <2>3
<1> HIDE DEF Done
<1>3. \A n \in Nat : n \in Done
  BY <1>1, <1>2, SetInduction
<1>4. \A q \in Seq(S) : Len(q) \in Done
  BY <1>3, LenProperties
<1> QED BY <1>4 DEF Done

\* Nothing is left of nothing.
LEMMA OnlyOfNone == ASSUME NEW T PROVE Only(<<>>, T) = <<>>
<1>1. Len(<<>>) = 0
  BY EmptySeq
<1>2. \E f : IsOnly(f, <<>>, T, 0)
  BY OnlyExists
<1> DEFINE f == CHOOSE f : IsOnly(f, <<>>, T, 0)
<1>3. IsOnly(f, <<>>, T, 0)
  BY <1>2
<1>4. Only(<<>>, T) = f[0]
  BY <1>1 DEF Only, IsOnly
<1> HIDE DEF f
<1> QED BY <1>3, <1>4 DEF IsOnly

\* What one element more adds to what is left.
LEMMA OnlyOfAppend ==
  ASSUME NEW S, NEW q \in Seq(S), NEW x \in S, NEW T
  PROVE  Only(Append(q, x), T) = IF x \in T THEN Append(Only(q, T), x) ELSE Only(q, T)
<1> DEFINE r == Append(q, x)
           n == Len(q)
           f == CHOOSE f : IsOnly(f, q, T, n)
           g == CHOOSE g : IsOnly(g, r, T, n + 1)
<1>1. /\ n \in Nat /\ Len(r) = n + 1 /\ r[n + 1] = x
      /\ \A i \in 1 .. n : r[i] = q[i]
  BY AppendProperties, LenProperties
<1>2. IsOnly(f, q, T, n) /\ IsOnly(g, r, T, n + 1)
  <2>0. n \in Nat /\ n + 1 \in Nat
    BY <1>1
  <2> HIDE DEF r, n
  <2>1. \E h : IsOnly(h, q, T, n)
    BY <2>0, OnlyExists
  <2>2. \E h : IsOnly(h, r, T, n + 1)
    BY <2>0, OnlyExists
  <2> QED BY <2>1, <2>2
<1>3. Only(q, T) = f[n] /\ Only(r, T) = g[n + 1]
  BY <1>1 DEF Only, IsOnly
<1> HIDE DEF f, g, r, n
<1> DEFINE Done == {k \in Nat : k <= n => g[k] = f[k]}
<1>4. 0 \in Done
  <2>1. 0 \in 0 .. n /\ 0 \in 0 .. (n + 1)
    BY <1>1
  <2> QED BY <1>2, <2>1 DEF IsOnly
<1>5. ASSUME NEW k \in Nat, k \in Done PROVE k + 1 \in Done
  <2> SUFFICES ASSUME k + 1 <= n PROVE g[k + 1] = f[k + 1]
    OBVIOUS
  <2>1. /\ k + 1 \in 0 .. n /\ k + 1 \in 0 .. (n + 1) /\ k + 1 \in 1 .. n
        /\ k + 1 # 0 /\ (k + 1) - 1 = k /\ k <= n
    BY <1>1
  <2>2. f[k + 1] = IF q[k + 1] \in T THEN Append(f[k], q[k + 1]) ELSE f[k]
    BY <1>2, <2>1 DEF IsOnly
  <2>3. g[k + 1] = IF r[k + 1] \in T THEN Append(g[k], r[k + 1]) ELSE g[k]
    BY <1>2, <2>1 DEF IsOnly
  <2>4. g[k] = f[k] /\ r[k + 1] = q[k + 1]
    BY <1>1, <1>5, <2>1
  <2> QED BY <2>2, <2>3, <2>4
<1> HIDE DEF Done
<1>6. n \in Done
  BY <1>1, <1>4, <1>5, SetInduction
<1>7. g[n] = f[n]
  BY <1>1, <1>6 DEF Done
<1>8. g[n + 1] = IF x \in T THEN Append(g[n], x) ELSE g[n]
  <2>1. n + 1 \in 0 .. (n + 1) /\ n + 1 # 0 /\ (n + 1) - 1 = n
    BY <1>1
  <2>2. g[n + 1] = IF r[n + 1] \in T THEN Append(g[n], r[n + 1]) ELSE g[n]
    BY <1>2, <2>1 DEF IsOnly
  <2> QED BY <1>1, <2>2
<1> QED BY <1>3, <1>7, <1>8 DEF r

\* Only keeps the type.
LEMMA OnlyType ==
  ASSUME NEW S, NEW q \in Seq(S), NEW T
  PROVE  Only(q, T) \in Seq(S) /\ Only(q, T) \in Seq(T) /\ Range(Only(q, T)) = Range(q) \cap T
<1> DEFINE p == Only(q, T)
           E == {q[i] : i \in 1 .. Len(q)} \cap T
<1>1. LeftOf(p, q, T, Len(q))
  BY OnlyLeaves
<1> HIDE DEF p
<1>2. /\ p \in Seq(E)
      /\ \A i \in 1 .. Len(q) : q[i] \in T => \E j \in 1 .. Len(p) : p[j] = q[i]
  BY <1>1 DEF LeftOf
<1>3. E \subseteq T
  OBVIOUS
<1>4. p \in Seq(T)
  BY <1>2, <1>3, SeqMonotonic
<1>5. p \in Seq(S)
  BY <1>2
<1>6. Range(p) = {p[i] : i \in 1 .. Len(p)}
  BY <1>5, RangeEquality
<1>7. Range(q) = {q[i] : i \in 1 .. Len(q)}
  BY RangeEquality
<1>8. \A j \in 1 .. Len(p) : p[j] \in E
  BY <1>2
<1>9. {p[i] : i \in 1 .. Len(p)} = E
  BY <1>2, <1>8
<1>10. Range(p) = Range(q) \cap T
  BY <1>6, <1>7, <1>9
<1> QED BY <1>4, <1>5, <1>10 DEF p

\* Only goes through a concatenation.
LEMMA OnlyOfConcat ==
  ASSUME NEW S, NEW p \in Seq(S), NEW q \in Seq(S), NEW T
  PROVE  Only(p \o q, T) = Only(p, T) \o Only(q, T)
<1> DEFINE Done == {r \in Seq(S) : Only(p \o r, T) = Only(p, T) \o Only(r, T)}
<1>0. \A r \in Seq(S) : Only(r, T) \in Seq(S)
  BY OnlyType
<1>1. <<>> \in Done
  <2>1. p \o <<>> = p /\ Only(<<>>, T) = <<>> /\ Only(p, T) \o <<>> = Only(p, T)
    BY <1>0, ConcatEmptySeq, OnlyOfNone
  <2> QED BY <2>1, EmptySeq
<1>2. ASSUME NEW r \in Seq(S), NEW x \in S, r \in Done PROVE Append(r, x) \in Done
  <2>1. Append(r, x) \in Seq(S) /\ p \o r \in Seq(S) /\ <<x>> \in Seq(S)
    BY ConcatProperties
  <2>2. p \o Append(r, x) = Append(p \o r, x)
    BY <2>1, AppendIsConcat, ConcatAssociative
  <2>3. Only(Append(p \o r, x), T)
          = IF x \in T THEN Append(Only(p \o r, T), x) ELSE Only(p \o r, T)
    BY <2>1, OnlyOfAppend
  <2>4. Only(Append(r, x), T) = IF x \in T THEN Append(Only(r, T), x) ELSE Only(r, T)
    BY OnlyOfAppend
  <2>5. Only(p \o r, T) = Only(p, T) \o Only(r, T)
    BY <1>2
  <2>6. Append(Only(p, T) \o Only(r, T), x) = Only(p, T) \o Append(Only(r, T), x)
    <3>1. Only(p, T) \in Seq(S) /\ Only(r, T) \in Seq(S)
      BY <1>0
    <3> HIDE DEF Done
    <3>2. Only(p, T) \o Only(r, T) \in Seq(S)
      BY <3>1, ConcatProperties
    <3>3. Append(Only(p, T) \o Only(r, T), x) = (Only(p, T) \o Only(r, T)) \o <<x>>
      BY <3>2, AppendIsConcat
    <3>4. Append(Only(r, T), x) = Only(r, T) \o <<x>>
      BY <3>1, AppendIsConcat
    <3>5. (Only(p, T) \o Only(r, T)) \o <<x>> = Only(p, T) \o (Only(r, T) \o <<x>>)
      BY <2>1, <3>1, ConcatAssociative, SMTT(30)
    <3> QED BY <3>3, <3>4, <3>5
  <2>7. Only(p \o Append(r, x), T) = Only(p, T) \o Only(Append(r, x), T)
    BY <2>2, <2>3, <2>4, <2>5, <2>6
  <2> QED BY <2>1, <2>7
<1> HIDE DEF Done
<1>3. q \in Done
  BY <1>1, <1>2, SequenceInduction
<1> QED BY <1>3 DEF Done

\* What is left of what is left.
LEMMA OnlyTwice ==
  ASSUME NEW S, NEW q \in Seq(S), NEW T, NEW U
  PROVE  Only(Only(q, T), U) = Only(q, T \cap U)
<1> DEFINE Done == {r \in Seq(S) : Only(Only(r, T), U) = Only(r, T \cap U)}
<1>1. <<>> \in Done
  BY OnlyOfNone, EmptySeq
<1>2. ASSUME NEW r \in Seq(S), NEW x \in S, r \in Done PROVE Append(r, x) \in Done
  <2>1. Append(r, x) \in Seq(S) /\ Only(r, T) \in Seq(S)
    BY OnlyType
  <2>2. Only(Append(r, x), T) = IF x \in T THEN Append(Only(r, T), x) ELSE Only(r, T)
    BY OnlyOfAppend
  <2>3. Only(Append(r, x), T \cap U)
          = IF x \in T \cap U THEN Append(Only(r, T \cap U), x) ELSE Only(r, T \cap U)
    BY OnlyOfAppend
  <2>4. Only(Append(Only(r, T), x), U)
          = IF x \in U THEN Append(Only(Only(r, T), U), x) ELSE Only(Only(r, T), U)
    BY <2>1, OnlyOfAppend
  <2>5. Only(Only(r, T), U) = Only(r, T \cap U)
    BY <1>2
  <2>6. Only(Only(Append(r, x), T), U) = Only(Append(r, x), T \cap U)
    <3>1. CASE x \notin T
      BY <2>2, <2>3, <2>5, <3>1
    <3>2. CASE x \in T /\ x \in U
      BY <2>2, <2>3, <2>4, <2>5, <3>2
    <3>3. CASE x \in T /\ x \notin U
      BY <2>2, <2>3, <2>4, <2>5, <3>3
    <3> QED BY <3>1, <3>2, <3>3
  <2> QED BY <2>1, <2>6
<1> HIDE DEF Done
<1>3. q \in Done
  BY <1>1, <1>2, SequenceInduction
<1> QED BY <1>3 DEF Done

\* Only what is in the sequence counts.
LEMMA OnlySame ==
  ASSUME NEW S, NEW q \in Seq(S), NEW T, NEW U,
         \A x \in Range(q) : x \in T <=> x \in U
  PROVE  Only(q, T) = Only(q, U)
<1> DEFINE Same(r) == \A x \in Range(r) : x \in T <=> x \in U
           Done == {r \in Seq(S) : Same(r) => Only(r, T) = Only(r, U)}
<1>1. <<>> \in Done
  BY OnlyOfNone, EmptySeq
<1>2. ASSUME NEW r \in Seq(S), NEW x \in S, r \in Done PROVE Append(r, x) \in Done
  <2>1. Append(r, x) \in Seq(S)
    OBVIOUS
  <2> SUFFICES ASSUME Same(Append(r, x)) PROVE Only(Append(r, x), T) = Only(Append(r, x), U)
    BY <2>1
  <2>2. Range(Append(r, x)) = Range(r) \cup {x}
    <3>1. /\ Len(Append(r, x)) = Len(r) + 1 /\ Len(r) \in Nat
          /\ \A i \in 1 .. Len(r) : Append(r, x)[i] = r[i]
          /\ Append(r, x)[Len(r) + 1] = x
      BY AppendProperties, LenProperties
    <3>2. Range(r) = {r[i] : i \in 1 .. Len(r)}
      BY RangeEquality
    <3>3. Range(Append(r, x)) = {Append(r, x)[i] : i \in 1 .. Len(Append(r, x))}
      BY <2>1, RangeEquality
    <3>4. 1 .. Len(r) + 1 = (1 .. Len(r)) \cup {Len(r) + 1}
      BY <3>1
    <3> HIDE DEF Done, Same
    <3> QED BY <3>1, <3>2, <3>3, <3>4
  <2>3. Same(r) /\ (x \in T <=> x \in U)
    BY <2>2
  <2>4. Only(r, T) = Only(r, U)
    BY <1>2, <2>3
  <2>5. Only(Append(r, x), T) = IF x \in T THEN Append(Only(r, T), x) ELSE Only(r, T)
    BY OnlyOfAppend
  <2>6. Only(Append(r, x), U) = IF x \in U THEN Append(Only(r, U), x) ELSE Only(r, U)
    BY OnlyOfAppend
  <2> QED BY <2>3, <2>4, <2>5, <2>6
<1> HIDE DEF Done
<1>3. q \in Done
  BY <1>1, <1>2, SequenceInduction
<1> QED BY <1>3 DEF Done

\* All of it, or nothing.
LEMMA OnlyAll ==
  ASSUME NEW S, NEW q \in Seq(S), NEW T
  PROVE  /\ Range(q) \subseteq T => Only(q, T) = q
         /\ Range(q) \cap T = {} => Only(q, T) = <<>>
<1> DEFINE Done == {r \in Seq(S) : Only(r, S) = r /\ Only(r, {}) = <<>>}
<1>1. <<>> \in Done
  BY OnlyOfNone, EmptySeq
<1>2. ASSUME NEW r \in Seq(S), NEW x \in S, r \in Done PROVE Append(r, x) \in Done
  BY <1>2, OnlyOfAppend
<1> HIDE DEF Done
<1>3. q \in Done
  BY <1>1, <1>2, SequenceInduction
<1>4. Range(q) \subseteq S
  BY RangeOfSeq
<1>5. Range(q) \subseteq T => Only(q, T) = Only(q, S)
  BY <1>4, OnlySame
<1>6. Range(q) \cap T = {} => Only(q, T) = Only(q, {})
  BY OnlySame
<1> QED BY <1>3, <1>5, <1>6 DEF Done

\* No element twice.
LEMMA OnlyOnce ==
  ASSUME NEW S, NEW q \in Seq(S), NEW T, IsInjective(q)
  PROVE  IsInjective(Only(q, T))
<1> DEFINE p == Only(q, T)
<1>1. p \in Seq(S)
  BY OnlyType
<1>2. LeftOf(p, q, T, Len(q))
  BY OnlyLeaves
<1> HIDE DEF p
<1>3. DOMAIN p = 1 .. Len(p) /\ DOMAIN q = 1 .. Len(q)
  BY <1>1, LenProperties
<1>4. \A i, j \in 1 .. Len(q) : q[i] = q[j] => i = j
  BY <1>3 DEF IsInjective
<1>5. \A i, j \in 1 .. Len(p) : p[i] = p[j] => i = j
  BY <1>2, <1>4 DEF LeftOf
<1>6. IsInjective(p)
  BY <1>3, <1>5 DEF IsInjective
<1> QED BY <1>6 DEF p

\* Sequences without repetition and without a common element.
LEMMA ConcatOnce ==
  ASSUME NEW S, NEW p \in Seq(S), NEW q \in Seq(S)
  PROVE  IsInjective(p \o q) <=>
           IsInjective(p) /\ IsInjective(q) /\ Range(p) \cap Range(q) = {}
<1> DEFINE r == p \o q
           m == Len(p)
           n == Len(q)
<1>1. /\ r \in Seq(S) /\ Len(r) = m + n
      /\ \A i \in 1 .. m + n : r[i] = IF i <= m THEN p[i] ELSE q[i - m]
  BY ConcatProperties
<1>2. /\ m \in Nat /\ n \in Nat
      /\ DOMAIN p = 1 .. m /\ DOMAIN q = 1 .. n
      /\ DOMAIN r = 1 .. m + n
  BY <1>1, LenProperties
<1>3. \A i \in 1 .. m : i \in 1 .. m + n /\ r[i] = p[i]
  BY <1>1, <1>2
<1>4. \A j \in 1 .. n : m + j \in 1 .. m + n /\ r[m + j] = q[j]
  BY <1>1, <1>2
<1>5. \A i \in 1 .. m + n : i \in 1 .. m \/ \E j \in 1 .. n : i = m + j
  <2> SUFFICES ASSUME NEW i \in 1 .. m + n, i \notin 1 .. m
               PROVE  \E j \in 1 .. n : i = m + j
    OBVIOUS
  <2>1. i - m \in 1 .. n /\ i = m + (i - m)
    BY <1>2
  <2> QED BY <2>1
<1> HIDE DEF r, m, n
<1>6. ASSUME IsInjective(r)
      PROVE  IsInjective(p) /\ IsInjective(q) /\ Range(p) \cap Range(q) = {}
  <2>1. \A i, j \in 1 .. m + n : r[i] = r[j] => i = j
    BY <1>2, <1>6 DEF IsInjective
  <2>2. IsInjective(p)
    BY <1>2, <1>3, <2>1 DEF IsInjective
  <2>3. IsInjective(q)
    <3> SUFFICES ASSUME NEW i \in 1 .. n, NEW j \in 1 .. n, q[i] = q[j] PROVE i = j
      BY <1>2 DEF IsInjective
    <3>1. m + i = m + j
      BY <1>4, <2>1
    <3> QED BY <1>2, <3>1
  <2>4. ASSUME NEW i \in 1 .. m, NEW j \in 1 .. n, p[i] = q[j] PROVE FALSE
    <3>1. i = m + j
      BY <1>3, <1>4, <2>1, <2>4
    <3> QED BY <1>2, <3>1
  <2>5. Range(p) \cap Range(q) = {}
    BY <1>2, <2>4 DEF Range
  <2> QED BY <2>2, <2>3, <2>5
<1>7. ASSUME IsInjective(p), IsInjective(q), Range(p) \cap Range(q) = {}
      PROVE  IsInjective(r)
  <2>1. \A i, j \in 1 .. m : p[i] = p[j] => i = j
    BY <1>2, <1>7 DEF IsInjective
  <2>2. \A i, j \in 1 .. n : q[i] = q[j] => i = j
    BY <1>2, <1>7 DEF IsInjective
  <2>3. \A i \in 1 .. m, j \in 1 .. n : p[i] # q[j]
    BY <1>2, <1>7 DEF Range
  <2> SUFFICES ASSUME NEW i \in 1 .. m + n, NEW j \in 1 .. m + n, r[i] = r[j] PROVE i = j
    BY <1>2 DEF IsInjective
  <2>4. CASE i \in 1 .. m /\ j \in 1 .. m
    BY <1>3, <2>1, <2>4
  <2>5. CASE i \in 1 .. m /\ j \notin 1 .. m
    BY <1>3, <1>4, <1>5, <2>3, <2>5
  <2>6. CASE i \notin 1 .. m /\ j \in 1 .. m
    BY <1>3, <1>4, <1>5, <2>3, <2>6
  <2>7. CASE i \notin 1 .. m /\ j \notin 1 .. m
    <3>1. PICK a \in 1 .. n : i = m + a
      BY <1>5, <2>7
    <3>2. PICK b \in 1 .. n : j = m + b
      BY <1>5, <2>7
    <3> QED BY <1>4, <2>2, <3>1, <3>2
  <2> QED BY <2>4, <2>5, <2>6, <2>7
<1> QED BY <1>6, <1>7 DEF r

\* A function with a finite domain has a finite range.
LEMMA FiniteRange ==
  ASSUME NEW f, IsFiniteSet(DOMAIN f)
  PROVE  IsFiniteSet(Range(f))
<1> DEFINE g == [x \in DOMAIN f |-> f[x]]
<1>1. g \in Surjection(DOMAIN f, Range(f))
  BY DEF Surjection, Range
<1> HIDE DEF g
<1> QED BY <1>1, FS_Surjection

\* One element.
LEMMA OnlyOfOne ==
  ASSUME NEW x, NEW T
  PROVE  Only(<<x>>, T) = IF x \in T THEN <<x>> ELSE <<>>
<1>1. <<>> \in Seq({x}) /\ Append(<<>>, x) = <<x>>
  OBVIOUS
<1> DEFINE none == <<>>
<1> HIDE DEF none
<1>2. Only(Append(none, x), T) = IF x \in T THEN Append(Only(none, T), x) ELSE Only(none, T)
  <2>1. none \in Seq({x}) /\ x \in {x}
    BY <1>1 DEF none
  <2> QED BY <2>1, OnlyOfAppend
<1> USE DEF none
<1> QED BY <1>1, <1>2, OnlyOfNone

\* The two of them together.
LEMMA OnlyFacts ==
  ASSUME NEW S, NEW q \in Seq(S), IsInjective(q), NEW T
  PROVE  /\ Only(q, T) \in Seq(S) /\ IsInjective(Only(q, T))
         /\ Range(Only(q, T)) = Range(q) \cap T
BY OnlyType, OnlyOnce

\* Two sequences that share nothing, one after the other.
LEMMA ConcatFacts ==
  ASSUME NEW S, NEW p \in Seq(S), NEW q \in Seq(S),
         IsInjective(p), IsInjective(q), Range(p) \cap Range(q) = {}
  PROVE  p \o q \in Seq(S) /\ IsInjective(p \o q) /\ Range(p \o q) = Range(p) \cup Range(q)
<1>1. p \o q \in Seq(S)
  BY ConcatProperties
<1>2. IsInjective(p \o q)
  BY ConcatOnce
<1>3. Range(p \o q) = Range(p) \cup Range(q)
  BY RangeConcatenation
<1> QED BY <1>1, <1>2, <1>3

\* What is left is the second of two.
LEMMA OnlySecond ==
  ASSUME NEW S, NEW p \in Seq(S), NEW q \in Seq(S), NEW T,
         Range(p) \cap T = {}, Range(q) \subseteq T
  PROVE  Only(p \o q, T) = q
<1>1. Only(p \o q, T) = Only(p, T) \o Only(q, T)
  BY OnlyOfConcat
<1>2. Only(p, T) = <<>> /\ Only(q, T) = q
  BY OnlyAll
<1>3. <<>> \o q = q
  BY ConcatEmptySeq
<1> QED BY <1>1, <1>2, <1>3

\* A sequence of one element.
One(x) == <<x>>

\* A sequence that begins with x.
LEMMA FirstOne ==
  ASSUME NEW S, NEW x \in S, NEW q \in Seq(S), NEW T
  PROVE  /\ One(x) \in Seq(S) /\ IsInjective(One(x)) /\ Range(One(x)) = {x}
         /\ One(x) \o q \in Seq(S) /\ Range(One(x) \o q) = {x} \cup Range(q)
         /\ Only(One(x) \o q, T) = IF x \in T THEN One(x) \o Only(q, T) ELSE Only(q, T)
<1>1. One(x) \in Seq(S) /\ DOMAIN One(x) = {1} /\ One(x)[1] = x
  BY DEF One
<1>2. Only(One(x), T) = IF x \in T THEN One(x) ELSE <<>>
  BY OnlyOfOne DEF One
<1>3. IsInjective(One(x)) /\ Range(One(x)) = {x}
  BY <1>1 DEF IsInjective, Range
<1>4. One(x) \o q \in Seq(S) /\ Range(One(x) \o q) = {x} \cup Range(q)
  BY <1>1, <1>3, RangeConcatenation, ConcatProperties
<1>5. Only(One(x) \o q, T) = Only(One(x), T) \o Only(q, T)
  BY <1>1, OnlyOfConcat
<1>6. Only(q, T) \in Seq(S) /\ <<>> \o Only(q, T) = Only(q, T)
  BY OnlyType, ConcatEmptySeq
<1> QED BY <1>1, <1>2, <1>3, <1>4, <1>5, <1>6

\* A sequence that ends with x.
LEMMA LastOne ==
  ASSUME NEW S, NEW q \in Seq(S), NEW x \in S
  PROVE  /\ Append(q, x) \in Seq(S) /\ Append(q, x) = q \o One(x)
         /\ Range(Append(q, x)) = Range(q) \cup {x}
         /\ IsInjective(q) /\ x \notin Range(q) => IsInjective(Append(q, x))
<1>1. One(x) \in Seq(S) /\ IsInjective(One(x)) /\ Range(One(x)) = {x}
  BY FirstOne
<1>2. Append(q, x) = q \o One(x) /\ Append(q, x) \in Seq(S)
  BY AppendIsConcat, AppendProperties DEF One
<1>3. Range(q \o One(x)) = Range(q) \cup {x}
  BY <1>1, RangeConcatenation
<1>4. IsInjective(q) /\ x \notin Range(q) => IsInjective(q \o One(x))
  BY <1>1, ConcatOnce
<1> QED BY <1>2, <1>3, <1>4

\* A sequence that is not empty is its first element and the others.
LEMMA HeadAndTail ==
  ASSUME NEW S, NEW q \in Seq(S), q # <<>>
  PROVE  Head(q) \in S /\ Tail(q) \in Seq(S) /\ q = One(Head(q)) \o Tail(q)
<1>1. Head(q) \in S /\ Tail(q) \in Seq(S)
  BY HeadTailProperties
<1>2. 1 \in 1 .. Len(q) /\ Len(q) \in 1 .. Len(q)
  BY EmptySeq
<1>3. SubSeq(q, 1, Len(q)) = <<q[1]>> \o SubSeq(q, 1 + 1, Len(q))
  BY <1>2, SubSeqRecursiveFirst
<1>4. SubSeq(q, 1, Len(q)) = q /\ Tail(q) = SubSeq(q, 2, Len(q)) /\ Head(q) = q[1]
  BY SubSeqFull, TailIsSubSeq
<1>5. 1 + 1 = 2
  OBVIOUS
<1> QED BY <1>1, <1>3, <1>4, <1>5 DEF One

\* A bounded set of numbers that is not empty has a greatest one.
LEMMA Greatest ==
  ASSUME NEW n \in Nat, NEW U, U \subseteq 0 .. n, U # {}
  PROVE  \E x \in U : \A y \in U : x >= y
<1> DEFINE V == {n - x : x \in U}
<1>1. V \subseteq Nat /\ V # {}
  <2>1. \A x \in U : x \in 0 .. n
    OBVIOUS
  <2>2. \A x \in U : n - x \in Nat
    BY <2>1
  <2>3. PICK x \in U : TRUE
    OBVIOUS
  <2>4. n - x \in V
    OBVIOUS
  <2> QED BY <2>2, <2>4
<1> HIDE DEF V
<1>2. PICK v \in V : \A w \in V : v <= w
  BY <1>1, Least
<1>3. PICK x \in U : v = n - x
  BY DEF V
<1>4. \A y \in U : n - x <= n - y
  BY <1>2, <1>3 DEF V
<1>5. \A y \in U : x \in Int /\ y \in Int
  OBVIOUS
<1> QED BY <1>4, <1>5

\* X is a part of D; C is what of D is not in p, and Y what of X is not.
Halves(p, D, X, C, Y) == X \subseteq D /\ C = D \ Range(p) /\ Y = X \ Range(p)

\* A sequence of what p has, before what only q has, and what of it is left.
LEMMA OnlyOfBoth ==
  ASSUME NEW S, NEW p \in Seq(S), NEW q \in Seq(S), NEW D, NEW X, NEW C, NEW Y,
         Halves(p, D, X, C, Y)
  PROVE  Only(Only(p, D) \o Only(q, C), X) = Only(p, X) \o Only(q, Y)
<1> DEFINE a == Only(p, D)
           b == Only(q, C)
<1>1. a \in Seq(S) /\ b \in Seq(S)
  BY OnlyType
<1>2. Only(a, X) = Only(p, D \cap X) /\ Only(b, X) = Only(q, C \cap X)
  BY OnlyTwice
<1>3. D \cap X = X /\ C \cap X = Y
  BY DEF Halves
<1> HIDE DEF a, b
<1>4. Only(a \o b, X) = Only(a, X) \o Only(b, X)
  BY <1>1, OnlyOfConcat, SMTT(30)
<1> QED BY <1>2, <1>3, <1>4 DEF a, b

\* What is left of the second of the two.
LEMMA OnlyOfSecond ==
  ASSUME NEW S, NEW p \in Seq(S), NEW q \in Seq(S), NEW D, NEW X, NEW C, NEW Y,
         Halves(p, D, X, C, Y)
  PROVE  /\ Only(Only(q, X), Y) = Only(q, Y)
         /\ Only(Only(Only(p, D) \o Only(q, C), X), Y) = Only(q, Y)
<1> DEFINE a == Only(p, X)
           b == Only(q, Y)
<1>1. Only(Only(p, D) \o Only(q, C), X) = a \o b
  BY OnlyOfBoth
<1>2. Only(Only(q, X), Y) = Only(q, Y)
  <2>1. X \cap Y = Y
    BY DEF Halves
  <2>2. Only(Only(q, X), Y) = Only(q, X \cap Y)
    BY OnlyTwice
  <2> QED BY <2>1, <2>2
<1>3. a \in Seq(S) /\ Range(a) = Range(p) \cap X
  BY OnlyType
<1>4. b \in Seq(S) /\ Range(b) = Range(q) \cap Y
  BY OnlyType
<1>5. Range(a) \cap Y = {} /\ Range(b) \subseteq Y
  BY <1>3, <1>4 DEF Halves
<1> HIDE DEF a, b
<1>6. Only(a \o b, Y) = b
  BY <1>3, <1>4, <1>5, OnlySecond
<1> QED BY <1>1, <1>2, <1>6 DEF b

\* Replacing the second part by what agrees with the whole changes nothing.
LEMMA OnlyReplaced ==
  ASSUME NEW S, NEW p \in Seq(S), NEW q \in Seq(S), NEW r \in Seq(S), NEW D, NEW X, NEW C, NEW Y,
         Halves(p, D, X, C, Y)
  PROVE  Only(r, X) = Only(Only(p, D) \o Only(q, C), X)
           => Only(Only(p, D) \o Only(r, C), X) = Only(r, X)
<1>1. Only(Only(p, D) \o Only(q, C), X) = Only(p, X) \o Only(q, Y)
  BY OnlyOfBoth
<1>2. Only(Only(p, D) \o Only(r, C), X) = Only(p, X) \o Only(r, Y)
  BY OnlyOfBoth
<1>3. Only(Only(r, X), Y) = Only(r, Y)
  BY OnlyOfSecond
<1>4. Only(Only(Only(p, D) \o Only(q, C), X), Y) = Only(q, Y)
  BY OnlyOfSecond
<1> QED BY <1>1, <1>2, <1>3, <1>4

\* What remains of a sequence around a middle that is put back.
LEMMA MiddleBack ==
  ASSUME NEW S, NEW q \in Seq(S), NEW p \in Nat, NEW r \in Nat, p + r <= Len(q)
  PROVE  SubSeq(q, 1, p) \o SubSeq(q, p + 1, Len(q) - r) \o SubSeq(q, Len(q) - r + 1, Len(q)) = q
<1> DEFINE n == Len(q)
           k == n - r
<1>1. n \in Nat /\ k \in Nat /\ p <= k /\ k <= n /\ 1 \in 1 .. n + 1
  OBVIOUS
<1> HIDE DEF n, k
<1>2. SubSeq(q, 1, p) \o SubSeq(q, p + 1, k) = SubSeq(q, 1, k)
  <2>1. p \in 1 - 1 .. n /\ k \in p .. n
    BY <1>1
  <2> QED BY <1>1, <2>1, ConcatAdjacentSubSeq DEF n
<1>3. SubSeq(q, 1, k) \o SubSeq(q, k + 1, n) = SubSeq(q, 1, n)
  <2>1. k \in 1 - 1 .. n /\ n \in k .. n
    BY <1>1
  <2> QED BY <1>1, <2>1, ConcatAdjacentSubSeq DEF n
<1>4. SubSeq(q, 1, n) = q
  BY SubSeqFull DEF n
<1> QED BY <1>2, <1>3, <1>4 DEF n, k

\* A sequence without elements.
LEMMA NoElements ==
  ASSUME NEW S, NEW q \in Seq(S), Range(q) = {}
  PROVE  q = <<>>
<1>1. Only(q, {}) = q
  BY OnlyAll
<1>2. Only(q, {}) = <<>>
  BY OnlyAll
<1> QED BY <1>1, <1>2
=============================================================================
