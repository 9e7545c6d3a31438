------------------------- MODULE DeltaExchangeProofs -------------------------
(***************************************************************************)
(* Proofs about the exchange of deltas: that applying a delta to the state  *)
(* it was encoded against gives exactly the state it was encoded from, that *)
(* a portable delta can be replayed, and that the exchange of deltas        *)
(* implements the exchange of states.                                       *)
(***************************************************************************)
EXTENDS DeltaExchange, SequenceFacts

(***************************************************************************)
(* Records.  A state that is being assembled has elements whose owner is    *)
(* still to be derived; what follows is about these too.                    *)
(***************************************************************************)
Loose == [id : Id, owned : Seq(Id), owner : Id \cup {Null, Unspelled, Implied}, body : Bodies]

AreRecords(s) == s \in Seq(Loose) /\ Distinct(s)

IsState(m) ==
  /\ DOMAIN m \subseteq Id /\ IsFiniteSet(DOMAIN m)
  /\ \A id \in DOMAIN m : m[id] \in Loose /\ m[id].id = id

\* Records, by position and by id.
Arranged(s) ==
  /\ Len(s) \in Nat /\ DOMAIN s = 1 .. Len(s)
  /\ \A i \in 1 .. Len(s) : s[i] \in Loose /\ s[i].id \in Ids(s)
  /\ \A i, j \in 1 .. Len(s) : s[i].id = s[j].id => i = j
  /\ Ids(s) \subseteq Id
  /\ \A id \in Ids(s) : /\ At(s, id) \in 1 .. Len(s) /\ s[At(s, id)].id = id
                        /\ Named(s, id) \in Loose /\ Named(s, id).id = id
  /\ \A i \in 1 .. Len(s) : At(s, s[i].id) = i /\ Named(s, s[i].id) = s[i]

\* Records have one element under an id, at one position.
LEMMA RecordsArranged ==
  ASSUME NEW s, AreRecords(s)
  PROVE  Arranged(s)
<1>1. /\ Len(s) \in Nat /\ DOMAIN s = 1 .. Len(s)
      /\ \A i \in 1 .. Len(s) : s[i] \in Loose
  BY DEF AreRecords
<1>2. \A i, j \in 1 .. Len(s) : s[i].id = s[j].id => i = j
  BY <1>1 DEF AreRecords, Distinct
<1>3. \A i \in 1 .. Len(s) : s[i].id \in Ids(s) /\ s[i].id \in Id
  BY <1>1 DEF Ids, Loose
<1>4. Ids(s) \subseteq Id
  BY <1>1, <1>3 DEF Ids
<1>5. ASSUME NEW id \in Ids(s)
      PROVE  /\ At(s, id) \in 1 .. Len(s) /\ s[At(s, id)].id = id
             /\ Named(s, id) \in Loose /\ Named(s, id).id = id
  <2>1. \E i \in DOMAIN s : s[i].id = id
    BY DEF Ids
  <2>2. At(s, id) \in DOMAIN s /\ s[At(s, id)].id = id
    BY <2>1 DEF At
  <2> QED BY <1>1, <2>2 DEF Named
<1>6. ASSUME NEW i \in 1 .. Len(s) PROVE At(s, s[i].id) = i /\ Named(s, s[i].id) = s[i]
  <2>1. At(s, s[i].id) \in 1 .. Len(s) /\ s[At(s, s[i].id)].id = s[i].id
    BY <1>3, <1>5
  <2>2. At(s, s[i].id) = i
    BY <1>2, <2>1
  <2> QED BY <2>2 DEF Named
<1> QED BY <1>1, <1>2, <1>3, <1>4, <1>5, <1>6 DEF Arranged

\* A payload's elements are records.
LEMMA PayloadIsRecords ==
  ASSUME NEW s
  PROVE  IsPayload(s) <=> AreRecords(s) /\ \A i \in 1 .. Len(s) : s[i] \in Element
<1>1. Element \subseteq Loose
  BY DEF Element, Loose
<1>2. ASSUME IsPayload(s) PROVE AreRecords(s) /\ \A i \in 1 .. Len(s) : s[i] \in Element
  <2>1. s \in Seq(Element) /\ Distinct(s)
    BY <1>2 DEF IsPayload
  <2>2. s \in Seq(Loose)
    BY <1>1, <2>1, SeqMonotonic
  <2>3. \A i \in 1 .. Len(s) : s[i] \in Element
    BY <2>1, ElementOfSeq
  <2> QED BY <2>1, <2>2, <2>3 DEF AreRecords
<1>3. ASSUME AreRecords(s), \A i \in 1 .. Len(s) : s[i] \in Element PROVE IsPayload(s)
  <2>1. s \in Seq(Loose) /\ Distinct(s)
    BY <1>3 DEF AreRecords
  <2>2. s \in [1 .. Len(s) -> Loose] /\ Len(s) \in Nat
    BY <2>1, LenProperties
  <2>3. s \in [1 .. Len(s) -> Element]
    BY <1>3, <2>2
  <2>4. s \in Seq(Element)
    BY <2>2, <2>3
  <2> QED BY <2>1, <2>4 DEF IsPayload
<1> QED BY <1>2, <1>3

\* The ids, in their order.
LEMMA IdListFacts ==
  ASSUME NEW s, AreRecords(s)
  PROVE  /\ IdList(s) \in Seq(Id) /\ IdList(s) \in Seq(Ids(s)) /\ IsInjective(IdList(s))
         /\ Len(IdList(s)) = Len(s) /\ Range(IdList(s)) = Ids(s)
         /\ \A i \in 1 .. Len(s) : IdList(s)[i] = s[i].id
<1>1. Arranged(s)
  BY RecordsArranged
<1>2. IdList(s) = [i \in 1 .. Len(s) |-> s[i].id]
  BY <1>1 DEF IdList, Arranged
<1>3. IdList(s) \in [1 .. Len(s) -> Ids(s)] /\ IdList(s) \in [1 .. Len(s) -> Id]
  BY <1>1, <1>2 DEF Arranged
<1>4. Len(s) \in Nat
  BY <1>1 DEF Arranged
<1>5. IdList(s) \in Seq(Id) /\ IdList(s) \in Seq(Ids(s))
  BY <1>3, <1>4
<1>6. DOMAIN IdList(s) = 1 .. Len(s) /\ Len(IdList(s)) = Len(s)
  BY <1>2, <1>4, <1>5, LenProperties
<1>7. IsInjective(IdList(s))
  BY <1>1, <1>2, <1>6 DEF Arranged, IsInjective
<1>8. Range(IdList(s)) = Ids(s)
  BY <1>1, <1>2, <1>6 DEF Arranged, Range, Ids
<1> QED BY <1>2, <1>5, <1>6, <1>7, <1>8

\* What records say.
LEMMA StateFacts ==
  ASSUME NEW s, AreRecords(s)
  PROVE  /\ IsState(State(s)) /\ DOMAIN State(s) = Ids(s)
         /\ \A id \in Ids(s) : State(s)[id] = Named(s, id)
<1>1. Arranged(s)
  BY RecordsArranged
<1>2. DOMAIN State(s) = Ids(s) /\ \A id \in Ids(s) : State(s)[id] = Named(s, id)
  BY DEF State
<1>3. IsFiniteSet(Ids(s))
  <2>1. IsFiniteSet(1 .. Len(s))
    BY <1>1, FS_Interval DEF Arranged
  <2>2. DOMAIN IdList(s) = 1 .. Len(s) /\ Range(IdList(s)) = Ids(s)
    BY IdListFacts, LenProperties
  <2> QED BY <2>1, <2>2, FiniteRange
<1>4. IsState(State(s))
  BY <1>1, <1>2, <1>3 DEF Arranged, IsState
<1> QED BY <1>2, <1>4

\* A state in a given order.
LEMMA ListedFacts ==
  ASSUME NEW m, IsState(m), NEW order \in Seq(DOMAIN m), IsInjective(order)
  PROVE  /\ AreRecords(Listed(m, order)) /\ Len(Listed(m, order)) = Len(order)
         /\ IdList(Listed(m, order)) = order /\ Ids(Listed(m, order)) = Range(order)
         /\ \A id \in Range(order) : Named(Listed(m, order), id) = m[id]
         /\ \A i \in 1 .. Len(order) : Listed(m, order)[i] = m[order[i]]
<1> DEFINE n == Len(order)
           s == [k \in 1 .. n |-> m[order[k]]]
<1>1. n \in Nat /\ DOMAIN order = 1 .. n /\ \A k \in 1 .. n : order[k] \in DOMAIN m
  BY LenProperties, ElementOfSeq
<1>2. \A k \in 1 .. n : m[order[k]] \in Loose /\ m[order[k]].id = order[k]
  BY <1>1 DEF IsState
<1>3. s \in Seq(Loose) /\ Len(s) = n
  <2>1. s \in [1 .. n -> Loose]
    BY <1>2
  <2>2. s \in Seq(Loose)
    BY <1>1, <2>1
  <2>3. DOMAIN s = 1 .. n
    OBVIOUS
  <2> HIDE DEF s
  <2>4. Len(s) = n
    BY <1>1, <2>2, <2>3, LenProperties
  <2> QED BY <2>2, <2>4
<1>4. Listed(m, order) = s
  <2>1. [k \in DOMAIN order |-> m[order[k]]] = s
    BY <1>1
  <2> HIDE DEF s
  <2> QED BY <1>3, <2>1, ConcatEmptySeq DEF Listed
<1>5. \A k \in 1 .. n : s[k].id = order[k] /\ s[k] = m[order[k]]
  BY <1>2
<1> HIDE DEF s
<1>6. \A i, j \in 1 .. n : order[i] = order[j] => i = j
  BY <1>1 DEF IsInjective
<1>7. DOMAIN s = 1 .. n
  BY <1>3, LenProperties
<1>8. Distinct(s)
  BY <1>5, <1>6, <1>7 DEF Distinct
<1>9. AreRecords(s)
  BY <1>3, <1>8 DEF AreRecords
<1>10. IdList(s) = order
  <2>1. IdList(s) \in Seq(Id) /\ Len(IdList(s)) = n /\ \A i \in 1 .. n : IdList(s)[i] = order[i]
    BY <1>3, <1>5, <1>9, IdListFacts
  <2>2. order \in Seq(Id)
    BY SeqMonotonic DEF IsState
  <2> QED BY <2>1, <2>2, SeqEqual
<1>11. Ids(s) = Range(order)
  BY <1>9, <1>10, IdListFacts
<1>12. ASSUME NEW id \in Range(order) PROVE Named(s, id) = m[id]
  <2>1. PICK k \in 1 .. n : id = order[k]
    BY <1>1, <1>12 DEF Range
  <2>2. Named(s, s[k].id) = s[k]
    BY <1>3, <1>9, RecordsArranged DEF Arranged
  <2> QED BY <1>5, <2>1, <2>2
<1> QED BY <1>3, <1>4, <1>5, <1>9, <1>10, <1>11, <1>12

\* Records are their state in their order.
LEMMA SameRecords ==
  ASSUME NEW s, NEW t, AreRecords(s), AreRecords(t), IdList(s) = IdList(t),
         \A id \in Ids(s) : Named(s, id) = Named(t, id)
  PROVE  s = t
<1>1. Arranged(s) /\ Arranged(t)
  BY RecordsArranged
<1>2. Len(s) = Len(t) /\ \A i \in 1 .. Len(s) : s[i].id = t[i].id
  <2>1. Len(s) = Len(IdList(s)) /\ Len(t) = Len(IdList(t))
    BY IdListFacts
  <2>2. \A i \in 1 .. Len(s) : s[i].id = IdList(s)[i]
    BY IdListFacts
  <2>3. \A i \in 1 .. Len(t) : t[i].id = IdList(t)[i]
    BY IdListFacts
  <2> QED BY <2>1, <2>2, <2>3
<1>3. \A i \in 1 .. Len(s) : s[i] = t[i]
  <2> SUFFICES ASSUME NEW i \in 1 .. Len(s) PROVE s[i] = t[i]
    OBVIOUS
  <2>1. s[i].id \in Ids(s) /\ Named(s, s[i].id) = s[i]
    BY <1>1 DEF Arranged
  <2>2. Named(t, t[i].id) = t[i]
    BY <1>1, <1>2 DEF Arranged
  <2> QED BY <1>2, <2>1, <2>2
<1>4. s \in Seq(Loose) /\ t \in Seq(Loose)
  BY DEF AreRecords
<1> QED BY <1>2, <1>3, <1>4, SeqEqual

----------------------------------------------------------------------------
(***************************************************************************)
(* The walk.  It meets the roots in the order in which it is given them:    *)
(* what it has met of them, followed by what is left of them on its stack,  *)
(* is always all of them.                                                   *)
(***************************************************************************)
WalkInv(m, roots, order, stack) ==
  /\ order \in Seq(DOMAIN m) /\ IsInjective(order)
  /\ stack \in Seq(DOMAIN m)
  /\ Only(order, RootIds(m)) \o Only(stack, RootIds(m)) = roots

\* What an element owns is there, and none of it is a root.
LEMMA OwnedByFacts ==
  ASSUME NEW m, IsState(m), NEW id \in DOMAIN m
  PROVE  OwnedBy(m, id) \in Seq(DOMAIN m) /\ Range(OwnedBy(m, id)) \cap RootIds(m) = {}
<1>1. m[id].owned \in Seq(Id)
  BY DEF IsState, Loose
<1>2. OwnedBy(m, id) \in Seq(DOMAIN m)
  BY <1>1, OnlyType DEF OwnedBy
<1> QED BY <1>2 DEF RootIds

\* An element met before is no root.
LEMMA MetAgain ==
  ASSUME NEW D, NEW R, NEW order \in Seq(D), NEW id \in D, NEW rest \in Seq(D),
         id \in Range(order), IsInjective(Only(order, R) \o Only(One(id) \o rest, R))
  PROVE  Only(One(id) \o rest, R) = Only(rest, R)
<1>1. /\ Only(One(id) \o rest, R) = IF id \in R THEN One(id) \o Only(rest, R) ELSE Only(rest, R)
      /\ One(id) \o rest \in Seq(D) /\ Range(One(id) \o rest) = {id} \cup Range(rest)
  BY FirstOne
<1>2. /\ Only(order, R) \in Seq(D) /\ Range(Only(order, R)) = Range(order) \cap R
      /\ Only(One(id) \o rest, R) \in Seq(D)
      /\ Range(Only(One(id) \o rest, R)) = Range(One(id) \o rest) \cap R
  BY <1>1, OnlyType
<1>3. Range(Only(order, R)) \cap Range(Only(One(id) \o rest, R)) = {}
  BY <1>2, ConcatOnce
<1>4. id \notin R
  BY <1>1, <1>2, <1>3
<1> QED BY <1>1, <1>4

\* An element met for the first time goes from the stack to the order.
LEMMA MetFirst ==
  ASSUME NEW D, NEW R, NEW order \in Seq(D), NEW id \in D, NEW rest \in Seq(D),
         NEW owned \in Seq(D), Range(owned) \cap R = {}
  PROVE  Only(Append(order, id), R) \o Only(owned \o rest, R)
           = Only(order, R) \o Only(One(id) \o rest, R)
<1>1. /\ Only(One(id) \o rest, R) = IF id \in R THEN One(id) \o Only(rest, R) ELSE Only(rest, R)
      /\ One(id) \in Seq(D)
  BY FirstOne, SMTT(30)
<1>2. Only(order, R) \in Seq(D) /\ Only(rest, R) \in Seq(D)
  BY OnlyType
<1>3. Only(Append(order, id), R)
        = IF id \in R THEN Append(Only(order, R), id) ELSE Only(order, R)
  BY OnlyOfAppend
<1>4. Append(Only(order, R), id) = Only(order, R) \o One(id)
  BY <1>2, LastOne
<1>5. Only(owned \o rest, R) = Only(rest, R)
  <2>1. Only(owned \o rest, R) = Only(owned, R) \o Only(rest, R)
    BY OnlyOfConcat
  <2>2. Only(owned, R) = <<>>
    BY OnlyAll
  <2> QED BY <1>2, <2>1, <2>2, ConcatEmptySeq
<1>6. (Only(order, R) \o One(id)) \o Only(rest, R) = Only(order, R) \o (One(id) \o Only(rest, R))
  BY <1>1, <1>2, ConcatAssociative, SMTT(30)
<1>7. CASE id \in R
  BY <1>1, <1>3, <1>4, <1>5, <1>6, <1>7
<1>8. CASE id \notin R
  BY <1>1, <1>3, <1>5, <1>8
<1> QED BY <1>7, <1>8

\* A step of the walk keeps the invariant of the walk.
LEMMA VisitKeeps ==
  ASSUME NEW m, IsState(m), NEW roots \in Seq(DOMAIN m), IsInjective(roots),
         NEW w, WalkInv(m, roots, w.order, w.stack)
  PROVE  WalkInv(m, roots, Visit(m, w).order, Visit(m, w).stack)
<1> DEFINE D == DOMAIN m
           R == RootIds(m)
           id == Head(w.stack)
           rest == Tail(w.stack)
<1>1. /\ w.order \in Seq(D) /\ IsInjective(w.order)
      /\ Only(w.order, R) \o Only(w.stack, R) = roots
      /\ w.stack \in Seq(D)
  BY DEF WalkInv
<1>2. CASE w.stack = <<>>
  BY <1>2 DEF Visit
<1>3. CASE w.stack # <<>>
  <2>1. id \in D /\ rest \in Seq(D) /\ w.stack = One(id) \o rest
    BY <1>1, <1>3, HeadAndTail
  <2>2. CASE id \in Range(w.order)
    <3>1. Visit(m, w).order = w.order /\ Visit(m, w).stack = rest
      BY <1>3, <2>2 DEF Visit
    <3> HIDE DEF R, id, rest, D
    <3> DEFINE order == w.order
    <3>2. Only(w.stack, R) = Only(rest, R)
      <4>1. order \in Seq(D) /\ id \in Range(order)
        BY <1>1, <2>2
      <4>2. IsInjective(Only(order, R) \o Only(One(id) \o rest, R))
        BY <1>1, <2>1
      <4> HIDE DEF order
      <4>3. Only(One(id) \o rest, R) = Only(rest, R)
        BY <2>1, <4>1, <4>2, MetAgain
      <4> QED BY <2>1, <4>3
    <3>3. Only(w.order, R) \o Only(rest, R) = roots
      BY <1>1, <3>2
    <3>4. WalkInv(m, roots, w.order, rest)
      BY <1>1, <2>1, <3>3 DEF WalkInv, R, D
    <3> QED BY <3>1, <3>4
  <2>3. CASE id \notin Range(w.order)
    <3> DEFINE order == Append(w.order, id)
               owned == OwnedBy(m, id)
               stack == owned \o rest
    <3>1. Visit(m, w).order = order /\ Visit(m, w).stack = stack
      BY <1>3, <2>3 DEF Visit
    <3>2. owned \in Seq(D) /\ Range(owned) \cap R = {}
      BY <2>1, OwnedByFacts
    <3> HIDE DEF R, id, rest, owned, D
    <3>3. stack \in Seq(D)
      BY <2>1, <3>2, ConcatProperties
    <3>4. order \in Seq(D) /\ IsInjective(order)
      BY <1>1, <2>1, <2>3, LastOne
    <3>5. Only(order, R) \o Only(stack, R) = Only(w.order, R) \o Only(w.stack, R)
      <4> DEFINE met == w.order
      <4>1. met \in Seq(D)
        BY <1>1
      <4> HIDE DEF met
      <4>2. Only(Append(met, id), R) \o Only(owned \o rest, R)
              = Only(met, R) \o Only(One(id) \o rest, R)
        BY <2>1, <3>2, <4>1, MetFirst, SMTT(30)
      <4> QED BY <2>1, <4>2 DEF met
    <3> HIDE DEF order, stack
    <3>6. Only(order, R) \o Only(stack, R) = roots
      BY <1>1, <3>5
    <3>7. WalkInv(m, roots, order, stack)
      BY <3>3, <3>4, <3>6 DEF WalkInv, R, D
    <3> QED BY <3>1, <3>7
  <2> QED BY <2>2, <2>3
<1> QED BY <1>2, <1>3

\* The first n steps of the walk.
IsWalk(f, m, roots, n) ==
  f = [k \in 0 .. n |->
         IF k = 0 THEN [order |-> <<>>, stack |-> roots] ELSE Visit(m, f[k - 1])]

\* There is such a walk of any length.
LEMMA WalkExists ==
  ASSUME NEW m, NEW roots
  PROVE  \A n \in Nat : \E f : IsWalk(f, m, roots, n)
<1> DEFINE Done == {k \in Nat : \E f : IsWalk(f, m, roots, k)}
<1>1. 0 \in Done
  <2>1. IsWalk([k \in 0 .. 0 |-> [order |-> <<>>, stack |-> roots]], m, roots, 0)
    BY DEF IsWalk
  <2> QED BY <2>1
<1>2. ASSUME NEW k \in Nat, k \in Done PROVE k + 1 \in Done
  <2>1. PICK f : IsWalk(f, m, roots, k)
    BY <1>2
  <2> DEFINE next == Visit(m, f[k])
             g == [i \in 0 .. (k + 1) |-> IF i = k + 1 THEN next ELSE f[i]]
  <2> HIDE DEF next
  <2>2. \A i \in 0 .. k : g[i] = f[i]
    OBVIOUS
  <2>3. g[k + 1] = Visit(m, g[k])
    <3>1. g[k + 1] = next /\ g[k] = f[k]
      BY <2>2
    <3> HIDE DEF g
    <3> QED BY <3>1 DEF next
  <2>4. ASSUME NEW i \in 1 .. k PROVE g[i] = Visit(m, g[i - 1])
    <3>1. i \in 0 .. k /\ i - 1 \in 0 .. k /\ i # 0
      OBVIOUS
    <3>2. f[i] = Visit(m, f[i - 1])
      BY <2>1, <3>1 DEF IsWalk
    <3>3. g[i] = f[i] /\ g[i - 1] = f[i - 1]
      BY <2>2, <3>1
    <3> HIDE DEF g
    <3> QED BY <3>2, <3>3
  <2>5. g[0] = [order |-> <<>>, stack |-> roots]
    <3>1. g[0] = f[0] /\ 0 \in 0 .. k
      BY <2>2
    <3> HIDE DEF g
    <3> QED BY <2>1, <3>1 DEF IsWalk
  <2>6. g = [i \in 0 .. (k + 1) |-> g[i]]
    OBVIOUS
  <2> HIDE DEF g
  <2>7. ASSUME NEW i \in 0 .. (k + 1)
        PROVE  g[i] = IF i = 0 THEN [order |-> <<>>, stack |-> roots]
                      ELSE Visit(m, g[i - 1])
    <3>1. CASE i = 0
      BY <2>5, <3>1
    <3>2. CASE i \in 1 .. k
      <4>1. i # 0
        BY <3>2
      <4> QED BY <2>4, <3>2, <4>1
    <3>3. CASE i = k + 1
      <4>1. i # 0 /\ i - 1 = k
        BY <3>3
      <4> QED BY <2>3, <3>3, <4>1
    <3>4. i = 0 \/ i \in 1 .. k \/ i = k + 1
      OBVIOUS
    <3> QED BY <3>1, <3>2, <3>3, <3>4
  <2>8. IsWalk(g, m, roots, k + 1)
    BY <2>6, <2>7 DEF IsWalk
  <2> QED BY <2>8
<1> HIDE DEF Done
<1>3. \A k \in Nat : k \in Done
  BY <1>1, <1>2, SetInduction
<1> QED BY <1>3 DEF Done

\* The bound on the walk is a number.
LEMMA PopsType == ASSUME NEW m, IsState(m) PROVE Pops(m) \in Nat
<1> DEFINE claims == [id \in DOMAIN m |-> {id} \X DOMAIN m[id].owned]
<1>1. IsFiniteSet(DOMAIN m)
  BY DEF IsState
<1>2. ASSUME NEW id \in DOMAIN m PROVE IsFiniteSet({id} \X DOMAIN m[id].owned)
  <2>1. m[id].owned \in Seq(Id)
    BY DEF IsState, Loose
  <2>2. DOMAIN m[id].owned = 1 .. Len(m[id].owned) /\ Len(m[id].owned) \in Nat
    BY <2>1, LenProperties
  <2>3. IsFiniteSet(DOMAIN m[id].owned)
    BY <2>2, FS_Interval
  <2>4. IsFiniteSet({id})
    BY FS_Singleton
  <2> QED BY <2>3, <2>4, FS_Product
<1>3. Range(claims) = {{id} \X DOMAIN m[id].owned : id \in DOMAIN m}
  BY DEF Range
<1>4. \A T \in Range(claims) : IsFiniteSet(T)
  BY <1>2, <1>3
<1>5. IsFiniteSet(Range(claims))
  <2>1. IsFiniteSet(DOMAIN claims)
    BY <1>1
  <2> HIDE DEF claims
  <2> QED BY <2>1, FiniteRange
<1> HIDE DEF claims
<1>6. IsFiniteSet(UNION Range(claims))
  BY <1>4, <1>5, FS_UNION
<1>7. /\ Cardinality(DOMAIN m) \in Nat
      /\ Cardinality(UNION {{id} \X DOMAIN m[id].owned : id \in DOMAIN m}) \in Nat
  BY <1>1, <1>3, <1>6, FS_CardinalityType
<1> QED BY <1>7 DEF Pops

\* The walk meets elements that are there, each once, and the roots in order.
LEMMA WalkFacts ==
  ASSUME NEW m, IsState(m), NEW roots \in Seq(DOMAIN m), IsInjective(roots),
         Range(roots) \subseteq RootIds(m)
  PROVE  \E stack : WalkInv(m, roots, Reached(m, roots), stack)
<1> DEFINE n == Pops(m)
           f == CHOOSE f : IsWalk(f, m, roots, n)
<1>1. n \in Nat
  BY PopsType
<1>2. IsWalk(f, m, roots, n)
  <2> HIDE DEF n
  <2>1. \E h : IsWalk(h, m, roots, n)
    BY <1>1, WalkExists
  <2> QED BY <2>1
<1>3. Reached(m, roots) = f[n].order
  BY DEF Reached, IsWalk
<1> HIDE DEF f, n
<1> DEFINE Done == {k \in Nat : k <= n => WalkInv(m, roots, f[k].order, f[k].stack)}
<1>4. 0 \in Done
  <2>1. f[0] = [order |-> <<>>, stack |-> roots]
    <3>1. 0 \in 0 .. n
      BY <1>1
    <3> QED BY <1>2, <3>1 DEF IsWalk
  <2>2. Only(roots, RootIds(m)) = roots
    BY OnlyAll
  <2>3. Only(<<>>, RootIds(m)) = <<>> /\ <<>> \o roots = roots
    BY OnlyOfNone, ConcatEmptySeq
  <2>4. <<>> \in Seq(DOMAIN m) /\ IsInjective(<<>>)
    BY DEF IsInjective
  <2>5. WalkInv(m, roots, f[0].order, f[0].stack)
    BY <2>1, <2>2, <2>3, <2>4 DEF WalkInv
  <2> QED BY <2>1, <2>5
<1>5. ASSUME NEW k \in Nat, k \in Done PROVE k + 1 \in Done
  <2> SUFFICES ASSUME k + 1 <= n
               PROVE  WalkInv(m, roots, f[k + 1].order, f[k + 1].stack)
    OBVIOUS
  <2>1. k + 1 \in 0 .. n /\ k + 1 # 0 /\ (k + 1) - 1 = k /\ k <= n
    BY <1>1
  <2>2. f[k + 1] = Visit(m, f[k])
    BY <1>2, <2>1 DEF IsWalk
  <2>3. WalkInv(m, roots, f[k].order, f[k].stack)
    BY <1>5, <2>1
  <2>4. WalkInv(m, roots, f[k + 1].order, f[k + 1].stack)
    BY <2>2, <2>3, VisitKeeps
  <2> QED BY <2>4
<1> HIDE DEF Done
<1>6. n \in Done
  BY <1>1, <1>4, <1>5, SetInduction
<1>7. WalkInv(m, roots, f[n].order, f[n].stack)
  BY <1>1, <1>6 DEF Done
<1>8. WalkInv(m, roots, Reached(m, roots), f[n].stack)
  BY <1>3, <1>7
<1> QED BY <1>8

----------------------------------------------------------------------------
(***************************************************************************)
(* The canonical order.  It keeps the order of the roots and that of what   *)
(* no root reaches, and nothing else of the order it is given decides it.   *)
(***************************************************************************)
Rest(s) == Ids(s) \ Range(Reached(State(s), Roots(s)))

\* What is put behind what has been met does not disturb the roots.
LEMMA RootsStay ==
  ASSUME NEW D, NEW R, NEW q \in Seq(D), NEW met \in Seq(D), NEW stack \in Seq(D),
         IsInjective(Only(q, R)), Only(met, R) \o Only(stack, R) = Only(q, R)
  PROVE  Only(met \o Only(q, D \ Range(met)), R) = Only(q, R)
<1> DEFINE rest == D \ Range(met)
           a == Only(met, R)
           b == Only(stack, R)
<1>1. /\ a \in Seq(D) /\ Range(a) = Range(met) \cap R
      /\ b \in Seq(D) /\ Range(b) = Range(stack) \cap R /\ Range(stack) \subseteq D
      /\ Only(q, rest) \in Seq(D) /\ Only(q, R) \in Seq(D)
  BY OnlyType, RangeOfSeq
<1> HIDE DEF a, b
<1>2. Range(a) \cap Range(b) = {}
  <2>1. a \in Seq(D) /\ b \in Seq(D)
    BY <1>1
  <2>2. IsInjective(a \o b)
    BY DEF a, b
  <2> HIDE DEF a, b
  <2> QED BY <2>1, <2>2, ConcatOnce
<1>3. Range(b) \subseteq rest /\ Range(a) \cap rest = {}
  BY <1>1, <1>2
<1>4. Only(met \o Only(q, rest), R) = a \o Only(Only(q, rest), R)
  <2> DEFINE r == Only(q, rest)
  <2>1. r \in Seq(D)
    BY <1>1
  <2> HIDE DEF r
  <2>2. Only(met \o r, R) = Only(met, R) \o Only(r, R)
    BY <2>1, OnlyOfConcat
  <2> QED BY <2>2 DEF a, r
<1>5. Only(Only(q, rest), R) = Only(Only(q, R), rest)
  <2>1. Only(Only(q, rest), R) = Only(q, rest \cap R)
    BY OnlyTwice
  <2>2. Only(Only(q, R), rest) = Only(q, R \cap rest)
    BY OnlyTwice
  <2>3. rest \cap R = R \cap rest
    OBVIOUS
  <2> HIDE DEF rest
  <2> QED BY <2>1, <2>2, <2>3
<1>6. Only(a \o b, rest) = b
  BY <1>1, <1>3, OnlySecond
<1>7. Only(q, R) = a \o b
  BY DEF a, b
<1> HIDE DEF a, b, rest
<1>8. Only(met \o Only(q, rest), R) = Only(q, R)
  BY <1>4, <1>5, <1>6, <1>7
<1> QED BY <1>8 DEF rest

\* The roots of records are the elements nothing owns, each once.
LEMMA RootsFacts ==
  ASSUME NEW s, AreRecords(s)
  PROVE  /\ Roots(s) \in Seq(Ids(s)) /\ IsInjective(Roots(s))
         /\ RootIds(State(s)) \subseteq Ids(s) /\ Range(Roots(s)) = RootIds(State(s))
<1>1. RootIds(State(s)) \subseteq Ids(s)
  BY StateFacts DEF RootIds
<1>2. IdList(s) \in Seq(Ids(s)) /\ IsInjective(IdList(s)) /\ Range(IdList(s)) = Ids(s)
  BY IdListFacts
<1> DEFINE q == IdList(s)
           R == RootIds(State(s))
           D == Ids(s)
<1> HIDE DEF q, R, D
<1>3. Only(q, R) \in Seq(D) /\ IsInjective(Only(q, R)) /\ Range(Only(q, R)) = Range(q) \cap R
  <2>1. q \in Seq(D) /\ IsInjective(q)
    BY <1>2 DEF q, D
  <2> QED BY <2>1, OnlyFacts
<1> QED BY <1>1, <1>2, <1>3 DEF Roots, q, R, D

\* The walk from the roots.
LEMMA ReachedFacts ==
  ASSUME NEW s, AreRecords(s)
  PROVE  \E stack : WalkInv(State(s), Roots(s), Reached(State(s), Roots(s)), stack)
<1>1. IsState(State(s)) /\ DOMAIN State(s) = Ids(s)
  BY StateFacts
<1>2. /\ Roots(s) \in Seq(DOMAIN State(s)) /\ IsInjective(Roots(s))
      /\ Range(Roots(s)) \subseteq RootIds(State(s))
  BY <1>1, RootsFacts
<1> QED BY <1>1, <1>2, WalkFacts

\* The canonical order has every element once, the roots and what no root
\* reaches in the order they were given in.
LEMMA PreorderFacts ==
  ASSUME NEW s, AreRecords(s)
  PROVE  /\ OwnershipPreorder(s) \in Seq(Ids(s)) /\ IsInjective(OwnershipPreorder(s))
         /\ Range(OwnershipPreorder(s)) = Ids(s)
         /\ Only(OwnershipPreorder(s), RootIds(State(s))) = Roots(s)
         /\ Only(OwnershipPreorder(s), Rest(s)) = Only(IdList(s), Rest(s))
<1> DEFINE D == Ids(s)
           R == RootIds(State(s))
           q == IdList(s)
           met == Reached(State(s), Roots(s))
           rest == Rest(s)
           tail == Only(q, rest)
<1>1. q \in Seq(D) /\ IsInjective(q) /\ Range(q) = D
  BY IdListFacts
<1>2. DOMAIN State(s) = D
  BY StateFacts
<1>3. PICK stack : WalkInv(State(s), Roots(s), met, stack)
  BY ReachedFacts
<1>4. /\ met \in Seq(D) /\ IsInjective(met) /\ stack \in Seq(D)
      /\ Only(met, R) \o Only(stack, R) = Only(q, R)
  BY <1>2, <1>3 DEF WalkInv, Roots
<1>5. OwnershipPreorder(s) = met \o tail /\ rest = D \ Range(met)
  BY DEF OwnershipPreorder, Rest
<1>6. IsInjective(Only(q, R))
  BY <1>1, OnlyOnce
<1>7. Only(q, R) = Roots(s)
  BY DEF Roots
<1> HIDE DEF D, R, q, met, rest
<1>8. Range(met) \subseteq D
  BY <1>4, RangeOfSeq
<1>9. tail \in Seq(D) /\ IsInjective(tail) /\ Range(tail) = rest
  BY <1>1, <1>5, OnlyFacts
<1>10. Only(met \o tail, R) = Only(q, R)
  BY <1>1, <1>4, <1>5, <1>6, RootsStay
<1> HIDE DEF tail
<1>11. /\ met \in Seq(D) /\ IsInjective(met) /\ Range(met) \cap Range(tail) = {}
       /\ Range(met) \cap rest = {} /\ Range(tail) \subseteq rest
       /\ Range(met) \cup Range(tail) = D
  BY <1>4, <1>5, <1>8, <1>9
<1>12. Only(met \o tail, rest) = tail
  BY <1>9, <1>11, OnlySecond
<1>13. met \o tail \in Seq(D) /\ IsInjective(met \o tail) /\ Range(met \o tail) = D
  BY <1>9, <1>11, ConcatFacts, ZenonT(30)
<1> QED BY <1>5, <1>7, <1>10, <1>12, <1>13 DEF D, R, q, rest, tail

\* The canonical order changes the order only.
LEMMA CanonicalFacts ==
  ASSUME NEW s, AreRecords(s)
  PROVE  /\ AreRecords(Canonical(s)) /\ IdList(Canonical(s)) = OwnershipPreorder(s)
         /\ Ids(Canonical(s)) = Ids(s) /\ State(Canonical(s)) = State(s)
         /\ \A id \in Ids(s) : Named(Canonical(s), id) = Named(s, id)
<1> DEFINE m == State(s)
           order == OwnershipPreorder(s)
           c == Listed(m, order)
<1>1. IsState(m) /\ DOMAIN m = Ids(s) /\ \A id \in Ids(s) : m[id] = Named(s, id)
  BY StateFacts
<1>2. order \in Seq(DOMAIN m) /\ IsInjective(order) /\ Range(order) = Ids(s)
  BY <1>1, PreorderFacts
<1>3. Canonical(s) = c
  BY DEF Canonical
<1> HIDE DEF m, order
<1>4. /\ AreRecords(c) /\ IdList(c) = order /\ Ids(c) = Range(order)
      /\ \A id \in Range(order) : Named(c, id) = m[id]
  BY <1>1, <1>2, ListedFacts
<1> HIDE DEF c
<1>5. \A id \in Ids(s) : Named(c, id) = Named(s, id)
  BY <1>1, <1>2, <1>4
<1>6. State(c) = State(s)
  BY <1>2, <1>4, <1>5 DEF State
<1> QED BY <1>2, <1>3, <1>4, <1>5, <1>6 DEF order

\* Payloads in which the same elements own the same.
SameShape(s, t) ==
  Ids(s) = Ids(t) /\ \A id \in Ids(s) : Named(s, id).owned = Named(t, id).owned

\* Equal ownership and equal roots give equal walks.
LEMMA SameShapeWalk ==
  ASSUME NEW s, NEW t, AreRecords(s), AreRecords(t), SameShape(s, t)
  PROVE  /\ RootIds(State(s)) = RootIds(State(t))
         /\ Roots(s) = Roots(t) => Reached(State(s), Roots(s)) = Reached(State(t), Roots(t))
<1> DEFINE D == Ids(s)
           m == State(s)
           k == State(t)
           roots == Roots(s)
<1>1. /\ IsState(m) /\ DOMAIN m = D /\ IsState(k) /\ DOMAIN k = D
      /\ \A id \in D : m[id].owned = k[id].owned
  BY StateFacts DEF SameShape
<1>2. roots \in Seq(D) /\ IsInjective(roots) /\ Range(roots) \subseteq RootIds(m)
  BY RootsFacts
<1> HIDE DEF D, m, k, roots
<1>3. \A id \in D : OwnedBy(m, id) = OwnedBy(k, id)
  BY <1>1 DEF OwnedBy
<1>4. RootIds(m) = RootIds(k)
  BY <1>1, <1>3 DEF RootIds
<1>5. Pops(m) = Pops(k)
  <2>1. {{id} \X DOMAIN m[id].owned : id \in D} = {{id} \X DOMAIN k[id].owned : id \in D}
    BY <1>1
  <2> QED BY <1>1, <2>1 DEF Pops
<1>6. ASSUME NEW w, w.stack \in Seq(D) PROVE Visit(m, w) = Visit(k, w)
  <2>1. CASE w.stack = <<>>
    BY <2>1 DEF Visit
  <2>2. CASE w.stack # <<>>
    <3>1. Head(w.stack) \in D
      BY <1>6, <2>2, HeadAndTail
    <3>2. OwnedBy(m, Head(w.stack)) = OwnedBy(k, Head(w.stack))
      BY <1>3, <3>1
    <3> QED BY <2>2, <3>2 DEF Visit
  <2> QED BY <2>1, <2>2
<1> DEFINE n == Pops(m)
           f == CHOOSE f : IsWalk(f, m, roots, n)
           g == CHOOSE g : IsWalk(g, k, roots, n)
<1>7. n \in Nat
  BY <1>1, PopsType
<1>8. IsWalk(f, m, roots, n) /\ IsWalk(g, k, roots, n)
  <2> HIDE DEF n
  <2>1. \E h : IsWalk(h, m, roots, n)
    BY <1>7, WalkExists
  <2>2. \E h : IsWalk(h, k, roots, n)
    BY <1>7, WalkExists
  <2> QED BY <2>1, <2>2
<1>9. Reached(m, roots) = f[n].order
  BY DEF Reached, IsWalk
<1>10. Reached(k, roots) = g[n].order
  BY <1>5 DEF Reached, IsWalk
<1> HIDE DEF f, g, n
<1> DEFINE Done == {i \in Nat : i <= n => /\ f[i] = g[i]
                                          /\ WalkInv(m, roots, f[i].order, f[i].stack)}
<1>11. 0 \in Done
  <2>1. f[0] = [order |-> <<>>, stack |-> roots] /\ g[0] = [order |-> <<>>, stack |-> roots]
    <3>1. 0 \in 0 .. n
      BY <1>7
    <3> QED BY <1>8, <3>1 DEF IsWalk
  <2>2. Only(roots, RootIds(m)) = roots
    BY <1>2, OnlyAll
  <2>3. Only(<<>>, RootIds(m)) = <<>> /\ <<>> \o roots = roots
    BY <1>2, OnlyOfNone, ConcatEmptySeq
  <2>4. <<>> \in Seq(D) /\ IsInjective(<<>>)
    BY DEF IsInjective
  <2>5. WalkInv(m, roots, f[0].order, f[0].stack)
    BY <1>1, <1>2, <2>1, <2>2, <2>3, <2>4 DEF WalkInv
  <2> QED BY <2>1, <2>5
<1>12. ASSUME NEW i \in Nat, i \in Done PROVE i + 1 \in Done
  <2> SUFFICES ASSUME i + 1 <= n
               PROVE  f[i + 1] = g[i + 1] /\ WalkInv(m, roots, f[i + 1].order, f[i + 1].stack)
    OBVIOUS
  <2>1. i + 1 \in 0 .. n /\ i + 1 # 0 /\ (i + 1) - 1 = i /\ i <= n
    BY <1>7
  <2>2. f[i + 1] = Visit(m, f[i]) /\ g[i + 1] = Visit(k, g[i])
    BY <1>8, <2>1 DEF IsWalk
  <2>3. f[i] = g[i] /\ WalkInv(m, roots, f[i].order, f[i].stack)
    BY <1>12, <2>1
  <2>4. f[i].stack \in Seq(D)
    BY <1>1, <2>3 DEF WalkInv
  <2>5. f[i + 1] = g[i + 1]
    BY <1>6, <2>2, <2>3, <2>4
  <2>6. WalkInv(m, roots, f[i + 1].order, f[i + 1].stack)
    BY <1>1, <1>2, <2>2, <2>3, VisitKeeps
  <2> QED BY <2>5, <2>6
<1> HIDE DEF Done
<1>13. n \in Done
  BY <1>7, <1>11, <1>12, SetInduction
<1>14. Reached(m, roots) = Reached(k, roots)
  BY <1>7, <1>9, <1>10, <1>13 DEF Done
<1> QED BY <1>4, <1>14 DEF m, k, roots

\* What decides the canonical order.
LEMMA SameOrder ==
  ASSUME NEW s, NEW t, AreRecords(s), AreRecords(t), SameShape(s, t),
         Only(IdList(s), RootIds(State(s))) = Only(IdList(t), RootIds(State(s))),
         Only(IdList(s), Rest(s)) = Only(IdList(t), Rest(s))
  PROVE  OwnershipPreorder(s) = OwnershipPreorder(t)
<1>1. RootIds(State(s)) = RootIds(State(t))
  BY SameShapeWalk
<1>2. Roots(s) = Roots(t)
  BY <1>1 DEF Roots
<1>3. Reached(State(s), Roots(s)) = Reached(State(t), Roots(t))
  BY <1>2, SameShapeWalk
<1>4. Rest(s) = Rest(t)
  BY <1>3 DEF Rest, SameShape
<1>5. OwnershipPreorder(s) = Reached(State(s), Roots(s)) \o Only(IdList(s), Rest(s))
  BY DEF OwnershipPreorder, Rest
<1>6. OwnershipPreorder(t) = Reached(State(t), Roots(t)) \o Only(IdList(t), Rest(t))
  BY DEF OwnershipPreorder, Rest
<1> QED BY <1>3, <1>4, <1>5, <1>6

\* Elements that are put in the canonical order, but for those of bids, which
\* come first as they did, stay in it.
LEMMA Reordered ==
  ASSUME NEW s, NEW t, AreRecords(s), AreRecords(t), SameShape(s, t),
         NEW bids \in Seq(Id), NEW tgt \in Seq(Id)
  PROVE  /\ IdList(s) = Only(bids, Ids(s)) \o Only(tgt, Ids(s) \ Range(bids))
         /\ IdList(t) = Only(bids, Ids(s)) \o Only(OwnershipPreorder(s), Ids(s) \ Range(bids))
         => OwnershipPreorder(t) = OwnershipPreorder(s)
<1> DEFINE D == Ids(s)
           o == OwnershipPreorder(s)
           R == RootIds(State(s))
           rest == Rest(s)
           C == D \ Range(bids)
           whole(z) == Only(bids, D) \o Only(z, C)
<1>1. o \in Seq(Id)
  <2>1. o \in Seq(D)
    BY PreorderFacts
  <2>2. D \subseteq Id
    BY RecordsArranged DEF Arranged
  <2> QED BY <2>1, <2>2, SeqMonotonic
<1>2. R \subseteq D /\ rest \subseteq D
  BY RootsFacts DEF Rest
<1>3. Only(o, R) = Only(IdList(s), R) /\ Only(o, rest) = Only(IdList(s), rest)
  BY PreorderFacts DEF Roots
<1>4. \/ Only(IdList(s), R) # Only(IdList(t), R)
      \/ Only(IdList(s), rest) # Only(IdList(t), rest)
      \/ OwnershipPreorder(t) = o
  BY SameOrder
<1> HIDE DEF D, o, R, rest
<1>0. /\ Halves(bids, D, R, C, R \ Range(bids))
      /\ Halves(bids, D, rest, C, rest \ Range(bids))
  BY <1>2 DEF Halves
<1> HIDE DEF C
<1>5. /\ Only(o, R) = Only(whole(tgt), R) => Only(whole(o), R) = Only(o, R)
      /\ Only(o, rest) = Only(whole(tgt), rest) => Only(whole(o), rest) = Only(o, rest)
  BY <1>0, <1>1, <1>2, OnlyReplaced
<1> HIDE DEF whole
<1>6. IdList(s) = whole(tgt) /\ IdList(t) = whole(o) => OwnershipPreorder(t) = o
  BY <1>3, <1>4, <1>5
<1> QED BY <1>6 DEF whole, D, o, C

\* The canonical order is stable.
LEMMA CanonicalOnce ==
  ASSUME NEW s, NEW t, AreRecords(s), AreRecords(t), SameShape(s, t),
         IdList(t) = OwnershipPreorder(s)
  PROVE  OwnershipPreorder(t) = OwnershipPreorder(s)
<1> DEFINE D == Ids(s)
           o == OwnershipPreorder(s)
           q == IdList(s)
           none == <<>>
<1>1. /\ q \in Seq(Id) /\ Range(q) = D /\ o \in Seq(D) /\ Range(o) = D /\ D \subseteq Id
  BY IdListFacts, PreorderFacts, RecordsArranged DEF Arranged
<1>2. none \in Seq(Id) /\ Range(none) = {}
  BY DEF Range
<1>3. Only(none, D) = none
  BY OnlyOfNone
<1>4. Only(q, D \ {}) = q /\ Only(o, D \ {}) = o
  <2>1. D \ {} = D
    OBVIOUS
  <2> HIDE DEF q, o, D
  <2> QED BY <1>1, <2>1, OnlyAll
<1>5. none \o q = q /\ none \o o = o
  <2> HIDE DEF q, o, D
  <2>1. <<>> \o q = q
    BY <1>1, ConcatEmptySeq
  <2>2. <<>> \o o = o
    BY <1>1, ConcatEmptySeq
  <2> QED BY <2>1, <2>2
<1>6. IdList(s) = q /\ IdList(t) = o
  OBVIOUS
<1> HIDE DEF D, o, q, none
<1>7. /\ IdList(s) = Only(none, D) \o Only(q, D \ Range(none))
      /\ IdList(t) = Only(none, D) \o Only(o, D \ Range(none))
  BY <1>2, <1>3, <1>4, <1>5, <1>6
<1> QED BY <1>1, <1>2, <1>7, Reordered DEF D, o

----------------------------------------------------------------------------
(***************************************************************************)
(* Owners that are derived.                                                 *)
(***************************************************************************)
LEMMA ClaimantFacts ==
  ASSUME NEW s, AreRecords(s), NEW id
  PROVE  /\ FirstClaimant(s, id) \in Ids(s) \cup {Null}
         /\ FirstClaimant(s, id) = Null <=> \A x \in Ids(s) : id \notin Range(Named(s, x).owned)
<1> DEFINE claims == {i \in DOMAIN s : id \in Range(s[i].owned)}
<1>1. Arranged(s)
  BY RecordsArranged
<1>2. CASE claims = {}
  <2>1. FirstClaimant(s, id) = Null
    BY <1>2 DEF FirstClaimant
  <2>2. \A x \in Ids(s) : id \notin Range(Named(s, x).owned)
    BY <1>1, <1>2 DEF Arranged, Named
  <2> QED BY <2>1, <2>2
<1>3. CASE claims # {}
  <2>1. claims \subseteq Nat
    BY <1>1 DEF Arranged
  <2>2. FirstClaimant(s, id) = s[Min(claims)].id
    BY <1>3 DEF FirstClaimant
  <2> HIDE DEF claims
  <2>3. Min(claims) \in claims
    BY <1>3, <2>1, Least DEF Min
  <2>4. Min(claims) \in 1 .. Len(s) /\ id \in Range(s[Min(claims)].owned)
    BY <1>1, <2>3 DEF claims, Arranged
  <2>5. FirstClaimant(s, id) \in Ids(s) /\ Named(s, FirstClaimant(s, id)) = s[Min(claims)]
    BY <1>1, <2>2, <2>4 DEF Arranged
  <2>6. FirstClaimant(s, id) # Null
    BY <1>1, <2>5, OwnersAssumption DEF Arranged
  <2> QED BY <2>4, <2>5, <2>6
<1> QED BY <1>2, <1>3

\* Who claims an element first depends on the order and on what is owned.
LEMMA SameClaimant ==
  ASSUME NEW s, NEW t, AreRecords(s), AreRecords(t), SameShape(s, t), IdList(s) = IdList(t),
         NEW id
  PROVE  FirstClaimant(s, id) = FirstClaimant(t, id)
<1>1. Arranged(s) /\ Arranged(t)
  BY RecordsArranged
<1>2. Len(s) = Len(t) /\ \A i \in 1 .. Len(s) : s[i].id = t[i].id
  <2>1. Len(s) = Len(IdList(s)) /\ \A i \in 1 .. Len(s) : IdList(s)[i] = s[i].id
    BY IdListFacts
  <2>2. Len(t) = Len(IdList(t)) /\ \A i \in 1 .. Len(t) : IdList(t)[i] = t[i].id
    BY IdListFacts
  <2> QED BY <2>1, <2>2
<1>3. \A i \in 1 .. Len(s) : s[i].owned = t[i].owned
  <2> SUFFICES ASSUME NEW i \in 1 .. Len(s) PROVE s[i].owned = t[i].owned
    OBVIOUS
  <2>1. s[i].id \in Ids(s) /\ Named(s, s[i].id) = s[i]
    BY <1>1 DEF Arranged
  <2>2. Named(t, t[i].id) = t[i]
    BY <1>1, <1>2 DEF Arranged
  <2> QED BY <1>2, <2>1, <2>2 DEF SameShape
<1>4. DOMAIN s = 1 .. Len(s) /\ DOMAIN t = 1 .. Len(s)
  BY <1>1, <1>2 DEF Arranged
<1> DEFINE claims == {i \in DOMAIN s : id \in Range(s[i].owned)}
<1>5. claims = {i \in DOMAIN t : id \in Range(t[i].owned)}
  BY <1>3, <1>4
<1>6. CASE claims = {}
  BY <1>5, <1>6 DEF FirstClaimant
<1>7. CASE claims # {}
  <2>1. FirstClaimant(s, id) = s[Min(claims)].id /\ FirstClaimant(t, id) = t[Min(claims)].id
    BY <1>5, <1>7 DEF FirstClaimant
  <2>2. claims \subseteq Nat /\ claims \subseteq 1 .. Len(s)
    BY <1>1, <1>4 DEF Arranged
  <2> HIDE DEF claims
  <2>3. Min(claims) \in claims
    BY <1>7, <2>2, Least DEF Min
  <2> QED BY <1>2, <2>1, <2>2, <2>3
<1> QED BY <1>6, <1>7

----------------------------------------------------------------------------
(***************************************************************************)
(* Patches.                                                                 *)
(***************************************************************************)
LEMMA PrefixFacts ==
  ASSUME NEW a \in Seq(Id), NEW c \in Seq(Id)
  PROVE  LET p == CommonPrefix(a, c)
             r == CommonSuffix(a, c, p)
         IN  /\ p \in Nat /\ r \in Nat /\ p + r <= Len(a) /\ p + r <= Len(c)
             /\ SubSeq(a, 1, p) = SubSeq(c, 1, p)
             /\ SubSeq(a, Len(a) - r + 1, Len(a)) = SubSeq(c, Len(c) - r + 1, Len(c))
<1> DEFINE shorter == Min({Len(a), Len(c)})
           U == {n \in 0 .. shorter : SubSeq(a, 1, n) = SubSeq(c, 1, n)}
           p == CommonPrefix(a, c)
           V == {n \in 0 .. shorter - p :
                   SubSeq(a, Len(a) - n + 1, Len(a)) = SubSeq(c, Len(c) - n + 1, Len(c))}
           r == CommonSuffix(a, c, p)
<1>1. Len(a) \in Nat /\ Len(c) \in Nat
  OBVIOUS
<1>2. shorter \in Nat /\ shorter <= Len(a) /\ shorter <= Len(c)
  <2> DEFINE W == {Len(a), Len(c)}
  <2>1. W \subseteq Nat /\ W # {}
    OBVIOUS
  <2>2. Min(W) \in W /\ \A y \in W : Min(W) <= y
    <3> HIDE DEF W
    <3> QED BY <2>1, Least DEF Min
  <2> QED BY <1>1, <2>2
<1>3. p = Max(U)
  BY DEF CommonPrefix
<1>4. r = Max(V)
  BY DEF CommonSuffix
<1> HIDE DEF shorter, p, r
<1>5. U \subseteq 0 .. shorter /\ U # {}
  <2>1. SubSeq(a, 1, 0) = <<>> /\ SubSeq(c, 1, 0) = <<>>
    BY SubSeqEmpty
  <2>2. 0 \in U
    BY <1>2, <2>1
  <2> QED BY <2>2
<1>6. p \in U
  <2> HIDE DEF U
  <2> QED BY <1>2, <1>3, <1>5, Greatest DEF Max
<1>7. p \in 0 .. shorter /\ shorter - p \in Nat
  BY <1>2, <1>6
<1>8. V \subseteq 0 .. (shorter - p) /\ V # {}
  <2>1. SubSeq(a, Len(a) - 0 + 1, Len(a)) = <<>> /\ SubSeq(c, Len(c) - 0 + 1, Len(c)) = <<>>
    BY <1>1, SubSeqEmpty
  <2>2. 0 \in V
    BY <1>7, <2>1
  <2> QED BY <2>2
<1>9. r \in V
  <2> HIDE DEF V
  <2> QED BY <1>4, <1>7, <1>8, Greatest DEF Max
<1>10. /\ p \in Nat /\ r \in Nat /\ p + r <= Len(a) /\ p + r <= Len(c)
  BY <1>1, <1>2, <1>7, <1>9
<1> QED BY <1>6, <1>9, <1>10 DEF p, r

\* Replaying a patch over the element it was planned for gives the other one.
LEMMA PatchBack ==
  ASSUME NEW e \in Element, NEW f \in Element, e.id = f.id
  PROVE  ReadPatch(e, PlanPatch(e, f)) = f
<1> DEFINE a == e.owned
           c == f.owned
           p == CommonPrefix(a, c)
           r == CommonSuffix(a, c, p)
           changed == {x \in {"owner", "body"} : e[x] # f[x]}
           patch == PlanPatch(e, f)
           g == ReadPatch(e, patch)
<1>1. a \in Seq(Id) /\ c \in Seq(Id)
  BY DEF Element
<1>2. /\ p \in Nat /\ r \in Nat /\ p + r <= Len(a) /\ p + r <= Len(c)
      /\ SubSeq(a, 1, p) = SubSeq(c, 1, p)
      /\ SubSeq(a, Len(a) - r + 1, Len(a)) = SubSeq(c, Len(c) - r + 1, Len(c))
  BY <1>1, PrefixFacts
<1>3. /\ patch.splice.at = p /\ patch.splice.del = Len(a) - p - r
      /\ patch.splice.items = SubSeq(c, p + 1, Len(c) - r)
      /\ patch.set = [x \in changed |-> f[x]]
  BY DEF PlanPatch
<1>4. /\ g.owner = f.owner /\ g.body = f.body /\ g.id = f.id
      /\ g.owned = SubSeq(a, 1, patch.splice.at) \o patch.splice.items
                     \o SubSeq(a, patch.splice.at + patch.splice.del + 1, Len(a))
  <2> HIDE DEF patch
  <2>1. /\ g.id = e.id
        /\ g.owner = IF "owner" \in DOMAIN patch.set THEN patch.set["owner"] ELSE e["owner"]
        /\ g.body = IF "body" \in DOMAIN patch.set THEN patch.set["body"] ELSE e["body"]
        /\ g.owned = SubSeq(a, 1, patch.splice.at) \o patch.splice.items
                       \o SubSeq(a, patch.splice.at + patch.splice.del + 1, Len(a))
    BY DEF ReadPatch
  <2>2. /\ "owner" \in DOMAIN patch.set <=> e.owner # f.owner
        /\ "body" \in DOMAIN patch.set <=> e.body # f.body
        /\ e.owner # f.owner => patch.set["owner"] = f.owner
        /\ e.body # f.body => patch.set["body"] = f.body
    BY <1>3
  <2> HIDE DEF g
  <2> QED BY <2>1, <2>2
<1>5. g.owned = c
  <2>1. Len(a) \in Nat /\ p + (Len(a) - p - r) + 1 = Len(a) - r + 1
    BY <1>1, <1>2
  <2>2. g.owned = SubSeq(a, 1, p) \o SubSeq(c, p + 1, Len(c) - r) \o SubSeq(a, Len(a) - r + 1, Len(a))
    BY <1>3, <1>4, <2>1
  <2>3. SubSeq(c, 1, p) \o SubSeq(c, p + 1, Len(c) - r) \o SubSeq(c, Len(c) - r + 1, Len(c)) = c
    BY <1>1, <1>2, MiddleBack
  <2> HIDE DEF g, patch
  <2> QED BY <1>2, <2>2, <2>3
<1>6. g = [id |-> g.id, owner |-> g.owner, body |-> g.body, owned |-> g.owned]
  BY DEF ReadPatch
<1> HIDE DEF g
<1>7. g = [id |-> f.id, owner |-> f.owner, body |-> f.body, owned |-> f.owned]
  BY <1>4, <1>5, <1>6
<1>8. f = [id |-> f.id, owner |-> f.owner, body |-> f.body, owned |-> f.owned]
  BY DEF Element
<1> QED BY <1>7, <1>8 DEF g

----------------------------------------------------------------------------
(***************************************************************************)
(* Records that leave an owner out, and owners that are derived.            *)
(***************************************************************************)
\* e with the owner it is derived to have in s.
Owned(s, e) ==
  [e EXCEPT !.owner = IF e.owner = Implied THEN FirstClaimant(s, e.id) ELSE e.owner]

\* Deriving the owner that a record left out gives back the element.
LEMMA ShipFacts ==
  ASSUME NEW t, AreRecords(t), NEW e \in Element
  PROVE  /\ Ship(t, e) \in Loose /\ Ship(t, e).id = e.id
         /\ Ship(t, e).owned = e.owned /\ Ship(t, e).body = e.body
         /\ Owned(t, Ship(t, e)) = e /\ Owned(t, e) = e
<1>1. FirstClaimant(t, e.id) \in Id \cup {Null}
  BY ClaimantFacts, RecordsArranged DEF Arranged
<1>2. e = [id |-> e.id, owned |-> e.owned, owner |-> e.owner, body |-> e.body]
  BY DEF Element
<1>3. e.owner # Implied
  BY OwnersAssumption DEF Element
<1> DEFINE owner == IF e.owner = FirstClaimant(t, e.id) THEN Implied ELSE e.owner
           f == [id |-> e.id, owned |-> e.owned, owner |-> owner, body |-> e.body]
<1>4. Ship(t, e) = f
  BY <1>2 DEF Ship
<1>5. owner \in Id \cup {Null, Unspelled, Implied}
  BY DEF Element
<1> HIDE DEF owner
<1>6. f \in Loose
  BY <1>5 DEF Loose, Element
<1>7. f.owner = owner /\ f.id = e.id
  OBVIOUS
<1>8. Owned(t, f) = [id |-> e.id, owned |-> e.owned,
                     owner |-> IF owner = Implied THEN FirstClaimant(t, e.id) ELSE owner,
                     body |-> e.body]
  BY <1>7 DEF Owned
<1>9. (IF owner = Implied THEN FirstClaimant(t, e.id) ELSE owner) = e.owner
  BY <1>3 DEF owner
<1>10. Owned(t, f) = e
  BY <1>2, <1>8, <1>9
<1>11. Owned(t, e) = e
  BY <1>2, <1>3 DEF Owned
<1> QED BY <1>4, <1>6, <1>10, <1>11

\* Deriving owners makes a payload of records and leaves the rest alone.
LEMMA RederivedFacts ==
  ASSUME NEW s, AreRecords(s)
  PROVE  /\ IsPayload(Rederived(s)) /\ IdList(Rederived(s)) = IdList(s)
         /\ Ids(Rederived(s)) = Ids(s)
         /\ \A id \in Ids(s) : /\ Named(Rederived(s), id) = Owned(s, Named(s, id))
                               /\ Named(Rederived(s), id).owned = Named(s, id).owned
                               /\ Named(Rederived(s), id).body = Named(s, id).body
<1> DEFINE m == [id \in Ids(s) |-> Owned(s, Named(s, id))]
           q == IdList(s)
           t == Listed(m, q)
<1>1. Arranged(s)
  BY RecordsArranged
<1>2. Rederived(s) = t
  BY DEF Rederived, Owned
<1>3. ASSUME NEW id \in Ids(s)
      PROVE  /\ m[id] \in Element /\ m[id] \in Loose /\ m[id].id = id
             /\ m[id].owned = Named(s, id).owned /\ m[id].body = Named(s, id).body
  <2> DEFINE e == Named(s, id)
             owner == IF e.owner = Implied THEN FirstClaimant(s, e.id) ELSE e.owner
  <2>1. e \in Loose /\ e.id = id
    BY <1>1 DEF Arranged
  <2>2. e = [id |-> e.id, owned |-> e.owned, owner |-> e.owner, body |-> e.body]
    BY <2>1 DEF Loose
  <2>3. m[id] = [id |-> e.id, owned |-> e.owned, owner |-> owner, body |-> e.body]
    BY <2>2 DEF Owned
  <2>4. owner \in Id \cup {Null, Unspelled}
    <3>1. FirstClaimant(s, e.id) \in Id \cup {Null}
      BY <1>1, ClaimantFacts DEF Arranged
    <3> QED BY <2>1, <3>1 DEF Loose
  <2> HIDE DEF e, owner, m
  <2> QED BY <2>1, <2>3, <2>4 DEF Loose, Element, e
<1>4. DOMAIN m = Ids(s) /\ \A id \in Ids(s) : m[id] = Owned(s, Named(s, id))
  OBVIOUS
<1>5. q \in Seq(Ids(s)) /\ IsInjective(q) /\ Range(q) = Ids(s) /\ Len(q) = Len(s)
  BY IdListFacts
<1>6. IsFiniteSet(Ids(s)) /\ Ids(s) \subseteq Id
  BY <1>1, StateFacts DEF IsState, Arranged
<1> HIDE DEF m, q
<1>7. IsState(m)
  BY <1>3, <1>4, <1>6 DEF IsState
<1>8. /\ AreRecords(t) /\ Len(t) = Len(q) /\ IdList(t) = q /\ Ids(t) = Ids(s)
      /\ \A id \in Ids(s) : Named(t, id) = m[id]
      /\ \A i \in 1 .. Len(q) : t[i] = m[q[i]]
  BY <1>4, <1>5, <1>7, ListedFacts
<1>9. \A i \in 1 .. Len(q) : q[i] \in Ids(s)
  BY <1>5, ElementOfSeq
<1>10. IsPayload(t)
  BY <1>3, <1>8, <1>9, PayloadIsRecords
<1> HIDE DEF t
<1> QED BY <1>2, <1>3, <1>4, <1>8, <1>10 DEF q

----------------------------------------------------------------------------
(***************************************************************************)
(* What a delta says.  Its base is b and its result t.                      *)
(***************************************************************************)
LEMMA CanonicalPayload ==
  ASSUME NEW s, IsPayload(s)
  PROVE  IsPayload(Canonical(s))
<1>1. AreRecords(s) /\ \A i \in 1 .. Len(s) : s[i] \in Element
  BY PayloadIsRecords
<1>2. Arranged(s)
  BY <1>1, RecordsArranged
<1>3. \A id \in Ids(s) : Named(s, id) \in Element
  BY <1>1, <1>2 DEF Arranged, Named
<1>4. /\ AreRecords(Canonical(s)) /\ Ids(Canonical(s)) = Ids(s)
      /\ \A id \in Ids(s) : Named(Canonical(s), id) = Named(s, id)
  BY <1>1, CanonicalFacts
<1>5. \A i \in 1 .. Len(Canonical(s)) :
        Canonical(s)[i].id \in Ids(s) /\ Canonical(s)[i] = Named(Canonical(s), Canonical(s)[i].id)
  BY <1>4, RecordsArranged DEF Arranged
<1> QED BY <1>3, <1>4, <1>5, PayloadIsRecords

\* A payload's elements by id.
LEMMA PayloadElements ==
  ASSUME NEW s, IsPayload(s)
  PROVE  /\ AreRecords(s) /\ Ids(s) \subseteq Id
         /\ \A id \in Ids(s) : Named(s, id) \in Element /\ Named(s, id).id = id
<1>1. AreRecords(s) /\ \A i \in 1 .. Len(s) : s[i] \in Element
  BY PayloadIsRecords
<1>2. Arranged(s)
  BY <1>1, RecordsArranged
<1> QED BY <1>1, <1>2 DEF Arranged, Named

\* The order in which applying a delta puts the target's elements, before they
\* are put in the canonical order.
Mixed(b, t) == Only(IdList(b), Ids(t)) \o Only(IdList(t), Ids(t) \ Ids(b))

\* That order has each of the target's elements once.
LEMMA MixedFacts ==
  ASSUME NEW b, NEW t, AreRecords(b), AreRecords(t)
  PROVE  Mixed(b, t) \in Seq(Ids(t)) /\ IsInjective(Mixed(b, t)) /\ Range(Mixed(b, t)) = Ids(t)
<1> DEFINE T == Ids(t)
           C == Ids(t) \ Ids(b)
           p == IdList(b)
           q == IdList(t)
<1>1. p \in Seq(Id) /\ IsInjective(p) /\ Range(p) = Ids(b)
  BY IdListFacts
<1>2. q \in Seq(T) /\ IsInjective(q) /\ Range(q) = T
  BY IdListFacts
<1>3. C \subseteq T /\ C \cap Ids(b) = {} /\ (T \cap Ids(b)) \cup C = T
  OBVIOUS
<1> HIDE DEF T, C, p, q
<1>4. Only(p, T) \in Seq(T) /\ IsInjective(Only(p, T)) /\ Range(Only(p, T)) = Ids(b) \cap T
  BY <1>1, OnlyType, OnlyOnce
<1>5. Only(q, C) \in Seq(T) /\ IsInjective(Only(q, C)) /\ Range(Only(q, C)) = T \cap C
  BY <1>2, OnlyFacts
<1>6. Range(Only(p, T)) \cap Range(Only(q, C)) = {} /\ Range(Only(p, T)) \cup Range(Only(q, C)) = T
  BY <1>3, <1>4, <1>5
<1> DEFINE x == Only(p, T)
           y == Only(q, C)
<1> HIDE DEF x, y
<1>7. x \o y \in Seq(T) /\ IsInjective(x \o y) /\ Range(x \o y) = Range(x) \cup Range(y)
  BY <1>4, <1>5, <1>6, ConcatFacts DEF x, y
<1> QED BY <1>6, <1>7 DEF Mixed, T, C, p, q, x, y

\* Putting the target in that order changes the order only.
LEMMA AppliedOrderFacts ==
  ASSUME NEW b, NEW t, IsPayload(b), IsPayload(t)
  PROVE  LET listed == Listed(State(t), Mixed(b, t))
             result == AppliedOrder(b, t)
         IN  /\ AreRecords(listed) /\ IdList(listed) = Mixed(b, t) /\ Ids(listed) = Ids(t)
             /\ \A id \in Ids(t) : Named(listed, id) = Named(t, id)
             /\ result = Canonical(listed) /\ IsPayload(result)
             /\ Ids(result) = Ids(t) /\ State(result) = State(t)
             /\ \A id \in Ids(t) : Named(result, id) = Named(t, id)
<1> DEFINE listed == Listed(State(t), Mixed(b, t))
           result == AppliedOrder(b, t)
           m == State(t)
           order == Mixed(b, t)
<1>1. AreRecords(b) /\ AreRecords(t) /\ \A id \in Ids(t) : Named(t, id) \in Element
  BY PayloadElements
<1>2. IsState(m) /\ DOMAIN m = Ids(t) /\ \A id \in Ids(t) : m[id] = Named(t, id)
  BY <1>1, StateFacts
<1>3. order \in Seq(Ids(t)) /\ IsInjective(order) /\ Range(order) = Ids(t)
  BY <1>1, MixedFacts
<1>4. result = Canonical(listed)
  BY DEF AppliedOrder, Mixed
<1>5. listed = Listed(m, order)
  OBVIOUS
<1> HIDE DEF listed, m, order
<1>6. /\ AreRecords(listed) /\ IdList(listed) = order /\ Ids(listed) = Ids(t)
      /\ \A id \in Ids(t) : Named(listed, id) = m[id]
  BY <1>2, <1>3, <1>5, ListedFacts
<1>7. \A id \in Ids(t) : Named(listed, id) = Named(t, id)
  BY <1>2, <1>6
<1>8. IsPayload(listed)
  <2>1. Arranged(listed)
    BY <1>6, RecordsArranged
  <2>2. \A i \in 1 .. Len(listed) : listed[i] \in Element
    BY <1>1, <1>6, <1>7, <2>1 DEF Arranged
  <2> QED BY <1>6, <2>2, PayloadIsRecords
<1> HIDE DEF result
<1>9. IsPayload(result)
  BY <1>4, <1>8, CanonicalPayload
<1>10. /\ Ids(result) = Ids(listed) /\ State(result) = State(listed)
       /\ \A id \in Ids(listed) : Named(result, id) = Named(listed, id)
  BY <1>4, <1>6, CanonicalFacts
<1>11. State(listed) = State(t)
  BY <1>6, <1>7 DEF State
<1> QED BY <1>4, <1>6, <1>7, <1>9, <1>10, <1>11 DEF listed, result, order

\* The elements that are created.
LEMMA CreatesFacts ==
  ASSUME NEW b, NEW t, IsPayload(b), IsPayload(t)
  PROVE  LET c == Creates(b, t)
             created == Ids(t) \ Ids(b)
         IN  /\ AreRecords(c) /\ IdList(c) = Only(IdList(t), created) /\ Ids(c) = created
             /\ \A id \in created : Named(c, id) = Ship(t, Named(t, id))
<1> DEFINE created == Ids(t) \ Ids(b)
           m == [id \in Ids(t) |-> Ship(t, Named(t, id))]
           order == Only(IdList(t), created)
           c == Creates(b, t)
<1>1. AreRecords(t) /\ \A id \in Ids(t) : Named(t, id) \in Element /\ Named(t, id).id = id
  BY PayloadElements
<1>2. DOMAIN m = Ids(t) /\ \A id \in Ids(t) : m[id] = Ship(t, Named(t, id))
  OBVIOUS
<1> HIDE DEF m
<1>3. IsState(m)
  <2>1. IsFiniteSet(Ids(t)) /\ Ids(t) \subseteq Id
    BY <1>1, StateFacts DEF IsState
  <2> QED BY <1>1, <1>2, <2>1, ShipFacts DEF IsState
<1>4. order \in Seq(Ids(t)) /\ IsInjective(order) /\ Range(order) = created
  <2> DEFINE q == IdList(t)
  <2>1. q \in Seq(Ids(t)) /\ IsInjective(q) /\ Range(q) = Ids(t)
    BY <1>1, IdListFacts
  <2>2. Ids(t) \cap created = created
    OBVIOUS
  <2> HIDE DEF q, created
  <2>3. Only(q, created) \in Seq(Ids(t)) /\ IsInjective(Only(q, created))
        /\ Range(Only(q, created)) = Range(q) \cap created
    BY <2>1, OnlyFacts
  <2> QED BY <2>1, <2>2, <2>3 DEF q
<1>5. c = Listed(m, order)
  <2>1. c = [k \in DOMAIN order |-> Ship(t, Named(t, order[k]))]
    BY DEF Creates
  <2> HIDE DEF order
  <2>2. \A k \in DOMAIN order : order[k] \in Ids(t)
    BY <1>4, LenProperties, ElementOfSeq
  <2>3. c = [k \in DOMAIN order |-> m[order[k]]]
    BY <1>2, <2>1, <2>2
  <2>4. [k \in DOMAIN order |-> m[order[k]]] \in Seq(Loose)
    <3>1. DOMAIN order = 1 .. Len(order) /\ Len(order) \in Nat
      BY <1>4, LenProperties
    <3>2. \A k \in 1 .. Len(order) : m[order[k]] \in Loose
      BY <1>2, <1>3, <2>2, <3>1 DEF IsState
    <3>3. [k \in DOMAIN order |-> m[order[k]]] \in [1 .. Len(order) -> Loose]
      BY <3>1, <3>2
    <3> QED BY <3>1, <3>3
  <2> HIDE DEF c
  <2>5. <<>> \o c = c
    BY <2>3, <2>4, ConcatEmptySeq
  <2> QED BY <2>3, <2>5 DEF Listed
<1> HIDE DEF c, order
<1>6. /\ AreRecords(c) /\ IdList(c) = order /\ Ids(c) = Range(order)
      /\ \A id \in Range(order) : Named(c, id) = m[id]
  BY <1>2, <1>3, <1>4, <1>5, ListedFacts
<1> QED BY <1>2, <1>4, <1>6 DEF c, order

----------------------------------------------------------------------------
(***************************************************************************)
(* What a delta says of an element.                                         *)
(***************************************************************************)
\* d is the delta from b to t.
Says(d, b, t, portable, patches) ==
  /\ IsPayload(b) /\ IsPayload(t) /\ portable \in BOOLEAN /\ patches \in BOOLEAN
  /\ d.portable = portable /\ d.base = b /\ d.result = t
  /\ d.updates = Updates(b, t, portable, patches) /\ d.creates = Creates(b, t)

\* Where the targets mean the elements that they are to mean.
Readable(d, held) == IsPayload(held) /\ (d.portable \/ held = d.base)

\* The ids of the elements that the delta gives.
Said(b, t) == (ChangedIds(b, t) \cap Ids(t)) \cup (Ids(t) \ Ids(b))

\* There is one update for each element that changes, in the base's order.
LEMMA ChangedListFacts ==
  ASSUME NEW b, NEW t, IsPayload(b), NEW portable, NEW patches
  PROVE  LET changed == Only(IdList(b), ChangedIds(b, t))
             updates == Updates(b, t, portable, patches)
         IN  /\ changed \in Seq(Ids(b)) /\ changed \in Seq(Id) /\ IsInjective(changed)
             /\ Range(changed) = ChangedIds(b, t) /\ DOMAIN updates = DOMAIN changed
             /\ \A k \in DOMAIN changed :
                  /\ changed[k] \in ChangedIds(b, t) /\ changed[k] \in Ids(b)
                  /\ updates[k].target = TargetOf(b, portable, changed[k])
                  /\ updates[k].change = ChangeOf(b, t, portable, patches, changed[k])
<1> DEFINE q == IdList(b)
           C == ChangedIds(b, t)
           changed == Only(q, C)
           updates == Updates(b, t, portable, patches)
<1>1. q \in Seq(Ids(b)) /\ IsInjective(q) /\ Range(q) = Ids(b) /\ Ids(b) \subseteq Id
  BY PayloadElements, IdListFacts
<1>2. C \subseteq Ids(b)
  BY DEF ChangedIds
<1>3. updates = [k \in DOMAIN changed |->
                  [target |-> TargetOf(b, portable, changed[k]),
                   change |-> ChangeOf(b, t, portable, patches, changed[k])]]
  BY DEF Updates
<1> HIDE DEF q, C, updates
<1>4. changed \in Seq(Ids(b)) /\ IsInjective(changed) /\ Range(changed) = Range(q) \cap C
  BY <1>1, OnlyFacts
<1>5. Range(changed) = C
  BY <1>1, <1>2, <1>4
<1> HIDE DEF changed
<1>6. changed \in Seq(Id)
  BY <1>1, <1>4, SeqMonotonic
<1>7. \A k \in DOMAIN changed : changed[k] \in C
  BY <1>5 DEF Range
<1>8. DOMAIN updates = DOMAIN changed
  BY <1>3
<1>9. ASSUME NEW k \in DOMAIN changed
      PROVE  /\ updates[k].target = TargetOf(b, portable, changed[k])
             /\ updates[k].change = ChangeOf(b, t, portable, patches, changed[k])
  BY <1>3
<1> QED BY <1>2, <1>4, <1>5, <1>6, <1>7, <1>8, <1>9 DEF q, C, updates, changed

\* The update for an element.
LEMMA UpdateFacts ==
  ASSUME NEW d, NEW b, NEW t, NEW portable, NEW patches, Says(d, b, t, portable, patches),
         NEW held, NEW id, portable \/ (held = b /\ id \in Ids(b))
  PROVE  /\ UpdatesOf(d, held, id) = {} <=> id \notin ChangedIds(b, t)
         /\ id \in ChangedIds(b, t)
              => Update(d, held, id) = ChangeOf(b, t, portable, patches, id)
<1> DEFINE changed == Only(IdList(b), ChangedIds(b, t))
           updates == Updates(b, t, portable, patches)
<1>1. /\ d.portable = portable /\ portable \in BOOLEAN /\ d.updates = updates
      /\ IsPayload(b)
  BY DEF Says
<1>2. /\ IsInjective(changed) /\ Range(changed) = ChangedIds(b, t)
      /\ DOMAIN updates = DOMAIN changed
      /\ \A k \in DOMAIN changed :
           /\ changed[k] \in ChangedIds(b, t) /\ changed[k] \in Ids(b)
           /\ updates[k].target = TargetOf(b, portable, changed[k])
           /\ updates[k].change = ChangeOf(b, t, portable, patches, changed[k])
  BY <1>1, ChangedListFacts
<1> HIDE DEF changed, updates
<1>3. ASSUME NEW k \in DOMAIN changed
      PROVE  updates[k].target = TargetOf(held, portable, id) <=> changed[k] = id
  <2>1. updates[k].target = TargetOf(b, portable, changed[k]) /\ changed[k] \in Ids(b)
    BY <1>2
  <2>2. CASE portable
    BY <2>1, <2>2 DEF TargetOf
  <2>3. CASE ~portable
    <3>1. held = b /\ id \in Ids(b)
      BY <2>3
    <3>2. b[At(b, id)].id = id /\ b[At(b, changed[k])].id = changed[k]
      BY <1>1, <2>1, <3>1, PayloadElements, RecordsArranged DEF Arranged
    <3> QED BY <2>1, <2>3, <3>1, <3>2 DEF TargetOf
  <2> QED BY <2>2, <2>3
<1>4. UpdatesOf(d, held, id) = {k \in DOMAIN changed : changed[k] = id}
  BY <1>1, <1>2, <1>3 DEF UpdatesOf
<1>5. id \in ChangedIds(b, t) <=> \E k \in DOMAIN changed : changed[k] = id
  BY <1>2 DEF Range
<1>6. UpdatesOf(d, held, id) = {} <=> id \notin ChangedIds(b, t)
  BY <1>4, <1>5
<1>7. ASSUME id \in ChangedIds(b, t)
      PROVE  Update(d, held, id) = ChangeOf(b, t, portable, patches, id)
  <2> DEFINE k == CHOOSE k \in UpdatesOf(d, held, id) : TRUE
  <2>1. k \in UpdatesOf(d, held, id)
    BY <1>6, <1>7
  <2>2. Update(d, held, id) = updates[k].change
    BY <1>1 DEF Update
  <2> HIDE DEF k
  <2>3. k \in DOMAIN changed /\ changed[k] = id
    BY <1>4, <2>1
  <2> QED BY <1>2, <2>2, <2>3
<1> QED BY <1>6, <1>7

\* The elements that are deleted.
LEMMA DeletedFacts ==
  ASSUME NEW d, NEW b, NEW t, NEW portable, NEW patches, Says(d, b, t, portable, patches),
         NEW held, Readable(d, held)
  PROVE  Deleted(d, held) = Ids(held) \cap (Ids(b) \ Ids(t))
<1>1. portable \/ held = b
  BY DEF Says, Readable
<1>2. ASSUME NEW id \in Ids(held)
      PROVE  (UpdatesOf(d, held, id) # {} /\ Update(d, held, id) = Delete)
               <=> id \in Ids(b) \ Ids(t)
  <2>1. /\ UpdatesOf(d, held, id) = {} <=> id \notin ChangedIds(b, t)
        /\ id \in ChangedIds(b, t)
              => Update(d, held, id) = ChangeOf(b, t, portable, patches, id)
    BY <1>1, UpdateFacts
  <2>2. id \in Ids(b) \ Ids(t) => id \in ChangedIds(b, t)
    BY DEF ChangedIds
  <2>3. id \in ChangedIds(b, t) => id \in Ids(b)
    BY DEF ChangedIds
  <2>4. id \notin Ids(t) => ChangeOf(b, t, portable, patches, id) = Delete
    BY DEF ChangeOf
  <2>5. id \in Ids(t) => ChangeOf(b, t, portable, patches, id).kind \in {"patch", "whole"}
    BY DEF ChangeOf
  <2>6. Delete.kind = "delete"
    BY DEF Delete
  <2>7. id \in Ids(t) => ChangeOf(b, t, portable, patches, id) # Delete
    BY <2>5, <2>6
  <2> QED BY <2>1, <2>2, <2>3, <2>4, <2>7
<1> QED BY <1>2 DEF Deleted

\* The elements that are not held but updated.
LEMMA UpsertsFacts ==
  ASSUME NEW d, NEW b, NEW t, NEW portable, NEW patches, Says(d, b, t, portable, patches),
         NEW held, Readable(d, held)
  PROVE  /\ Upserts(d, held) \in Seq(Id) /\ IsInjective(Upserts(d, held))
         /\ Range(Upserts(d, held)) = (ChangedIds(b, t) \cap Ids(t)) \ Ids(held)
<1> DEFINE changed == Only(IdList(b), ChangedIds(b, t))
           updates == Updates(b, t, portable, patches)
<1>1. /\ d.portable = portable /\ portable \in BOOLEAN /\ d.updates = updates
      /\ IsPayload(b) /\ (portable \/ held = b)
  BY DEF Says, Readable
<1>2. /\ changed \in Seq(Id) /\ IsInjective(changed) /\ Range(changed) = ChangedIds(b, t)
      /\ DOMAIN updates = DOMAIN changed
      /\ \A k \in DOMAIN changed :
           /\ changed[k] \in ChangedIds(b, t)
           /\ updates[k].target = TargetOf(b, portable, changed[k])
           /\ updates[k].change = ChangeOf(b, t, portable, patches, changed[k])
  BY <1>1, ChangedListFacts
<1> HIDE DEF changed, updates
<1>3. CASE ~portable
  <2>1. Upserts(d, held) = <<>>
    BY <1>1, <1>3 DEF Upserts
  <2>2. (ChangedIds(b, t) \cap Ids(t)) \ Ids(held) = {}
    BY <1>1, <1>3 DEF ChangedIds
  <2>3. <<>> \in Seq(Id) /\ IsInjective(<<>>) /\ Range(<<>>) = {}
    BY DEF IsInjective, Range
  <2> QED BY <2>1, <2>2, <2>3
<1>4. CASE portable
  <2> DEFINE new == {updates[k].target : k \in {k \in DOMAIN updates : updates[k].change # Delete}}
                      \ Ids(held)
             targets == [k \in DOMAIN updates |-> updates[k].target]
  <2>1. Upserts(d, held) = Only(targets, new)
    BY <1>1, <1>4 DEF Upserts
  <2>2. \A k \in DOMAIN changed : updates[k].target = changed[k]
    BY <1>2, <1>4 DEF TargetOf
  <2>3. targets = changed
    <3>1. targets = [k \in DOMAIN changed |-> changed[k]]
      BY <1>2, <2>2
    <3>2. changed = [k \in DOMAIN changed |-> changed[k]]
      BY <1>2, LenProperties
    <3> QED BY <3>1, <3>2
  <2>4. \A k \in DOMAIN changed : updates[k].change # Delete <=> changed[k] \in Ids(t)
    <3> SUFFICES ASSUME NEW k \in DOMAIN changed
                 PROVE  updates[k].change # Delete <=> changed[k] \in Ids(t)
      OBVIOUS
    <3>1. updates[k].change = ChangeOf(b, t, portable, patches, changed[k])
      BY <1>2
    <3>2. changed[k] \notin Ids(t) => updates[k].change = Delete
      BY <3>1 DEF ChangeOf
    <3>3. changed[k] \in Ids(t) => updates[k].change.kind \in {"patch", "whole"}
      BY <3>1 DEF ChangeOf
    <3>4. Delete.kind = "delete"
      BY DEF Delete
    <3> QED BY <3>2, <3>3, <3>4
  <2>5. new = (ChangedIds(b, t) \cap Ids(t)) \ Ids(held)
    <3>1. ChangedIds(b, t) = {changed[k] : k \in DOMAIN changed}
      BY <1>2 DEF Range
    <3> QED BY <1>2, <2>2, <2>4, <3>1
  <2>6. ChangedIds(b, t) \cap new = new
    BY <2>5
  <2> HIDE DEF new, targets
  <2>7. /\ Only(changed, new) \in Seq(Id) /\ IsInjective(Only(changed, new))
        /\ Range(Only(changed, new)) = Range(changed) \cap new
    BY <1>2, OnlyFacts
  <2> QED BY <1>2, <2>1, <2>3, <2>5, <2>6, <2>7
<1> QED BY <1>1, <1>3, <1>4

\* The elements that are created, by the delta that creates them.
LEMMA CreatedFacts ==
  ASSUME NEW d, NEW b, NEW t, NEW portable, NEW patches, Says(d, b, t, portable, patches)
  PROVE  /\ AreRecords(d.creates) /\ IdList(d.creates) = Only(IdList(t), Ids(t) \ Ids(b))
         /\ Ids(d.creates) = Ids(t) \ Ids(b)
<1>1. IsPayload(b) /\ IsPayload(t) /\ d.creates = Creates(b, t)
  BY DEF Says
<1> DEFINE c == Creates(b, t)
           created == Ids(t) \ Ids(b)
<1>2. AreRecords(c) /\ IdList(c) = Only(IdList(t), created) /\ Ids(c) = created
  BY <1>1, CreatesFacts
<1> HIDE DEF c, created
<1>3. AreRecords(d.creates) /\ IdList(d.creates) = Only(IdList(t), created) /\ Ids(d.creates) = created
  BY <1>1, <1>2 DEF c
<1> QED BY <1>3 DEF created

\* A created element is shipped as it is in the result.
LEMMA CreatedElement ==
  ASSUME NEW d, NEW b, NEW t, NEW portable, NEW patches, Says(d, b, t, portable, patches),
         NEW id \in Ids(t), id \notin Ids(b)
  PROVE  Named(d.creates, id) = Ship(t, Named(t, id))
<1>1. IsPayload(b) /\ IsPayload(t) /\ d.creates = Creates(b, t)
  BY DEF Says
<1> DEFINE c == Creates(b, t)
           created == Ids(t) \ Ids(b)
<1>2. \A x \in created : Named(c, x) = Ship(t, Named(t, x))
  BY <1>1, CreatesFacts
<1>3. id \in created
  OBVIOUS
<1> HIDE DEF created, c
<1>4. Named(c, id) = Ship(t, Named(t, id))
  BY <1>2, <1>3
<1> QED BY <1>1, <1>4 DEF c

\* What becomes of an element.
LEMMA ChangedFacts ==
  ASSUME NEW d, NEW b, NEW t, NEW portable, NEW patches, Says(d, b, t, portable, patches),
         NEW held, Readable(d, held), NEW id
  PROVE  /\ id \in Said(b, t)
              => Changed(d, held, id) \in {Named(t, id), Ship(t, Named(t, id))}
         /\ id \in Ids(held) /\ id \notin Said(b, t) /\ id \notin Ids(b) \ Ids(t)
              => Changed(d, held, id) = Named(held, id)
<1>1. /\ d.portable = portable /\ portable \in BOOLEAN /\ d.creates = Creates(b, t)
      /\ IsPayload(b) /\ IsPayload(t) /\ (portable \/ held = b) /\ IsPayload(held)
  BY DEF Says, Readable
<1>2. Ids(d.creates) = Ids(t) \ Ids(b)
  BY CreatedFacts
<1>6. id \in Ids(t) /\ id \notin Ids(b) => Named(d.creates, id) = Ship(t, Named(t, id))
  BY CreatedElement
<1>3. CASE id \in Ids(t) \ Ids(b)
  <2>1. Changed(d, held, id) = Ship(t, Named(t, id)) /\ id \in Said(b, t)
    BY <1>2, <1>3, <1>6 DEF Changed, Said
  <2> QED BY <2>1
<1>4. CASE id \notin Ids(t) \ Ids(b) /\ id \in ChangedIds(b, t)
  <2>1. id \in Ids(b)
    BY <1>4 DEF ChangedIds
  <2>2. /\ UpdatesOf(d, held, id) # {}
        /\ Update(d, held, id) = ChangeOf(b, t, portable, patches, id)
    BY <1>1, <1>4, <2>1, UpdateFacts
  <2>3. ASSUME id \in Ids(t)
        PROVE  Changed(d, held, id) \in {Named(t, id), Ship(t, Named(t, id))}
    <3>1. CASE patches /\ ~portable
      <4>1. Update(d, held, id)
              = [kind |-> "patch", patch |-> PlanPatch(Named(b, id), Named(t, id))]
        BY <2>2, <2>3, <3>1 DEF ChangeOf
      <4>2. Changed(d, held, id) = ReadPatch(Named(held, id), PlanPatch(Named(b, id), Named(t, id)))
        BY <1>2, <1>4, <2>2, <4>1 DEF Changed
      <4>3. held = b
        BY <1>1, <3>1
      <4>4. /\ Named(b, id) \in Element /\ Named(t, id) \in Element
            /\ Named(b, id).id = Named(t, id).id
        BY <1>1, <2>1, <2>3, PayloadElements
      <4> QED BY <4>2, <4>3, <4>4, PatchBack
    <3>2. CASE ~(patches /\ ~portable)
      <4>1. Update(d, held, id) = [kind |-> "whole", element |-> Ship(t, Named(t, id))]
        BY <2>2, <2>3, <3>2 DEF ChangeOf
      <4>2. Changed(d, held, id) = Ship(t, Named(t, id))
        BY <1>2, <1>4, <2>2, <4>1 DEF Changed
      <4> QED BY <4>2
    <3> QED BY <3>1, <3>2
  <2>4. id \in Said(b, t) <=> id \in Ids(t)
    BY <1>4, <2>1 DEF Said
  <2> QED BY <2>1, <2>3, <2>4
<1>5. CASE id \notin Ids(t) \ Ids(b) /\ id \notin ChangedIds(b, t)
  <2>1. id \notin Said(b, t)
    BY <1>5 DEF Said
  <2>2. id \in Ids(held) => Changed(d, held, id) = Named(held, id)
    <3>1. id \in Ids(held) => UpdatesOf(d, held, id) = {}
      BY <1>1, <1>5, UpdateFacts
    <3> QED BY <1>2, <1>5, <3>1 DEF Changed
  <2> QED BY <2>1, <2>2
<1> QED BY <1>3, <1>4, <1>5

\* What it is made of.
LEMMA ChangedIsRecord ==
  ASSUME NEW d, NEW b, NEW t, NEW portable, NEW patches, Says(d, b, t, portable, patches),
         NEW held, Readable(d, held), NEW id
  PROVE  /\ id \in Said(b, t) =>
              /\ Changed(d, held, id) \in Loose /\ Changed(d, held, id).id = id
              /\ Changed(d, held, id).owned = Named(t, id).owned
              /\ Changed(d, held, id).body = Named(t, id).body
              /\ Owned(t, Changed(d, held, id)) = Named(t, id)
         /\ id \in Ids(held) /\ id \notin Said(b, t) /\ id \notin Ids(b) \ Ids(t) =>
              /\ Changed(d, held, id) \in Element /\ Changed(d, held, id).id = id
              /\ Changed(d, held, id) = Named(held, id)
<1>1. IsPayload(t) /\ IsPayload(held)
  BY DEF Says, Readable
<1>2. ASSUME id \in Said(b, t)
      PROVE  /\ Changed(d, held, id) \in Loose /\ Changed(d, held, id).id = id
             /\ Changed(d, held, id).owned = Named(t, id).owned
             /\ Changed(d, held, id).body = Named(t, id).body
             /\ Owned(t, Changed(d, held, id)) = Named(t, id)
  <2> DEFINE e == Named(t, id)
  <2>1. Changed(d, held, id) \in {e, Ship(t, e)}
    BY <1>2, ChangedFacts
  <2>2. id \in Ids(t)
    BY <1>2 DEF Said
  <2>3. e \in Element /\ e.id = id /\ AreRecords(t)
    BY <1>1, <2>2, PayloadElements
  <2> HIDE DEF e
  <2>4. /\ Ship(t, e) \in Loose /\ Ship(t, e).id = e.id
        /\ Ship(t, e).owned = e.owned /\ Ship(t, e).body = e.body
        /\ Owned(t, Ship(t, e)) = e /\ Owned(t, e) = e
    BY <2>3, ShipFacts
  <2>5. e \in Loose
    BY <2>3 DEF Element, Loose
  <2>6. CASE Changed(d, held, id) = e
    BY <2>3, <2>4, <2>5, <2>6 DEF e
  <2>7. CASE Changed(d, held, id) = Ship(t, e)
    <3> DEFINE r == Ship(t, e)
    <3> HIDE DEF r
    <3>1. r \in Loose /\ r.id = id /\ r.owned = e.owned /\ r.body = e.body /\ Owned(t, r) = e
      BY <2>3, <2>4 DEF r
    <3>2. Changed(d, held, id) = r
      BY <2>7 DEF r
    <3> QED BY <3>1, <3>2 DEF e
  <2> QED BY <2>1, <2>6, <2>7
<1>3. ASSUME id \in Ids(held), id \notin Said(b, t), id \notin Ids(b) \ Ids(t)
      PROVE  /\ Changed(d, held, id) \in Element /\ Changed(d, held, id).id = id
             /\ Changed(d, held, id) = Named(held, id)
  <2>1. Changed(d, held, id) = Named(held, id)
    BY <1>3, ChangedFacts
  <2>2. Named(held, id) \in Element /\ Named(held, id).id = id
    BY <1>1, <1>3, PayloadElements
  <2> QED BY <2>1, <2>2
<1> QED BY <1>2, <1>3

(***************************************************************************)
(* What applying a delta makes of a payload.                                *)
(***************************************************************************)
\* Its elements.
Left(b, t, held) == (Ids(held) \ (Ids(b) \ Ids(t))) \cup Said(b, t)

\* The order in which they are put together.
InOrder(d, held) ==
  Only(IdList(held), Ids(held) \ Deleted(d, held))
    \o Upserts(d, held)
    \o Only(IdList(d.creates), Ids(d.creates) \ Ids(held))

\* It has each of these elements once.
LEMMA InOrderFacts ==
  ASSUME NEW d, NEW b, NEW t, NEW portable, NEW patches, Says(d, b, t, portable, patches),
         NEW held, Readable(d, held)
  PROVE  /\ InOrder(d, held) \in Seq(Id) /\ IsInjective(InOrder(d, held))
         /\ Range(InOrder(d, held)) = Left(b, t, held)
<1> DEFINE K == Ids(held) \ Deleted(d, held)
           N == Ids(d.creates) \ Ids(held)
           p == Only(IdList(held), K)
           q == Upserts(d, held)
           r == Only(IdList(d.creates), N)
<1>1. /\ AreRecords(held) /\ AreRecords(d.creates) /\ Ids(held) \subseteq Id
      /\ Ids(d.creates) = Ids(t) \ Ids(b) /\ Ids(t) \subseteq Id
  <2>1. IsPayload(t) /\ IsPayload(held)
    BY DEF Says, Readable
  <2>2. Ids(t) \subseteq Id /\ AreRecords(held) /\ Ids(held) \subseteq Id
    BY <2>1, PayloadElements
  <2> QED BY <2>2, CreatedFacts
<1>2. K = Ids(held) \ (Ids(b) \ Ids(t))
  BY DeletedFacts
<1>3. /\ IdList(held) \in Seq(Id) /\ IsInjective(IdList(held)) /\ Range(IdList(held)) = Ids(held)
  BY <1>1, IdListFacts
<1>4. /\ IdList(d.creates) \in Seq(Id) /\ IsInjective(IdList(d.creates))
      /\ Range(IdList(d.creates)) = Ids(d.creates)
  BY <1>1, IdListFacts
<1>5. /\ q \in Seq(Id) /\ IsInjective(q)
      /\ Range(q) = (ChangedIds(b, t) \cap Ids(t)) \ Ids(held)
  BY UpsertsFacts
<1>6. InOrder(d, held) = p \o q \o r
  BY DEF InOrder
<1>7. K \subseteq Ids(held) /\ N \subseteq Ids(d.creates)
  OBVIOUS
<1> HIDE DEF K, N
<1>8. p \in Seq(Id) /\ IsInjective(p) /\ Range(p) = K
  <2>1. p \in Seq(Id) /\ IsInjective(p) /\ Range(p) = Range(IdList(held)) \cap K
    BY <1>3, OnlyFacts
  <2> QED BY <1>3, <1>7, <2>1
<1>9. r \in Seq(Id) /\ IsInjective(r) /\ Range(r) = N
  <2>1. r \in Seq(Id) /\ IsInjective(r) /\ Range(r) = Range(IdList(d.creates)) \cap N
    BY <1>4, OnlyFacts
  <2> QED BY <1>4, <1>7, <2>1
<1> HIDE DEF p, q, r
<1>10. ChangedIds(b, t) \subseteq Ids(b)
  BY DEF ChangedIds
<1>11. /\ K \cap Range(q) = {} /\ (K \cup Range(q)) \cap N = {}
       /\ K \cup Range(q) \cup N = Left(b, t, held)
  BY <1>1, <1>2, <1>5, <1>10 DEF N, Left, Said
<1> DEFINE pq == p \o q
<1>12. pq \in Seq(Id) /\ IsInjective(pq) /\ Range(pq) = Range(p) \cup Range(q)
  BY <1>5, <1>8, <1>11, ConcatFacts
<1> HIDE DEF pq
<1>13. pq \o r \in Seq(Id) /\ IsInjective(pq \o r) /\ Range(pq \o r) = Range(pq) \cup Range(r)
  BY <1>8, <1>9, <1>11, <1>12, ConcatFacts
<1> QED BY <1>6, <1>8, <1>9, <1>11, <1>12, <1>13 DEF pq

\* What is assembled are these elements as the delta changes them.
LEMMA AssembledFacts ==
  ASSUME NEW d, NEW b, NEW t, NEW portable, NEW patches, Says(d, b, t, portable, patches),
         NEW held, Readable(d, held)
  PROVE  /\ AreRecords(Assembled(d, held)) /\ IdList(Assembled(d, held)) = InOrder(d, held)
         /\ Ids(Assembled(d, held)) = Left(b, t, held)
         /\ \A id \in Left(b, t, held) : Named(Assembled(d, held), id) = Changed(d, held, id)
<1> DEFINE order == InOrder(d, held)
           m == [id \in Range(order) |-> Changed(d, held, id)]
<1>1. Assembled(d, held) = Listed(m, order)
  BY DEF Assembled, InOrder
<1>2. order \in Seq(Id) /\ IsInjective(order) /\ Range(order) = Left(b, t, held)
  BY InOrderFacts
<1>3. \A id \in Left(b, t, held) : Changed(d, held, id) \in Loose /\ Changed(d, held, id).id = id
  <2> SUFFICES ASSUME NEW id \in Left(b, t, held)
               PROVE  Changed(d, held, id) \in Loose /\ Changed(d, held, id).id = id
    OBVIOUS
  <2>1. /\ id \in Said(b, t) => Changed(d, held, id) \in Loose /\ Changed(d, held, id).id = id
        /\ id \in Ids(held) /\ id \notin Said(b, t) /\ id \notin Ids(b) \ Ids(t)
             => Changed(d, held, id) \in Element /\ Changed(d, held, id).id = id
    BY ChangedIsRecord
  <2>2. \A e \in Element : e \in Loose
    BY DEF Element, Loose
  <2>3. id \in Said(b, t) \/ (id \in Ids(held) /\ id \notin Said(b, t) /\ id \notin Ids(b) \ Ids(t))
    BY DEF Left
  <2> QED BY <2>1, <2>2, <2>3
<1> HIDE DEF order
<1>4. IsState(m)
  <2>1. DOMAIN m \subseteq Id
    BY <1>2 DEF Range
  <2>2. IsFiniteSet(Range(order))
    <3>1. DOMAIN order = 1 .. Len(order) /\ Len(order) \in Nat
      BY <1>2, LenProperties
    <3>2. IsFiniteSet(DOMAIN order)
      BY <3>1, FS_Interval
    <3> QED BY <3>2, FiniteRange
  <2>3. \A id \in DOMAIN m : m[id] \in Loose /\ m[id].id = id
    BY <1>2, <1>3
  <2> QED BY <2>1, <2>2, <2>3 DEF IsState
<1>5. order \in Seq(DOMAIN m)
  <2>1. order \in Seq(Range(order))
    BY <1>2, LenProperties DEF Range
  <2> QED BY <2>1
<1>6. \A id \in Range(order) : m[id] = Changed(d, held, id)
  OBVIOUS
<1> HIDE DEF m
<1>7. /\ AreRecords(Listed(m, order)) /\ IdList(Listed(m, order)) = order
      /\ Ids(Listed(m, order)) = Range(order)
      /\ \A id \in Range(order) : Named(Listed(m, order), id) = m[id]
  BY <1>4, <1>5, <1>2, ListedFacts
<1> QED BY <1>1, <1>2, <1>6, <1>7 DEF order

\* Applying a delta leaves a payload of these elements.
LEMMA AppliedFacts ==
  ASSUME NEW d, NEW b, NEW t, NEW portable, NEW patches, Says(d, b, t, portable, patches),
         NEW held, Readable(d, held)
  PROVE  LET a == Assembled(d, held)
             c == Canonical(a)
             v == Applied(d, held)
         IN  /\ AreRecords(a) /\ AreRecords(c) /\ IsPayload(v)
             /\ IdList(c) = OwnershipPreorder(a) /\ IdList(v) = OwnershipPreorder(a)
             /\ Ids(a) = Left(b, t, held) /\ Ids(c) = Left(b, t, held)
             /\ Ids(v) = Left(b, t, held)
             /\ \A id \in Left(b, t, held) :
                  /\ Named(a, id) = Changed(d, held, id)
                  /\ Named(c, id) = Changed(d, held, id)
                  /\ Named(v, id) = Owned(c, Changed(d, held, id))
                  /\ Named(v, id).owned = Changed(d, held, id).owned
                  /\ Named(v, id).body = Changed(d, held, id).body
<1> DEFINE a == Assembled(d, held)
           c == Canonical(a)
           v == Applied(d, held)
           L == Left(b, t, held)
<1>1. /\ AreRecords(a) /\ Ids(a) = L
      /\ \A id \in L : Named(a, id) = Changed(d, held, id)
  BY AssembledFacts
<1>2. v = Rederived(c)
  BY DEF Applied
<1> HIDE DEF a, v, L
<1>3. /\ AreRecords(c) /\ IdList(c) = OwnershipPreorder(a)
      /\ Ids(c) = Ids(a)
      /\ \A id \in Ids(a) : Named(c, id) = Named(a, id)
  BY <1>1, CanonicalFacts
<1> HIDE DEF c
<1>4. /\ IsPayload(v) /\ IdList(v) = IdList(c) /\ Ids(v) = Ids(c)
      /\ \A id \in Ids(c) : /\ Named(v, id) = Owned(c, Named(c, id))
                            /\ Named(v, id).owned = Named(c, id).owned
                            /\ Named(v, id).body = Named(c, id).body
  BY <1>2, <1>3, RederivedFacts
<1>5. \A id \in L :
        /\ Named(a, id) = Changed(d, held, id)
        /\ Named(c, id) = Changed(d, held, id)
        /\ Named(v, id) = Owned(c, Changed(d, held, id))
        /\ Named(v, id).owned = Changed(d, held, id).owned
        /\ Named(v, id).body = Changed(d, held, id).body
  <2> SUFFICES ASSUME NEW id \in L
               PROVE  /\ Named(a, id) = Changed(d, held, id)
                      /\ Named(c, id) = Changed(d, held, id)
                      /\ Named(v, id) = Owned(c, Changed(d, held, id))
                      /\ Named(v, id).owned = Changed(d, held, id).owned
                      /\ Named(v, id).body = Changed(d, held, id).body
    OBVIOUS
  <2>1. Named(a, id) = Changed(d, held, id) /\ Named(c, id) = Named(a, id)
    BY <1>1, <1>3
  <2>2. /\ Named(v, id) = Owned(c, Named(c, id))
        /\ Named(v, id).owned = Named(c, id).owned
        /\ Named(v, id).body = Named(c, id).body
    BY <1>1, <1>3, <1>4
  <2> QED BY <2>1, <2>2
<1> QED BY <1>1, <1>3, <1>4, <1>5 DEF a, c, v, L

(***************************************************************************)
(* A delta applied to its base gives its result.                            *)
(***************************************************************************)
\* d is encoded between two payloads.
Encodes(d, base, target, portable, patches) ==
  /\ IsPayload(base) /\ IsPayload(target)
  /\ portable \in BOOLEAN /\ patches \in BOOLEAN
  /\ d = DeltaEncode(base, target, portable, patches)

\* What is encoded says how the canonical base becomes the canonical target in
\* the order that applying it gives.
LEMMA EncodedFacts ==
  ASSUME NEW d, NEW base, NEW target, NEW portable, NEW patches,
         Encodes(d, base, target, portable, patches)
  PROVE  LET b == Canonical(base)
             c == Canonical(target)
             t == AppliedOrder(b, c)
         IN  /\ IsPayload(b) /\ IsPayload(c) /\ IsPayload(t)
             /\ Says(d, b, t, portable, patches)
             /\ d.units = IF portable THEN {} ELSE UnitRoots(target, t)
<1> DEFINE b == Canonical(base)
           c == Canonical(target)
           t == AppliedOrder(b, c)
<1>1. IsPayload(base) /\ IsPayload(target) /\ portable \in BOOLEAN /\ patches \in BOOLEAN
  BY DEF Encodes
<1>2. d = [portable |-> portable, base |-> b, result |-> t,
           updates |-> Updates(b, t, portable, patches), creates |-> Creates(b, t),
           units |-> IF portable THEN {} ELSE UnitRoots(target, t)]
  BY DEF Encodes, DeltaEncode
<1>3. IsPayload(b) /\ IsPayload(c)
  BY <1>1, CanonicalPayload
<1> HIDE DEF b, c
<1>4. IsPayload(t)
  BY <1>3, AppliedOrderFacts
<1> HIDE DEF t
<1>5. Says(d, b, t, portable, patches)
  BY <1>1, <1>2, <1>3, <1>4 DEF Says
<1>6. d.units = IF portable THEN {} ELSE UnitRoots(target, t)
  BY <1>2
<1> QED BY <1>3, <1>4, <1>5, <1>6 DEF b, c, t

\* The order of what a delta assembles from its base.
LEMMA BaseInOrder ==
  ASSUME NEW d, NEW b, NEW t, NEW portable, NEW patches, Says(d, b, t, portable, patches)
  PROVE  InOrder(d, b) = Only(IdList(b), Ids(t)) \o Only(IdList(t), Ids(t) \ Range(IdList(b)))
<1>1. Readable(d, b) /\ IsPayload(b) /\ IsPayload(t)
  BY DEF Says, Readable
<1>2. /\ IdList(b) \in Seq(Id) /\ Range(IdList(b)) = Ids(b)
      /\ IdList(t) \in Seq(Id) /\ Range(IdList(t)) = Ids(t)
  BY <1>1, PayloadElements, IdListFacts
<1> DEFINE K == Ids(b) \ Deleted(d, b)
           N == Ids(d.creates) \ Ids(b)
           T == Ids(t)
           U == Ids(t) \ Ids(b)
           p == IdList(b)
           q == IdList(t)
<1>3. Deleted(d, b) = Ids(b) \cap (Ids(b) \ Ids(t))
  BY <1>1, DeletedFacts
<1>4. IdList(d.creates) = Only(q, U) /\ Ids(d.creates) = U
  BY CreatedFacts
<1>5. Upserts(d, b) \in Seq(Id) /\ Range(Upserts(d, b)) = (ChangedIds(b, t) \cap Ids(t)) \ Ids(b)
  BY <1>1, UpsertsFacts
<1>6. Upserts(d, b) = <<>>
  <2>1. Range(Upserts(d, b)) = {}
    BY <1>5 DEF ChangedIds
  <2> QED BY <1>5, <2>1, NoElements
<1>7. InOrder(d, b) = Only(p, K) \o <<>> \o Only(Only(q, U), N)
  BY <1>4, <1>6 DEF InOrder
<1>8. \A x \in Range(p) : x \in K <=> x \in T
  BY <1>2, <1>3
<1>9. N = U
  BY <1>4
<1>10. p \in Seq(Id) /\ q \in Seq(Id)
  BY <1>2
<1> HIDE DEF K, N, T, U, p, q
<1>11. Only(p, K) = Only(p, T)
  BY <1>8, <1>10, OnlySame
<1>12. Only(p, T) \in Seq(Id)
  BY <1>10, OnlyType
<1>13. Only(p, T) \o <<>> = Only(p, T)
  BY <1>12, ConcatEmptySeq
<1>14. U \cap U = U
  OBVIOUS
<1>15. Only(Only(q, U), U) = Only(q, U \cap U)
  BY <1>10, OnlyTwice
<1>16. InOrder(d, b) = Only(p, T) \o Only(q, U)
  BY <1>7, <1>9, <1>11, <1>13, <1>14, <1>15
<1>17. U = Ids(t) \ Range(IdList(b))
  BY <1>2 DEF U
<1> QED BY <1>16, <1>17 DEF p, q, T

\* What is assembled from the base is what the result was made of.
LEMMA BaseAssembled ==
  ASSUME NEW d, NEW base, NEW target, NEW portable, NEW patches,
         Encodes(d, base, target, portable, patches)
  PROVE  LET b == Canonical(base)
             t == AppliedOrder(b, Canonical(target))
             a == Assembled(d, b)
         IN  Left(b, t, b) = Ids(t) /\ SameShape(a, t) /\ OwnershipPreorder(a) = IdList(t)
<1> DEFINE b == Canonical(base)
           c == Canonical(target)
           t == AppliedOrder(b, c)
           a == Assembled(d, b)
           listed == Listed(State(c), Mixed(b, c))
<1>1. IsPayload(b) /\ IsPayload(c) /\ IsPayload(t) /\ Says(d, b, t, portable, patches)
  BY EncodedFacts
<1> HIDE DEF b, c
<1>2. /\ AreRecords(listed) /\ IdList(listed) = Mixed(b, c) /\ Ids(listed) = Ids(c)
      /\ \A id \in Ids(c) : Named(listed, id) = Named(c, id)
      /\ t = Canonical(listed) /\ Ids(t) = Ids(c)
      /\ \A id \in Ids(c) : Named(t, id) = Named(c, id)
  BY <1>1, AppliedOrderFacts
<1> HIDE DEF t, listed
<1>3. Readable(d, b)
  BY <1>1 DEF Readable, Says
<1>4. Left(b, t, b) = Ids(t)
  BY DEF Left, Said, ChangedIds
<1>5. /\ AreRecords(a) /\ IdList(a) = InOrder(d, b) /\ Ids(a) = Left(b, t, b)
      /\ \A id \in Left(b, t, b) : Named(a, id) = Changed(d, b, id)
  BY <1>1, <1>3, AssembledFacts
<1> HIDE DEF a
<1>6. ASSUME NEW id \in Ids(t)
      PROVE  Named(a, id).owned = Named(t, id).owned
  <2>1. Named(a, id) = Changed(d, b, id)
    BY <1>4, <1>5
  <2>2. CASE id \in Said(b, t)
    <3>1. Changed(d, b, id).owned = Named(t, id).owned
      BY <1>1, <1>3, <2>2, ChangedIsRecord
    <3> QED BY <2>1, <3>1
  <2>3. CASE id \notin Said(b, t)
    <3>1. id \in Ids(b) /\ Named(t, id) = Named(b, id) /\ id \notin Ids(b) \ Ids(t)
      BY <2>3 DEF Said, ChangedIds
    <3>2. Changed(d, b, id) = Named(b, id)
      BY <1>1, <1>3, <2>3, <3>1, ChangedIsRecord
    <3> QED BY <2>1, <3>1, <3>2
  <2> QED BY <2>2, <2>3
<1>7. SameShape(a, t)
  BY <1>4, <1>5, <1>6 DEF SameShape
<1>8. SameShape(listed, a)
  <2>1. Ids(listed) = Ids(a)
    BY <1>2, <1>4, <1>5
  <2>2. ASSUME NEW id \in Ids(listed)
        PROVE  Named(listed, id).owned = Named(a, id).owned
    <3>1. id \in Ids(c) /\ id \in Ids(t)
      BY <1>2, <2>2
    <3>2. Named(listed, id) = Named(c, id) /\ Named(t, id) = Named(c, id)
      BY <1>2, <3>1
    <3> QED BY <1>6, <3>1, <3>2
  <2> QED BY <2>1, <2>2 DEF SameShape
<1> DEFINE p == IdList(b)
           q == IdList(c)
<1>9. p \in Seq(Id) /\ q \in Seq(Id) /\ Range(p) = Ids(b)
  BY <1>1, PayloadElements, IdListFacts
<1>10. IdList(listed) = Only(p, Ids(listed)) \o Only(q, Ids(listed) \ Range(p))
  BY <1>2, <1>9 DEF Mixed
<1>11. IdList(t) = OwnershipPreorder(listed)
  BY <1>2, CanonicalFacts
<1>12. IdList(a) = Only(p, Ids(t)) \o Only(IdList(t), Ids(t) \ Range(p))
  BY <1>1, <1>5, BaseInOrder
<1> HIDE DEF p, q
<1>13. Ids(listed) = Ids(t)
  BY <1>2
<1>14. IdList(a) = Only(p, Ids(listed)) \o Only(OwnershipPreorder(listed), Ids(listed) \ Range(p))
  BY <1>11, <1>12, <1>13
<1>15. OwnershipPreorder(a) = OwnershipPreorder(listed)
  BY <1>2, <1>5, <1>8, <1>9, <1>10, <1>14, Reordered
<1>16. OwnershipPreorder(a) = IdList(t)
  BY <1>11, <1>15
<1> QED BY <1>4, <1>7, <1>16 DEF b, c, t, a

\* Applying a delta to the state it was encoded against gives exactly the state
\* it was encoded from.
LEMMA Exact ==
  ASSUME NEW d, NEW base, NEW target, NEW portable, NEW patches,
         Encodes(d, base, target, portable, patches)
  PROVE  Applied(d, d.base) = d.result
<1> DEFINE b == Canonical(base)
           t == AppliedOrder(b, Canonical(target))
           a == Assembled(d, b)
           c == Canonical(a)
           v == Applied(d, b)
           L == Left(b, t, b)
<1>1. IsPayload(b) /\ IsPayload(t) /\ Says(d, b, t, portable, patches)
  BY EncodedFacts
<1>2. L = Ids(t) /\ SameShape(a, t) /\ OwnershipPreorder(a) = IdList(t)
  BY BaseAssembled
<1> HIDE DEF b, t
<1>3. Readable(d, b) /\ d.base = b /\ d.result = t
  BY <1>1 DEF Readable, Says
<1>4. /\ AreRecords(a) /\ AreRecords(c) /\ IsPayload(v)
      /\ IdList(c) = OwnershipPreorder(a) /\ IdList(v) = OwnershipPreorder(a)
      /\ Ids(a) = L /\ Ids(c) = L /\ Ids(v) = L
      /\ \A id \in L :
           /\ Named(a, id) = Changed(d, b, id)
           /\ Named(c, id) = Changed(d, b, id)
           /\ Named(v, id) = Owned(c, Changed(d, b, id))
  BY <1>1, <1>3, AppliedFacts
<1> HIDE DEF a, c, v, L
<1>5. SameShape(c, t)
  BY <1>2, <1>4 DEF SameShape
<1>6. AreRecords(v) /\ AreRecords(t)
  BY <1>1, <1>4, PayloadElements
<1>7. \A id : FirstClaimant(c, id) = FirstClaimant(t, id)
  BY <1>2, <1>4, <1>5, <1>6, SameClaimant
<1>8. \A e : Owned(c, e) = Owned(t, e)
  BY <1>7 DEF Owned
<1>9. ASSUME NEW id \in Ids(v)
      PROVE  Named(v, id) = Named(t, id)
  <2>1. id \in L /\ id \in Ids(t) /\ Named(v, id) = Owned(t, Changed(d, b, id))
    BY <1>2, <1>4, <1>8, <1>9
  <2>2. CASE id \in Said(b, t)
    <3>1. Owned(t, Changed(d, b, id)) = Named(t, id)
      BY <1>1, <1>3, <2>2, ChangedIsRecord
    <3> QED BY <2>1, <3>1
  <2>3. CASE id \notin Said(b, t)
    <3>1. id \in Ids(b) /\ Named(t, id) = Named(b, id) /\ id \notin Ids(b) \ Ids(t)
      BY <2>1, <2>3 DEF Said, ChangedIds
    <3>2. Changed(d, b, id) = Named(b, id)
      BY <1>1, <1>3, <2>3, <3>1, ChangedIsRecord
    <3>3. Named(t, id) \in Element
      BY <1>1, <2>1, PayloadElements
    <3>4. Owned(t, Named(t, id)) = Named(t, id)
      BY <1>6, <3>3, ShipFacts
    <3>5. Changed(d, b, id) = Named(t, id)
      BY <3>1, <3>2
    <3> QED BY <2>1, <3>4, <3>5
  <2> QED BY <2>2, <2>3
<1>10. v = t
  BY <1>2, <1>4, <1>6, <1>9, SameRecords
<1> QED BY <1>3, <1>10 DEF v

(***************************************************************************)
(* A portable delta applied a second time.                                  *)
(***************************************************************************)
\* What a portable delta says of an element it says wherever it is applied.
LEMMA SaidAnywhere ==
  ASSUME NEW d, NEW b, NEW t, NEW portable, NEW patches, Says(d, b, t, portable, patches),
         d.portable, NEW h, NEW k, NEW id \in Said(b, t)
  PROVE  Changed(d, h, id) = Changed(d, k, id)
<1>1. portable /\ Ids(d.creates) = Ids(t) \ Ids(b)
  BY CreatedFacts, ZenonT(30) DEF Says
<1>2. CASE id \in Ids(d.creates)
  BY <1>2 DEF Changed
<1>3. CASE id \notin Ids(d.creates)
  <2>1. id \in ChangedIds(b, t)
    BY <1>1, <1>3 DEF Said
  <2>2. UpdatesOf(d, h, id) # {} /\ Update(d, h, id) = ChangeOf(b, t, portable, patches, id)
    BY <1>1, <2>1, UpdateFacts
  <2>3. UpdatesOf(d, k, id) # {} /\ Update(d, k, id) = ChangeOf(b, t, portable, patches, id)
    BY <1>1, <2>1, UpdateFacts
  <2>4. id \in Ids(t)
    BY DEF Said
  <2>5. ChangeOf(b, t, portable, patches, id) = [kind |-> "whole", element |-> Ship(t, Named(t, id))]
    BY <1>1, <2>4 DEF ChangeOf
  <2>6. /\ ChangeOf(b, t, portable, patches, id).kind = "whole"
        /\ ChangeOf(b, t, portable, patches, id).element = Ship(t, Named(t, id))
    BY <2>5
  <2>7. Changed(d, h, id) = Ship(t, Named(t, id))
    BY <1>3, <2>2, <2>6 DEF Changed
  <2>8. Changed(d, k, id) = Ship(t, Named(t, id))
    BY <1>3, <2>3, <2>6 DEF Changed
  <2> QED BY <2>7, <2>8
<1> QED BY <1>2, <1>3

\* Where a portable delta has been applied it moves nothing.
LEMMA InOrderAgain ==
  ASSUME NEW d, NEW b, NEW t, NEW portable, NEW patches, Says(d, b, t, portable, patches),
         d.portable, NEW held, IsPayload(held), NEW h, IsPayload(h), Ids(h) = Left(b, t, held)
  PROVE  InOrder(d, h) = IdList(h)
<1> DEFINE K == Ids(h) \ Deleted(d, h)
           N == Ids(d.creates) \ Ids(h)
           p == IdList(h)
           q == IdList(d.creates)
<1>1. Readable(d, h) /\ AreRecords(h) /\ Ids(h) \subseteq Id
  BY PayloadElements DEF Readable, Says
<1>2. p \in Seq(Id) /\ Range(p) = Ids(h)
  BY <1>1, IdListFacts
<1>3. AreRecords(d.creates) /\ Ids(d.creates) = Ids(t) \ Ids(b)
  BY CreatedFacts
<1>4. q \in Seq(Id) /\ Range(q) = Ids(d.creates)
  BY <1>3, IdListFacts
<1>5. K = Ids(h)
  <2>1. Deleted(d, h) = Ids(h) \cap (Ids(b) \ Ids(t))
    BY <1>1, DeletedFacts
  <2> QED BY <2>1 DEF Left, Said
<1>6. N = {}
  BY <1>3 DEF Left, Said
<1>7. Upserts(d, h) = <<>>
  <2>1. Upserts(d, h) \in Seq(Id) /\ Range(Upserts(d, h)) = (ChangedIds(b, t) \cap Ids(t)) \ Ids(h)
    BY <1>1, UpsertsFacts
  <2>2. Range(Upserts(d, h)) = {}
    BY <2>1 DEF Left, Said
  <2> QED BY <2>1, <2>2, NoElements
<1>8. InOrder(d, h) = Only(p, K) \o <<>> \o Only(q, N)
  BY <1>7 DEF InOrder
<1> HIDE DEF K, N, p, q
<1>9. Only(p, K) = p
  BY <1>2, <1>5, OnlyAll
<1>10. Only(q, N) = <<>>
  BY <1>4, <1>6, OnlyAll
<1>11. p \o <<>> = p
  BY <1>2, ConcatEmptySeq
<1> QED BY <1>8, <1>9, <1>10, <1>11 DEF p

\* Applying a portable delta to what it left changes nothing.
LEMMA Replayed ==
  ASSUME NEW d, NEW b, NEW t, NEW portable, NEW patches, Says(d, b, t, portable, patches),
         d.portable, NEW held, IsPayload(held)
  PROVE  LET once  == Applied(d, held)
             again == Canonical(once)
             twice == Applied(d, again)
         IN  IsPayload(once) /\ IsPayload(again) /\ State(twice) = State(once)
<1> DEFINE L == Left(b, t, held)
           a1 == Assembled(d, held)
           c1 == Canonical(a1)
           once == Applied(d, held)
           h == Canonical(once)
           a2 == Assembled(d, h)
           c2 == Canonical(a2)
           twice == Applied(d, h)
<1>1. Readable(d, held)
  BY DEF Readable, Says
<1>2. /\ AreRecords(a1) /\ AreRecords(c1) /\ IsPayload(once)
      /\ IdList(c1) = OwnershipPreorder(a1) /\ IdList(once) = OwnershipPreorder(a1)
      /\ Ids(a1) = L /\ Ids(c1) = L /\ Ids(once) = L
      /\ \A id \in L :
           /\ Named(a1, id) = Changed(d, held, id)
           /\ Named(c1, id) = Changed(d, held, id)
           /\ Named(once, id) = Owned(c1, Changed(d, held, id))
           /\ Named(once, id).owned = Changed(d, held, id).owned
  BY <1>1, AppliedFacts
<1> HIDE DEF once
<1>3. AreRecords(once)
  BY <1>2, PayloadElements
<1>4. /\ IsPayload(h) /\ IdList(h) = OwnershipPreorder(once) /\ Ids(h) = Ids(once)
      /\ \A id \in Ids(once) : Named(h, id) = Named(once, id)
  BY <1>2, <1>3, CanonicalFacts, CanonicalPayload
<1> HIDE DEF h
<1>5. Readable(d, h)
  BY <1>4 DEF Readable, Says
<1> DEFINE M == Left(b, t, h)
<1>6. M = L
  BY <1>2, <1>4 DEF Left, Said
<1>7. /\ AreRecords(a2) /\ AreRecords(c2) /\ IsPayload(twice)
      /\ IdList(c2) = OwnershipPreorder(a2) /\ Ids(a2) = M /\ Ids(c2) = M /\ Ids(twice) = M
      /\ \A id \in M :
           /\ Named(a2, id) = Changed(d, h, id)
           /\ Named(c2, id) = Changed(d, h, id)
           /\ Named(twice, id) = Owned(c2, Changed(d, h, id))
  BY <1>5, AppliedFacts
<1>8. IdList(a2) = InOrder(d, h)
  BY <1>5, AssembledFacts
<1> HIDE DEF twice, a1, a2, c1, c2, M
<1>9. InOrder(d, h) = IdList(h)
  BY <1>2, <1>4, InOrderAgain
<1>10. ASSUME NEW id \in L
       PROVE  Changed(d, h, id) = IF id \in Said(b, t) THEN Changed(d, held, id) ELSE Named(once, id)
  <2>1. CASE id \in Said(b, t)
    BY <2>1, SaidAnywhere
  <2>2. CASE id \notin Said(b, t)
    <3>1. id \in Ids(h) /\ id \notin Ids(b) \ Ids(t)
      BY <1>2, <1>4, <1>10, <2>2 DEF Left
    <3>2. Changed(d, h, id) = Named(h, id)
      BY <1>5, <2>2, <3>1, ChangedIsRecord
    <3> QED BY <1>2, <1>4, <1>10, <2>2, <3>2
  <2> QED BY <2>1, <2>2
<1>11. ASSUME NEW id \in L
       PROVE  Changed(d, h, id).owned = Changed(d, held, id).owned
  BY <1>2, <1>10, <1>11
<1> HIDE DEF L
<1>12. SameShape(a1, once) /\ SameShape(a1, a2) /\ SameShape(c1, c2)
  <2>1. Ids(a1) = L /\ Ids(once) = L /\ Ids(a2) = L /\ Ids(c1) = L /\ Ids(c2) = L
    BY <1>2, <1>6, <1>7
  <2>2. ASSUME NEW id \in L
        PROVE  /\ Named(a1, id).owned = Named(once, id).owned
               /\ Named(a1, id).owned = Named(a2, id).owned
               /\ Named(c1, id).owned = Named(c2, id).owned
    <3>1. /\ Named(a1, id) = Changed(d, held, id) /\ Named(c1, id) = Changed(d, held, id)
          /\ Named(once, id).owned = Changed(d, held, id).owned
      BY <1>2, <2>2
    <3>2. Named(a2, id) = Changed(d, h, id) /\ Named(c2, id) = Changed(d, h, id)
      BY <1>6, <1>7, <2>2
    <3>3. Changed(d, h, id).owned = Changed(d, held, id).owned
      BY <1>11, <2>2
    <3> QED BY <3>1, <3>2, <3>3
  <2> QED BY <2>1, <2>2 DEF SameShape
<1>13. OwnershipPreorder(once) = OwnershipPreorder(a1)
  BY <1>2, <1>3, <1>12, CanonicalOnce
<1>14. IdList(a2) = OwnershipPreorder(a1)
  BY <1>4, <1>8, <1>9, <1>13
<1>15. OwnershipPreorder(a2) = OwnershipPreorder(a1)
  BY <1>2, <1>7, <1>12, <1>14, CanonicalOnce
<1>16. IdList(c1) = IdList(c2)
  BY <1>2, <1>7, <1>15
<1>17. \A id : FirstClaimant(c1, id) = FirstClaimant(c2, id)
  BY <1>2, <1>7, <1>12, <1>16, SameClaimant
<1>18. \A e : Owned(c1, e) = Owned(c2, e)
  BY <1>17 DEF Owned
<1>19. ASSUME NEW id \in L
       PROVE  Named(twice, id) = Named(once, id)
  <2>1. Named(twice, id) = Owned(c2, Changed(d, h, id))
    BY <1>6, <1>7, <1>19
  <2>2. Named(once, id) = Owned(c1, Changed(d, held, id))
    BY <1>2, <1>19
  <2>3. CASE id \in Said(b, t)
    <3>1. Changed(d, h, id) = Changed(d, held, id)
      BY <1>10, <1>19, <2>3
    <3> QED BY <1>18, <2>1, <2>2, <3>1
  <2>4. CASE id \notin Said(b, t)
    <3>1. Changed(d, h, id) = Named(once, id)
      BY <1>10, <1>19, <2>4
    <3>2. Named(once, id) \in Element
      BY <1>2, <1>19, PayloadElements
    <3> DEFINE e == Named(once, id)
    <3> HIDE DEF e
    <3>3. e \in Element
      BY <3>2 DEF e
    <3>4. Owned(c2, e) = e
      BY <1>7, <3>3, ShipFacts
    <3> QED BY <2>1, <3>1, <3>4 DEF e
  <2> QED BY <2>3, <2>4
<1>20. State(twice) = State(once)
  <2>1. Ids(twice) = L /\ Ids(once) = L
    BY <1>2, <1>6, <1>7
  <2> QED BY <1>19, <2>1 DEF State
<1> QED BY <1>2, <1>4, <1>20 DEF once, h, twice

(***************************************************************************)
(* A graph store's spelling.                                                *)
(***************************************************************************)
\* Numbers in a sequence have a bound.
LEMMA Bounded ==
  ASSUME NEW q \in Seq(Nat)
  PROVE  \E n \in Nat : Range(q) \subseteq 0 .. n
<1> DEFINE T == {r \in Seq(Nat) : \E n \in Nat : Range(r) \subseteq 0 .. n}
<1>1. <<>> \in T
  BY EmptySeq DEF Range
<1>2. ASSUME NEW r \in Seq(Nat), NEW x \in Nat, r \in T
      PROVE  Append(r, x) \in T
  <2>1. PICK n \in Nat : Range(r) \subseteq 0 .. n
    BY <1>2
  <2>2. Append(r, x) \in Seq(Nat) /\ Range(Append(r, x)) = Range(r) \cup {x}
    BY LastOne
  <2>3. Range(Append(r, x)) \subseteq 0 .. (n + x)
    BY <2>1, <2>2
  <2>4. n + x \in Nat
    OBVIOUS
  <2> QED BY <2>2, <2>3, <2>4
<1> HIDE DEF T
<1>3. q \in T
  BY <1>1, <1>2, SequenceInduction
<1> QED BY <1>3 DEF T

\* The ids of a payload in their order.
LEMMA AscendingFacts ==
  ASSUME NEW s, IsPayload(s)
  PROVE  /\ Ascending(Ids(s)) \in Seq(Id) /\ IsInjective(Ascending(Ids(s)))
         /\ Range(Ascending(Ids(s))) = Ids(s)
<1> DEFINE ids == Ids(s)
           U == ids \cup {0}
           top == Max(U)
           q == [i \in 1 .. top |-> i]
<1>1. IdList(s) \in Seq(Id) /\ Range(IdList(s)) = ids /\ ids \subseteq Id
  BY PayloadElements, IdListFacts
<1>2. PICK n \in Nat : ids \subseteq 0 .. n
  <2>1. IdList(s) \in Seq(Nat)
    BY <1>1, SeqMonotonic DEF Id
  <2> QED BY <1>1, <2>1, Bounded
<1> HIDE DEF ids
<1>3. \E x \in U : \A y \in U : x >= y
  <2>1. U \subseteq 0 .. n /\ U # {}
    BY <1>2
  <2> QED BY <2>1, Greatest
<1>4. top \in U /\ \A y \in U : top >= y
  BY <1>3 DEF Max
<1> HIDE DEF top
<1>5. top \in Nat
  <2>1. ids \cup {0} \subseteq Nat
    BY <1>1 DEF Id
  <2> QED BY <1>4, <2>1
<1>6. q \in Seq(Id) /\ IsInjective(q) /\ Range(q) = 1 .. top
  BY <1>5 DEF IsInjective, Range, Id
<1>7. Ascending(ids) = Only(q, ids)
  BY DEF Ascending, top
<1>8. ids \subseteq 1 .. top
  BY <1>1, <1>4, <1>5 DEF Id
<1> HIDE DEF q
<1>9. /\ Only(q, ids) \in Seq(Id) /\ IsInjective(Only(q, ids))
      /\ Range(Only(q, ids)) = Range(q) \cap ids
  BY <1>6, OnlyFacts
<1>10. Range(q) \cap ids = ids
  BY <1>6, <1>8
<1> QED BY <1>7, <1>9, <1>10 DEF ids

\* The store's spelling changes owners only.
LEMMA RespelledFacts ==
  ASSUME NEW s, IsPayload(s), NEW id \in Ids(s)
  PROVE  /\ Respelled(s, id) \in Element /\ Respelled(s, id).id = id
         /\ Respelled(s, id).owned = Named(s, id).owned
         /\ Respelled(s, id).body = Named(s, id).body
         /\ Respelled(s, id).owner # Null
         /\ Respelled(s, id).owner = Unspelled => FirstClaimant(s, id) = Null
<1> DEFINE e == Named(s, id)
           f == FirstClaimant(s, id)
           o == IF e.owner \in {Null, Unspelled} THEN IF f = Null THEN Unspelled ELSE f ELSE e.owner
<1>1. e \in Element /\ e.id = id /\ AreRecords(s) /\ Ids(s) \subseteq Id
  BY PayloadElements
<1>2. f \in Ids(s) \cup {Null}
  BY <1>1, ClaimantFacts
<1>3. Respelled(s, id) = [e EXCEPT !.owner = o]
  BY DEF Respelled
<1> HIDE DEF e, f
<1>4. e = [id |-> id, owned |-> e.owned, owner |-> e.owner, body |-> e.body]
      /\ e.owned \in Seq(Id) /\ e.owner \in Id \cup {Null, Unspelled} /\ e.body \in Bodies /\ id \in Id
  BY <1>1 DEF Element
<1>5. o \in Id \cup {Null, Unspelled} /\ o # Null /\ (o = Unspelled => f = Null)
  BY <1>1, <1>2, <1>4, OwnersAssumption
<1> HIDE DEF o
<1>6. Respelled(s, id) = [id |-> id, owned |-> e.owned, owner |-> o, body |-> e.body]
  BY <1>3, <1>4
<1>7. Respelled(s, id) \in Element
  BY <1>4, <1>5, <1>6 DEF Element
<1> QED BY <1>5, <1>6, <1>7 DEF e, f

\* The store's spelling of a payload is a payload that says the normalized state.
LEMMA NormalizedFacts ==
  ASSUME NEW s, IsPayload(s)
  PROVE  /\ IsPayload(GraphNormalize(s)) /\ State(GraphNormalize(s)) = Normalized(s)
         /\ Ids(GraphNormalize(s)) = Ids(s)
<1> DEFINE m == Normalized(s)
           order == Ascending(Ids(s))
           g == Listed(m, order)
<1>1. DOMAIN m = Ids(s) /\ \A id \in Ids(s) : m[id] = Respelled(s, id)
  BY DEF Normalized
<1>2. \A id \in Ids(s) : m[id] \in Element /\ m[id].id = id
  BY <1>1, RespelledFacts
<1>3. order \in Seq(Id) /\ IsInjective(order) /\ Range(order) = Ids(s)
  BY AscendingFacts
<1>4. GraphNormalize(s) = g
  BY DEF GraphNormalize
<1>5. AreRecords(s) /\ Ids(s) \subseteq Id
  BY PayloadElements
<1>6. m = [id \in Ids(s) |-> m[id]]
  BY DEF Normalized
<1> HIDE DEF m, order
<1>7. IsState(m)
  <2>1. IsFiniteSet(Ids(s))
    BY <1>5, StateFacts DEF IsState
  <2>2. \A e \in Element : e \in Loose
    BY DEF Element, Loose
  <2> QED BY <1>1, <1>2, <1>5, <2>1, <2>2 DEF IsState
<1>8. order \in Seq(DOMAIN m)
  <2>1. order \in Seq(Range(order))
    BY <1>3, LenProperties DEF Range
  <2> QED BY <1>1, <1>3, <2>1
<1>9. /\ AreRecords(g) /\ Len(g) = Len(order) /\ Ids(g) = Range(order)
      /\ \A id \in Range(order) : Named(g, id) = m[id]
      /\ \A i \in 1 .. Len(order) : g[i] = m[order[i]]
  BY <1>3, <1>7, <1>8, ListedFacts
<1> HIDE DEF g
<1>10. \A i \in 1 .. Len(g) : g[i] \in Element
  <2>1. \A i \in 1 .. Len(order) : order[i] \in Ids(s)
    BY <1>3, LenProperties DEF Range
  <2> QED BY <1>2, <1>9, <2>1
<1>11. IsPayload(g)
  BY <1>9, <1>10, PayloadIsRecords
<1>12. State(g) = m
  <2>1. State(g) = [id \in Ids(s) |-> m[id]]
    BY <1>3, <1>9 DEF State
  <2> QED BY <1>6, <2>1
<1> QED BY <1>3, <1>4, <1>9, <1>11, <1>12 DEF m

\* The spelling of what is spelled that way is itself.
LEMMA NormalizedAgain ==
  ASSUME NEW s, IsPayload(s), NEW t, IsPayload(t), State(t) = Normalized(s)
  PROVE  Normalized(t) = Normalized(s)
<1>1. /\ AreRecords(s) /\ AreRecords(t)
  BY PayloadElements
<1>2. Ids(t) = Ids(s)
  BY DEF State, Normalized
<1>3. \A id \in Ids(s) : Named(t, id) = Respelled(s, id)
  <2>1. \A id \in Ids(s) : State(t)[id] = Named(t, id)
    BY <1>2 DEF State
  <2>2. \A id \in Ids(s) : Normalized(s)[id] = Respelled(s, id)
    BY DEF Normalized
  <2> QED BY <2>1, <2>2
<1>4. ASSUME NEW id \in Ids(s)
      PROVE  Respelled(t, id) = Respelled(s, id)
  <2> DEFINE e == Named(t, id)
  <2>1. /\ e = Respelled(s, id) /\ e \in Element /\ e.owner # Null
        /\ e.owner = Unspelled => FirstClaimant(s, id) = Null
    BY <1>3, RespelledFacts
  <2>2. FirstClaimant(s, id) = Null => FirstClaimant(t, id) = Null
    <3>1. FirstClaimant(s, id) = Null <=> \A x \in Ids(s) : id \notin Range(Named(s, x).owned)
      BY <1>1, ClaimantFacts
    <3>2. FirstClaimant(t, id) = Null <=> \A x \in Ids(t) : id \notin Range(Named(t, x).owned)
      BY <1>1, ClaimantFacts
    <3>3. \A x \in Ids(s) : Named(t, x).owned = Named(s, x).owned
      BY <1>3, RespelledFacts
    <3> QED BY <1>2, <3>1, <3>2, <3>3
  <2> DEFINE o == IF e.owner \in {Null, Unspelled}
                  THEN IF FirstClaimant(t, id) = Null THEN Unspelled ELSE FirstClaimant(t, id)
                  ELSE e.owner
  <2>3. o = e.owner
    BY <2>1, <2>2
  <2>4. Respelled(t, id) = [e EXCEPT !.owner = o]
    BY DEF Respelled
  <2> HIDE DEF o
  <2>5. e = [e EXCEPT !.owner = e.owner]
    BY <2>1 DEF Element
  <2> QED BY <2>1, <2>3, <2>4, <2>5
<1> QED BY <1>2, <1>4 DEF Normalized

(***************************************************************************)
(* What comes of applying a delta.                                          *)
(***************************************************************************)
LEMMA OutcomeFacts ==
  ASSUME NEW d, NEW base, NEW target, NEW portable, NEW patches,
         Encodes(d, base, target, portable, patches),
         NEW h, IsPayload(h), NEW lenient \in BOOLEAN
  PROVE  LET held == Canonical(h)
             out  == Apply(d, h, lenient)
         IN  /\ IsPayload(held) /\ d.portable = portable
             /\ ~IsRefused(out) =>
                  /\ out.value = Applied(d, held) /\ out.units = d.units /\ IsPayload(out.value)
                  /\ \/ held = d.base /\ out.value = d.result
                     \/ held # d.base /\ lenient /\ d.portable
             /\ held = d.base /\ (lenient => d.portable) => ~IsRefused(out)
             /\ lenient /\ d.portable => ~IsRefused(out)
<1> DEFINE held == Canonical(h)
           out == Apply(d, h, lenient)
           v == Applied(d, held)
           b == Canonical(base)
           t == AppliedOrder(b, Canonical(target))
           noop == IF ~d.portable THEN {}
                   ELSE {k \in DOMAIN d.updates :
                           /\ d.updates[k].change = Delete
                           /\ d.updates[k].target \notin Ids(held)}
           replaced == {k \in DOMAIN d.creates : d.creates[k].id \in Ids(held)}
           upserted == Range(Upserts(d, held))
<1>1. IsPayload(held)
  BY CanonicalPayload
<1>2. Says(d, b, t, portable, patches)
  BY EncodedFacts
<1>3. held = d.base => v = d.result
  BY Exact
<1>4. out = IF lenient /\ ~d.portable THEN Refused("strict delta")
            ELSE IF held # d.base /\ ~lenient THEN Refused("base digest")
            ELSE IF held = d.base /\ v # d.result THEN Refused("result digest")
            ELSE [value |-> v, matched |-> held = d.base, noopDeletes |-> noop,
                  upserted |-> upserted, replacedCreates |-> replaced, units |-> d.units]
  BY DEF Apply
<1> HIDE DEF held, out, v, noop, replaced, upserted, b, t
<1>5. \A why : IsRefused(Refused(why))
  BY DEF IsRefused, Refused
<1>6. d.portable = portable /\ portable \in BOOLEAN /\ d.base = b
  BY <1>2 DEF Says
<1> DEFINE r == [value |-> v, matched |-> held = d.base, noopDeletes |-> noop,
                 upserted |-> upserted, replacedCreates |-> replaced, units |-> d.units]
<1>7. ~IsRefused(r) /\ r.value = v /\ r.units = d.units
  BY DEF IsRefused
<1> HIDE DEF r
<1>8. out = IF lenient /\ ~d.portable THEN Refused("strict delta")
            ELSE IF held # d.base /\ ~lenient THEN Refused("base digest")
            ELSE r
  BY <1>3, <1>4 DEF r
<1>9. ~IsRefused(out) => out = r /\ ~(lenient /\ ~d.portable) /\ ~(held # d.base /\ ~lenient)
  BY <1>5, <1>8
<1>10. ~(lenient /\ ~d.portable) /\ ~(held # d.base /\ ~lenient) => out = r
  BY <1>8
<1>11. ~IsRefused(out) => Readable(d, held)
  BY <1>1, <1>6, <1>9 DEF Readable
<1>12. ~IsRefused(out) => IsPayload(v)
  BY <1>2, <1>11, AppliedFacts DEF v
<1> QED BY <1>1, <1>3, <1>6, <1>7, <1>9, <1>10, <1>12 DEF held, out, v

\* The elements that a strict delta gives its units are the target's roots.
LEMMA UnitsFacts ==
  ASSUME NEW d, NEW base, NEW target, NEW portable, NEW patches,
         Encodes(d, base, target, portable, patches), ~d.portable
  PROVE  {d.result[u.at].id : u \in d.units} = Range(Roots(d.result))
<1> DEFINE b == Canonical(base)
           c == Canonical(target)
           t == AppliedOrder(b, c)
           R == Range(Roots(target))
<1>1. /\ IsPayload(b) /\ IsPayload(c) /\ IsPayload(t) /\ Says(d, b, t, portable, patches)
      /\ d.units = IF portable THEN {} ELSE UnitRoots(target, t)
  BY EncodedFacts
<1>2. IsPayload(target) /\ AreRecords(target)
  BY PayloadElements DEF Encodes
<1>3. State(c) = State(target)
  BY <1>2, CanonicalFacts
<1> HIDE DEF b, c
<1>4. State(t) = State(c) /\ AreRecords(t)
  BY <1>1, AppliedOrderFacts, PayloadElements
<1> HIDE DEF t
<1>5. d.result = t /\ d.units = UnitRoots(target, t)
  BY <1>1 DEF Says
<1>6. R = RootIds(State(t)) /\ Range(Roots(t)) = RootIds(State(t)) /\ RootIds(State(t)) \subseteq Ids(t)
  BY <1>2, <1>3, <1>4, RootsFacts
<1>7. \A id \in R : t[At(t, id)].id = id
  BY <1>4, <1>6, RecordsArranged DEF Arranged
<1>8. UnitRoots(target, t) = {[at |-> At(t, id), path |-> id] : id \in R}
  BY DEF UnitRoots
<1> HIDE DEF R
<1>9. {t[u.at].id : u \in UnitRoots(target, t)} = R
  <2>1. ASSUME NEW u \in UnitRoots(target, t)
        PROVE  t[u.at].id \in R
    <3>1. PICK id \in R : u = [at |-> At(t, id), path |-> id]
      BY <1>8, <2>1
    <3>2. u.at = At(t, id)
      BY <3>1
    <3> QED BY <1>7, <3>2
  <2>2. ASSUME NEW id \in R
        PROVE  \E u \in UnitRoots(target, t) : id = t[u.at].id
    <3> DEFINE u == [at |-> At(t, id), path |-> id]
    <3>1. u \in UnitRoots(target, t)
      BY <1>8
    <3>2. u.at = At(t, id)
      OBVIOUS
    <3> HIDE DEF u
    <3>3. id = t[u.at].id
      BY <1>7, <3>2
    <3> QED BY <3>1, <3>3
  <2> QED BY <2>1, <2>2
<1> QED BY <1>5, <1>6, <1>9

(***************************************************************************)
(* A spelling, and what a payload says in it.                               *)
(***************************************************************************)
SpelledIn(sp, s) == IF sp = "store" THEN GraphNormalize(s) ELSE s
MeaningIn(sp, s) == IF sp = "store" THEN Normalized(s) ELSE State(s)

\* A spelled payload is a payload with the same elements that says its meaning.
LEMMA SpelledFacts ==
  ASSUME NEW sp, NEW s, IsPayload(s)
  PROVE  /\ IsPayload(SpelledIn(sp, s)) /\ State(SpelledIn(sp, s)) = MeaningIn(sp, s)
         /\ Ids(SpelledIn(sp, s)) = Ids(s) /\ DOMAIN MeaningIn(sp, s) = Ids(s)
<1>1. CASE sp = "store"
  BY <1>1, NormalizedFacts DEF SpelledIn, MeaningIn, Normalized
<1>2. CASE sp # "store"
  BY <1>2 DEF SpelledIn, MeaningIn, State
<1> QED BY <1>1, <1>2

\* What says the same as a spelled payload means the same.
LEMMA MeaningAgain ==
  ASSUME NEW sp, NEW s, IsPayload(s), NEW t, IsPayload(t), State(t) = MeaningIn(sp, s)
  PROVE  MeaningIn(sp, t) = MeaningIn(sp, s)
<1>1. CASE sp = "store"
  <2>1. State(t) = Normalized(s)
    BY <1>1 DEF MeaningIn
  <2>2. Normalized(t) = Normalized(s)
    BY <2>1, NormalizedAgain
  <2> QED BY <1>1, <2>2 DEF MeaningIn
<1>2. CASE sp # "store"
  BY <1>2 DEF MeaningIn
<1> QED BY <1>1, <1>2

\* In the store's spelling the meaning decides the payload.
LEMMA SpelledByMeaning ==
  ASSUME NEW s, NEW t, Normalized(s) = Normalized(t)
  PROVE  GraphNormalize(s) = GraphNormalize(t)
<1>1. Ids(s) = DOMAIN Normalized(s) /\ Ids(t) = DOMAIN Normalized(t)
  BY DEF Normalized
<1>2. Ids(s) = Ids(t)
  BY <1>1
<1> QED BY <1>2 DEF GraphNormalize

\* What a payload means keeps what its elements own and their bodies.
LEMMA MeaningContents ==
  ASSUME NEW sp, NEW s, IsPayload(s), NEW id \in Ids(s)
  PROVE  /\ MeaningIn(sp, s)[id].owned = Named(s, id).owned
         /\ MeaningIn(sp, s)[id].body = Named(s, id).body
<1>1. CASE sp = "store"
  <2>1. MeaningIn(sp, s)[id] = Respelled(s, id)
    BY <1>1 DEF MeaningIn, Normalized
  <2> QED BY <2>1, RespelledFacts
<1>2. CASE sp # "store"
  BY <1>2 DEF MeaningIn, State
<1> QED BY <1>1, <1>2

(***************************************************************************)
(* The invariant: everybody has payloads, and what is on its way was        *)
(* encoded between two of them.                                             *)
(***************************************************************************)
SentFrom(sp, m, from, to, portable, patches) ==
  /\ IsPayload(from) /\ IsPayload(to)
  /\ Encodes(m.delta, SpelledIn(sp, from), SpelledIn(sp, to), portable, patches)
  /\ m.from = MeaningIn(sp, from) /\ m.to = MeaningIn(sp, to)

Sent(sp, m) == \E from, to, portable, patches : SentFrom(sp, m, from, to, portable, patches)

ExchangeInv ==
  /\ spelling \in {"own", "store"}
  /\ IsPayload(mine) /\ IsPayload(known) /\ IsPayload(head)
  /\ \A m \in net : Sent(spelling, m)

\* What comes of a delivery.
LEMMA DeliveryFacts ==
  ASSUME NEW sp, NEW m, NEW from, NEW to, NEW portable, NEW patches,
         SentFrom(sp, m, from, to, portable, patches),
         NEW h, IsPayload(h), NEW lenient \in BOOLEAN
  PROVE  LET held == Canonical(SpelledIn(sp, h))
             out  == Apply(m.delta, SpelledIn(sp, h), lenient)
         IN  /\ IsPayload(held) /\ Ids(held) = Ids(h) /\ State(held) = MeaningIn(sp, h)
             /\ m.delta.portable = portable
             /\ ~IsRefused(out) =>
                  /\ out.value = Applied(m.delta, held) /\ out.units = m.delta.units
                  /\ IsPayload(out.value)
                  /\ \/ held = m.delta.base /\ out.value = m.delta.result
                     \/ held # m.delta.base /\ lenient /\ m.delta.portable
             /\ held = m.delta.base /\ (lenient => m.delta.portable) => ~IsRefused(out)
             /\ lenient /\ m.delta.portable => ~IsRefused(out)
<1> DEFINE d == m.delta
           base == SpelledIn(sp, from)
           target == SpelledIn(sp, to)
           s == SpelledIn(sp, h)
           held == Canonical(s)
           out == Apply(d, s, lenient)
<1>1. Encodes(d, base, target, portable, patches)
  BY DEF SentFrom
<1>2. IsPayload(s) /\ State(s) = MeaningIn(sp, h) /\ Ids(s) = Ids(h)
  BY SpelledFacts
<1> HIDE DEF d, base, target, s
<1>3. AreRecords(s)
  BY <1>2, PayloadElements
<1>4. Ids(held) = Ids(s) /\ State(held) = State(s)
  BY <1>3, CanonicalFacts
<1>5. /\ IsPayload(held) /\ d.portable = portable
      /\ ~IsRefused(out) =>
           /\ out.value = Applied(d, held) /\ out.units = d.units /\ IsPayload(out.value)
           /\ \/ held = d.base /\ out.value = d.result
              \/ held # d.base /\ lenient /\ d.portable
      /\ held = d.base /\ (lenient => d.portable) => ~IsRefused(out)
      /\ lenient /\ d.portable => ~IsRefused(out)
  BY <1>1, <1>2, OutcomeFacts
<1> QED BY <1>2, <1>4, <1>5 DEF d, s

\* The invariant holds at first.
LEMMA ExchangeInit == Init => ExchangeInv
BY DocumentsAssumption DEF Init, ExchangeInv

\* Every step keeps the invariant.
LEMMA ExchangeStep == ExchangeInv /\ [Next]_vars => ExchangeInv'
<1> SUFFICES ASSUME ExchangeInv, [Next]_vars
             PROVE  ExchangeInv'
  OBVIOUS
<1> USE DEF ExchangeInv
<1>1. CASE Edit
  BY <1>1, DocumentsAssumption DEF Edit
<1>2. CASE OtherWrite
  BY <1>2, DocumentsAssumption DEF OtherWrite
<1>3. CASE Fetch
  BY <1>3 DEF Fetch
<1>4. ASSUME NEW portable \in BOOLEAN, NEW patches \in BOOLEAN, Push(portable, patches)
      PROVE  ExchangeInv'
  <2> DEFINE m == [delta |-> DeltaEncode(Spelled(known), Spelled(mine), portable, patches),
                   from |-> Meaning(known), to |-> Meaning(mine)]
  <2>1. UNCHANGED <<spelling, mine, known, head>> /\ net' = net \cup {m}
    BY <1>4 DEF Push
  <2>2. /\ m.delta = DeltaEncode(Spelled(known), Spelled(mine), portable, patches)
        /\ m.from = Meaning(known) /\ m.to = Meaning(mine)
    OBVIOUS
  <2> HIDE DEF m
  <2>3. /\ Spelled(known) = SpelledIn(spelling, known) /\ Spelled(mine) = SpelledIn(spelling, mine)
        /\ Meaning(known) = MeaningIn(spelling, known) /\ Meaning(mine) = MeaningIn(spelling, mine)
    BY DEF Spelled, SpelledIn, Meaning, MeaningIn
  <2>4. IsPayload(SpelledIn(spelling, known)) /\ IsPayload(SpelledIn(spelling, mine))
    BY SpelledFacts
  <2>5. Encodes(m.delta, SpelledIn(spelling, known), SpelledIn(spelling, mine), portable, patches)
    BY <2>2, <2>3, <2>4 DEF Encodes
  <2>6. SentFrom(spelling, m, known, mine, portable, patches)
    BY <2>2, <2>3, <2>5 DEF SentFrom
  <2>7. Sent(spelling, m)
    BY <2>6 DEF Sent
  <2> QED BY <2>1, <2>7
<1>5. ASSUME NEW m \in net, NEW lenient \in BOOLEAN, Deliver(m, lenient)
      PROVE  ExchangeInv'
  <2>1. PICK from, to, portable, patches : SentFrom(spelling, m, from, to, portable, patches)
    BY DEF Sent
  <2>2. /\ ~IsRefused(Apply(m.delta, SpelledIn(spelling, head), lenient))
        /\ head' = Apply(m.delta, SpelledIn(spelling, head), lenient).value
        /\ UNCHANGED <<spelling, mine, known, net>>
    BY <1>5 DEF Deliver, Spelled, SpelledIn
  <2>3. IsPayload(Apply(m.delta, SpelledIn(spelling, head), lenient).value)
    BY <2>1, <2>2, DeliveryFacts
  <2>4. IsPayload(head')
    BY <2>2, <2>3
  <2> QED BY <2>2, <2>4
<1>6. CASE UNCHANGED vars
  BY <1>6 DEF vars
<1> QED BY <1>1, <1>2, <1>3, <1>4, <1>5, <1>6 DEF Next

\* The session and the receiver always have payloads, and every delta on its
\* way was encoded between two payloads that the session had.
THEOREM Exchanging == Spec => []ExchangeInv
BY ExchangeInit, ExchangeStep, PTL DEF Spec

\* A delta encoded against exactly the payload that is held is never refused.
THEOREM Accepted == Spec => []PushAccepted
<1>1. ExchangeInv => PushAccepted
  <2> SUFFICES ASSUME ExchangeInv, NEW m \in net,
                      \/ Digest(Spelled(head)) = m.delta.base
                      \/ spelling = "store" /\ Meaning(head) = m.from
               PROVE  ~IsRefused(Apply(m.delta, Spelled(head), FALSE))
    BY DEF PushAccepted
  <2> USE DEF ExchangeInv
  <2>1. PICK from, to, portable, patches : SentFrom(spelling, m, from, to, portable, patches)
    BY DEF Sent
  <2>2. Spelled(head) = SpelledIn(spelling, head) /\ Meaning(head) = MeaningIn(spelling, head)
    BY DEF Spelled, SpelledIn, Meaning, MeaningIn
  <2>3. Canonical(Spelled(head)) = m.delta.base
    <3>1. CASE Digest(Spelled(head)) = m.delta.base
      BY <3>1 DEF Digest
    <3>2. CASE spelling = "store" /\ Meaning(head) = m.from
      <4>1. Normalized(head) = Normalized(from)
        BY <2>1, <2>2, <3>2 DEF SentFrom, MeaningIn
      <4>2. SpelledIn(spelling, head) = SpelledIn(spelling, from)
        BY <3>2, <4>1, SpelledByMeaning DEF SpelledIn
      <4>3. Encodes(m.delta, SpelledIn(spelling, from), SpelledIn(spelling, to), portable, patches)
        BY <2>1 DEF SentFrom
      <4>4. m.delta.base = Canonical(SpelledIn(spelling, from))
        BY <4>3 DEF Encodes, DeltaEncode
      <4> QED BY <2>2, <4>2, <4>4
    <3> QED BY <3>1, <3>2
  <2>4. ASSUME NEW lenient \in BOOLEAN, ~lenient
        PROVE  ~IsRefused(Apply(m.delta, SpelledIn(spelling, head), lenient))
    BY <2>1, <2>2, <2>3, <2>4, DeliveryFacts
  <2>5. ~IsRefused(Apply(m.delta, SpelledIn(spelling, head), FALSE))
    BY <2>4, Zenon
  <2> QED BY <2>2, <2>5
<1> QED BY <1>1, Exchanging, PTL

\* The unit entries that a strict application reports give exactly the roots of
\* the payload it leaves.
THEOREM UnitsGiven == Spec => []UnitsFollow
<1>1. ExchangeInv => UnitsFollow
  <2> SUFFICES ASSUME ExchangeInv, NEW m \in net, ~m.delta.portable,
                      ~IsRefused(Apply(m.delta, Spelled(head), FALSE))
               PROVE  LET outcome == Apply(m.delta, Spelled(head), FALSE)
                      IN  {outcome.value[u.at].id : u \in outcome.units} = Range(Roots(outcome.value))
    BY DEF UnitsFollow
  <2> USE DEF ExchangeInv
  <2>1. PICK from, to, portable, patches : SentFrom(spelling, m, from, to, portable, patches)
    BY DEF Sent
  <2>2. Spelled(head) = SpelledIn(spelling, head)
    BY DEF Spelled, SpelledIn
  <2> DEFINE Reports(outcome) ==
               outcome.value = m.delta.result /\ outcome.units = m.delta.units
  <2>3. ASSUME NEW lenient \in BOOLEAN, ~lenient,
               ~IsRefused(Apply(m.delta, SpelledIn(spelling, head), lenient))
        PROVE  Reports(Apply(m.delta, SpelledIn(spelling, head), lenient))
    BY <2>1, <2>3, DeliveryFacts
  <2> HIDE DEF Reports
  <2>4. Reports(Apply(m.delta, SpelledIn(spelling, head), FALSE))
    BY <2>2, <2>3, Zenon
  <2> DEFINE outcome == Apply(m.delta, Spelled(head), FALSE)
  <2>5. outcome.value = m.delta.result /\ outcome.units = m.delta.units
    BY <2>2, <2>4 DEF Reports
  <2>6. Encodes(m.delta, SpelledIn(spelling, from), SpelledIn(spelling, to), portable, patches)
    BY <2>1 DEF SentFrom
  <2>7. {m.delta.result[u.at].id : u \in m.delta.units} = Range(Roots(m.delta.result))
    BY <2>6, UnitsFacts
  <2> HIDE DEF outcome
  <2>8. {outcome.value[u.at].id : u \in outcome.units} = Range(Roots(outcome.value))
    BY <2>5, <2>7
  <2> QED BY <2>8 DEF outcome
<1> QED BY <1>1, Exchanging, PTL

\* Applying a portable delta a second time.
LEMMA TwiceFacts ==
  ASSUME NEW sp, NEW m, NEW from, NEW to, NEW portable, NEW patches,
         SentFrom(sp, m, from, to, portable, patches), m.delta.portable,
         NEW h, IsPayload(h), NEW lenient \in BOOLEAN, lenient
  PROVE  LET once  == Apply(m.delta, SpelledIn(sp, h), lenient)
             twice == Apply(m.delta, once.value, lenient)
         IN  IsPayload(once.value) /\ ~IsRefused(twice) /\ State(twice.value) = State(once.value)
<1> DEFINE d == m.delta
           held == Canonical(SpelledIn(sp, h))
           once == Apply(d, SpelledIn(sp, h), lenient)
           v == once.value
           twice == Apply(d, v, lenient)
           base == SpelledIn(sp, from)
           target == SpelledIn(sp, to)
           b == Canonical(base)
           t == AppliedOrder(b, Canonical(target))
<1>1. IsPayload(held) /\ v = Applied(d, held) /\ IsPayload(v)
  BY DeliveryFacts
<1>2. Encodes(d, base, target, portable, patches)
  BY DEF SentFrom
<1> HIDE DEF d, held, once, base, target
<1>3. Says(d, b, t, portable, patches)
  BY <1>2, EncodedFacts
<1>4. d.portable
  BY DEF d
<1> HIDE DEF v, b, t
<1>5. ~IsRefused(twice) /\ twice.value = Applied(d, Canonical(v))
  BY <1>1, <1>2, <1>4, OutcomeFacts
<1>6. State(Applied(d, Canonical(v))) = State(v)
  BY <1>1, <1>3, <1>4, Replayed
<1> HIDE DEF twice
<1>7. IsPayload(v) /\ ~IsRefused(twice) /\ State(twice.value) = State(v)
  BY <1>1, <1>5, <1>6
<1> QED BY <1>7 DEF v, twice, once, d

\* A portable delta leaves a payload whatever it meets, and arriving a second
\* time it changes nothing.
THEOREM Replayable == Spec => []ReplayHarmless
<1>1. ExchangeInv => ReplayHarmless
  <2> DEFINE Harmless(m, lenient) ==
               LET once  == Apply(m.delta, Spelled(head), lenient)
                   twice == Apply(m.delta, once.value, lenient)
               IN  /\ IsPayload(once.value) /\ ~IsRefused(twice)
                   /\ State(twice.value) = State(once.value)
  <2> SUFFICES ASSUME ExchangeInv, NEW m \in net, m.delta.portable
               PROVE  Harmless(m, TRUE)
    BY DEF ReplayHarmless
  <2> USE DEF ExchangeInv
  <2>1. PICK from, to, portable, patches : SentFrom(spelling, m, from, to, portable, patches)
    BY DEF Sent
  <2>2. Spelled(head) = SpelledIn(spelling, head)
    BY DEF Spelled, SpelledIn
  <2>3. ASSUME NEW lenient \in BOOLEAN, lenient
        PROVE  Harmless(m, lenient)
    BY <2>1, <2>2, <2>3, TwiceFacts, ZenonT(30)
  <2> HIDE DEF Harmless
  <2> QED BY <2>3, Zenon
<1> QED BY <1>1, Exchanging, PTL

(***************************************************************************)
(* The exchange of deltas implements the exchange of states.                *)
(***************************************************************************)
\* What a delta's base and result say is what it was sent with.
LEMMA EndsFacts ==
  ASSUME NEW sp, NEW m, NEW from, NEW to, NEW portable, NEW patches,
         SentFrom(sp, m, from, to, portable, patches)
  PROVE  /\ Says(m.delta, m.delta.base, m.delta.result, portable, patches)
         /\ State(m.delta.base) = m.from /\ State(m.delta.result) = m.to
<1> DEFINE d == m.delta
           base == SpelledIn(sp, from)
           target == SpelledIn(sp, to)
           b == Canonical(base)
           c == Canonical(target)
           t == AppliedOrder(b, c)
<1>1. /\ IsPayload(base) /\ State(base) = MeaningIn(sp, from)
      /\ IsPayload(target) /\ State(target) = MeaningIn(sp, to)
  BY SpelledFacts DEF SentFrom
<1>2. Encodes(d, base, target, portable, patches)
  BY DEF SentFrom
<1> HIDE DEF d, base, target
<1>3. IsPayload(b) /\ IsPayload(c) /\ Says(d, b, t, portable, patches)
  BY <1>2, EncodedFacts
<1>4. AreRecords(base) /\ AreRecords(target)
  BY <1>1, PayloadElements
<1>5. State(b) = State(base) /\ State(c) = State(target)
  BY <1>4, CanonicalFacts
<1> HIDE DEF b, c
<1>6. State(t) = State(c)
  BY <1>3, AppliedOrderFacts
<1> HIDE DEF t
<1>7. d.base = b /\ d.result = t
  BY <1>3 DEF Says
<1>8. State(d.base) = MeaningIn(sp, from) /\ State(d.result) = MeaningIn(sp, to)
  BY <1>1, <1>5, <1>6, <1>7
<1>9. Says(d, d.base, d.result, portable, patches)
  BY <1>3, <1>7
<1> QED BY <1>8, <1>9 DEF SentFrom, d

\* A delta that meets its base takes the state it was encoded against to the
\* state it was encoded from.
LEMMA TakesFacts ==
  ASSUME NEW sp, NEW m, NEW from, NEW to, NEW portable, NEW patches,
         SentFrom(sp, m, from, to, portable, patches),
         NEW h, IsPayload(h), Canonical(SpelledIn(sp, h)) = m.delta.base,
         NEW v, IsPayload(v), v = m.delta.result
  PROVE  MeaningIn(sp, h) = m.from /\ MeaningIn(sp, v) = m.to
<1>1. State(m.delta.base) = m.from /\ State(m.delta.result) = m.to
  BY EndsFacts
<1>2. MeaningIn(sp, h) = m.from
  <2> DEFINE s == SpelledIn(sp, h)
  <2>1. IsPayload(s) /\ State(s) = MeaningIn(sp, h)
    BY SpelledFacts
  <2> HIDE DEF s
  <2>2. State(Canonical(s)) = State(s)
    BY <2>1, PayloadElements, CanonicalFacts
  <2>3. Canonical(s) = m.delta.base
    BY DEF s
  <2> QED BY <1>1, <2>1, <2>2, <2>3
<1>3. MeaningIn(sp, v) = m.to
  <2>1. IsPayload(to) /\ m.to = MeaningIn(sp, to)
    BY DEF SentFrom
  <2>2. State(v) = MeaningIn(sp, to)
    BY <1>1, <2>1
  <2>3. MeaningIn(sp, v) = MeaningIn(sp, to)
    BY <2>1, <2>2, MeaningAgain
  <2> QED BY <2>1, <2>3
<1> QED BY <1>2, <1>3

\* What a delta changes is where its base and its result differ.
LEMMA TouchedFacts ==
  ASSUME NEW b, NEW t, NEW o, o.from = State(b), o.to = State(t)
  PROVE  Exchange!Touched(o) = Said(b, t) \cup (Ids(b) \ Ids(t))
<1>1. /\ DOMAIN o.from = Ids(b) /\ DOMAIN o.to = Ids(t)
      /\ \A id \in Ids(b) : o.from[id] = Named(b, id)
      /\ \A id \in Ids(t) : o.to[id] = Named(t, id)
  BY DEF State
<1>2. Exchange!Touched(o)
        = {id \in Ids(b) \cup Ids(t) : ~(id \in Ids(b) /\ id \in Ids(t) /\ o.from[id] = o.to[id])}
  BY <1>1 DEF Exchange!Touched
<1>3. Exchange!Touched(o)
        = {id \in Ids(b) \cup Ids(t) : ~(id \in Ids(b) /\ id \in Ids(t) /\ Named(b, id) = Named(t, id))}
  BY <1>1, <1>2
<1> QED BY <1>3 DEF Said, ChangedIds

\* A portable delta changes, in whatever state it meets, what it is about.
LEMMA MergesFacts ==
  ASSUME NEW sp, NEW d, NEW b, NEW t, NEW portable, NEW patches,
         Says(d, b, t, portable, patches), d.portable,
         NEW o, o.from = State(b), o.to = State(t),
         NEW held, IsPayload(held), NEW M, DOMAIN M = Ids(held),
         \A id \in Ids(held) : M[id] = Named(held, id)
  PROVE  Exchange!Contents(MeaningIn(sp, Applied(d, held))) = Exchange!Merged(M, o)
<1> DEFINE v == Applied(d, held)
           L == Left(b, t, held)
           N == MeaningIn(sp, v)
           touched == Exchange!Touched(o)
<1>1. Readable(d, held)
  BY DEF Readable
<1>2. /\ IsPayload(v) /\ Ids(v) = L
      /\ \A id \in L : /\ Named(v, id).owned = Changed(d, held, id).owned
                       /\ Named(v, id).body = Changed(d, held, id).body
  BY <1>1, AppliedFacts
<1> HIDE DEF v
<1>3. DOMAIN N = L
  BY <1>2, SpelledFacts
<1>4. \A id \in L : N[id].owned = Named(v, id).owned /\ N[id].body = Named(v, id).body
  BY <1>2, MeaningContents
<1>5. touched = Said(b, t) \cup (Ids(b) \ Ids(t))
  BY TouchedFacts
<1>6. DOMAIN o.to = Ids(t) /\ \A id \in Ids(t) : o.to[id] = Named(t, id)
  BY DEF State
<1> HIDE DEF N, touched
<1>7. (DOMAIN M \ touched) \cup (DOMAIN o.to \cap touched) = L
  BY <1>5, <1>6 DEF Left, Said
<1>8. ASSUME NEW id \in L
      PROVE  LET e == IF id \in touched THEN o.to[id] ELSE M[id]
             IN  N[id].owned = e.owned /\ N[id].body = e.body
  <2>1. CASE id \in Said(b, t)
    <3>1. id \in touched /\ id \in Ids(t)
      BY <1>5, <2>1 DEF Said
    <3>2. /\ Changed(d, held, id).owned = Named(t, id).owned
          /\ Changed(d, held, id).body = Named(t, id).body
      BY <1>1, <2>1, ChangedIsRecord
    <3> QED BY <1>2, <1>4, <1>6, <1>8, <3>1, <3>2
  <2>2. CASE id \notin Said(b, t)
    <3>1. id \in Ids(held) /\ id \notin Ids(b) \ Ids(t) /\ id \notin touched
      BY <1>5, <1>8, <2>2 DEF Left
    <3>2. Changed(d, held, id) = Named(held, id)
      BY <1>1, <2>2, <3>1, ChangedIsRecord
    <3> QED BY <1>2, <1>4, <1>8, <3>1, <3>2
  <2> QED BY <2>1, <2>2
<1> DEFINE C == [id \in L |-> Exchange!Content(N[id])]
<1>9. Exchange!Contents(N) = C
  BY <1>3 DEF Exchange!Contents
<1>10. Exchange!Merged(M, o)
         = [id \in L |-> Exchange!Content(IF id \in touched THEN o.to[id] ELSE M[id])]
  BY <1>7 DEF Exchange!Merged, touched
<1>11. \A id \in L : Exchange!Content(N[id])
                       = Exchange!Content(IF id \in touched THEN o.to[id] ELSE M[id])
  BY <1>8 DEF Exchange!Content
<1> QED BY <1>9, <1>10, <1>11 DEF N, v

OfferOf(m) == [from |-> m.from, to |-> m.to, mergeable |-> m.delta.portable]
Offers(n) == {OfferOf(m) : m \in n}

\* The step of the exchange of states that a delivery is.
LEMMA DeliverStep ==
  ASSUME NEW sp, NEW m, Sent(sp, m), NEW h, IsPayload(h), NEW lenient \in BOOLEAN,
         NEW k, k = Apply(m.delta, SpelledIn(sp, h), lenient).value,
         ~IsRefused(Apply(m.delta, SpelledIn(sp, h), lenient))
  PROVE  \/ MeaningIn(sp, h) = OfferOf(m).from /\ MeaningIn(sp, k) = OfferOf(m).to
         \/ /\ OfferOf(m).mergeable
            /\ Exchange!Contents(MeaningIn(sp, k))
                 = Exchange!Merged(MeaningIn(sp, h), OfferOf(m))
<1> DEFINE o == OfferOf(m)
           held == Canonical(SpelledIn(sp, h))
           M == MeaningIn(sp, h)
<1>1. PICK from, to, portable, patches : SentFrom(sp, m, from, to, portable, patches)
  BY DEF Sent
<1>2. o.from = m.from /\ o.to = m.to /\ o.mergeable = m.delta.portable
  BY DEF OfferOf
<1>3. /\ IsPayload(held) /\ Ids(held) = Ids(h) /\ State(held) = M
      /\ k = Applied(m.delta, held) /\ IsPayload(k)
      /\ \/ held = m.delta.base /\ k = m.delta.result
         \/ held # m.delta.base /\ lenient /\ m.delta.portable
  BY <1>1, DeliveryFacts
<1>4. CASE held = m.delta.base /\ k = m.delta.result
  <2>1. M = m.from /\ MeaningIn(sp, k) = m.to
    BY <1>1, <1>3, <1>4, TakesFacts
  <2> QED BY <1>2, <2>1
<1>5. CASE m.delta.portable
  <2> DEFINE b == m.delta.base
             t == m.delta.result
  <2>1. Says(m.delta, b, t, portable, patches) /\ State(b) = m.from /\ State(t) = m.to
    BY <1>1, EndsFacts
  <2>2. DOMAIN M = Ids(held) /\ \A id \in Ids(held) : M[id] = Named(held, id)
    BY <1>3 DEF State
  <2> HIDE DEF b, t, o, M, held
  <2>3. o.from = State(b) /\ o.to = State(t)
    BY <1>2, <2>1
  <2>4. Exchange!Contents(MeaningIn(sp, Applied(m.delta, held))) = Exchange!Merged(M, o)
    BY <1>3, <1>5, <2>1, <2>2, <2>3, MergesFacts
  <2>5. Exchange!Contents(MeaningIn(sp, k)) = Exchange!Merged(M, o)
    BY <1>3, <2>4
  <2> QED BY <1>2, <1>5, <2>5 DEF o, M
<1> QED BY <1>3, <1>4, <1>5

\* Exchanging deltas implements exchanging states.
THEOREM Implements == Spec => ImplementsExchange
<1>1. Init => Exchange!Init
  BY DEF Init, Exchange!Init
<1>2. ExchangeInv /\ [Next]_vars => [Exchange!Next]_(Exchange!vars)
  <2> SUFFICES ASSUME ExchangeInv, [Next]_vars
               PROVE  Exchange!Next \/ UNCHANGED Exchange!vars
    OBVIOUS
  <2> DEFINE offers == {[from |-> m.from, to |-> m.to, mergeable |-> m.delta.portable] : m \in net}
  <2>1. offers = Offers(net) /\ offers' = Offers(net')
    BY DEF Offers, OfferOf
  <2>2. /\ spelling' = spelling
        /\ Meaning(head) = MeaningIn(spelling, head)
        /\ Meaning(head)' = MeaningIn(spelling, head')
    <3>1. spelling' = spelling
      BY DEF Next, Edit, OtherWrite, Fetch, Push, Deliver, vars
    <3> QED BY <3>1 DEF Meaning, MeaningIn
  <2>3. ASSUME head' = head, net' = net, writes' = writes
        PROVE  UNCHANGED Exchange!vars
    <3>1. Meaning(head)' = Meaning(head) /\ offers' = offers
      BY <2>1, <2>2, <2>3
    <3> QED BY <2>3, <3>1 DEF Exchange!vars
  <2>4. CASE Edit
    BY <2>3, <2>4 DEF Edit
  <2>5. CASE OtherWrite
    <3>1. offers' = offers /\ writes' = writes + 1
      BY <2>1, <2>5 DEF OtherWrite
    <3>2. Exchange!Write
      BY <3>1 DEF Exchange!Write
    <3> QED BY <3>2 DEF Exchange!Next
  <2>6. CASE Fetch
    BY <2>3, <2>6 DEF Fetch
  <2>7. ASSUME NEW portable \in BOOLEAN, NEW patches \in BOOLEAN, Push(portable, patches)
        PROVE  Exchange!Next \/ UNCHANGED Exchange!vars
    <3> DEFINE m == [delta |-> DeltaEncode(Spelled(known), Spelled(mine), portable, patches),
                     from |-> Meaning(known), to |-> Meaning(mine)]
    <3>1. head' = head /\ writes' = writes /\ net' = net \cup {m}
      BY <2>7 DEF Push
    <3> HIDE DEF m
    <3>2. \/ Offers(net') = Offers(net)
          \/ \E o \in Offers(net') \ Offers(net) : Offers(net') = Offers(net) \cup {o}
      <4>1. Offers(net') = Offers(net) \cup {OfferOf(m)}
        BY <3>1 DEF Offers
      <4> QED BY <4>1
    <3>3. Meaning(head)' = Meaning(head)
      BY <2>2, <3>1
    <3>4. CASE Offers(net') = Offers(net)
      <4>1. offers' = offers
        BY <2>1, <3>4
      <4> QED BY <3>1, <3>3, <4>1 DEF Exchange!vars
    <3>5. CASE \E o \in Offers(net') \ Offers(net) : Offers(net') = Offers(net) \cup {o}
      <4>1. \E o \in offers' \ offers : offers' = offers \cup {o}
        BY <2>1, <3>5
      <4>2. Exchange!Offer
        BY <3>1, <3>3, <4>1 DEF Exchange!Offer
      <4> QED BY <4>2 DEF Exchange!Next
    <3> QED BY <3>2, <3>4, <3>5
  <2>8. ASSUME NEW m \in net, NEW lenient \in BOOLEAN, Deliver(m, lenient)
        PROVE  Exchange!Next \/ UNCHANGED Exchange!vars
    <3> DEFINE o == OfferOf(m)
    <3>1. /\ ~IsRefused(Apply(m.delta, SpelledIn(spelling, head), lenient))
          /\ head' = Apply(m.delta, SpelledIn(spelling, head), lenient).value
          /\ net' = net /\ writes' = writes
      BY <2>8 DEF Deliver, Spelled, SpelledIn
    <3>2. Sent(spelling, m) /\ IsPayload(head)
      BY DEF ExchangeInv
    <3>3. \/ MeaningIn(spelling, head) = o.from /\ MeaningIn(spelling, head') = o.to
          \/ /\ o.mergeable
             /\ Exchange!Contents(MeaningIn(spelling, head'))
                  = Exchange!Merged(MeaningIn(spelling, head), o)
      BY <3>1, <3>2, DeliverStep
    <3>4. o \in offers /\ offers' = offers
      BY <2>1, <3>1 DEF Offers
    <3> HIDE DEF o, offers
    <3>5. CASE MeaningIn(spelling, head) = o.from /\ MeaningIn(spelling, head') = o.to
      <4>1. Exchange!Take(o)
        BY <2>2, <3>1, <3>4, <3>5 DEF Exchange!Take, offers
      <4> QED BY <3>4, <4>1 DEF Exchange!Next, offers
    <3>6. CASE /\ o.mergeable
               /\ Exchange!Contents(MeaningIn(spelling, head'))
                    = Exchange!Merged(MeaningIn(spelling, head), o)
      <4>1. Exchange!Merge(o)
        BY <2>2, <3>1, <3>4, <3>6 DEF Exchange!Merge, offers
      <4> QED BY <3>4, <4>1 DEF Exchange!Next, offers
    <3> QED BY <3>3, <3>5, <3>6
  <2>9. CASE UNCHANGED vars
    BY <2>3, <2>9 DEF vars
  <2> QED BY <2>4, <2>5, <2>6, <2>7, <2>8, <2>9 DEF Next
<1> QED BY <1>1, <1>2, Exchanging, PTL DEF Spec, ImplementsExchange, Exchange!Spec
=============================================================================
