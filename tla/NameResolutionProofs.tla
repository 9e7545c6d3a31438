------------------------- MODULE NameResolutionProofs -------------------------
(****************************************************************************)
(* Proofs about name resolution, for any workspace however its imports lead *)
(* back to themselves: between references the caches hold what the imports  *)
(* denote or nothing (NamesTyped), every reference is answered, with what   *)
(* has the name it ends with (NamesAnswered), and what a scope's imports    *)
(* denote stays until the caches are reset (NamesPermanent).                *)
(*                                                                          *)
(* A call is answered soundly at every level of nesting above its rank: the *)
(* rank counts the scopes whose imports are still open, and under them what *)
(* is left of MaxDepth.                                                     *)
(*                                                                          *)
(* What a lookup answers has the name it was asked for (Fits), also when it *)
(* is read from a mark: no mark is newer than the last query, those of a    *)
(* query that goes on fit its name (Ready), and a query nested in it leaves *)
(* them alone or puts newer ones over them (Leaves).                        *)
(*                                                                          *)
(* The loops of the code are functions on 0 .. n; one lemma says that they  *)
(* exist and one that they keep what a step keeps.                          *)
(****************************************************************************)
EXTENDS NameResolution, SequenceFacts, SequenceTheorems, FiniteSetTheorems, TLAPS

(****************************************************************************)
(* Loops.                                                                   *)
(****************************************************************************)
\* A loop of n turns from a, a turn being what G has for where it is and the
\* number of the turn.
IsLoop(f, a, G, n) == f = [k \in 0 .. n |-> IF k = 0 THEN a ELSE G[<<f[k - 1], k>>]]

\* There is one for as many turns as G has, and it stays in G's domain.
LEMMA LoopExists ==
  ASSUME NEW N \in Nat, NEW S, NEW a \in S, NEW G \in [S \X (1 .. N) -> S]
  PROVE  \E f \in [0 .. N -> S] : IsLoop(f, a, G, N)
<1> DEFINE Done == {k \in Nat : k <= N => \E f \in [0 .. k -> S] : IsLoop(f, a, G, k)}
<1>1. 0 \in Done
  <2>1. [k \in 0 .. 0 |-> a] \in [0 .. 0 -> S]
    OBVIOUS
  <2>2. IsLoop([k \in 0 .. 0 |-> a], a, G, 0)
    BY DEF IsLoop
  <2>3. \E f \in [0 .. 0 -> S] : IsLoop(f, a, G, 0)
    BY <2>1, <2>2
  <2> QED BY <2>3
<1>2. ASSUME NEW k \in Nat, k \in Done PROVE k + 1 \in Done
  <2> SUFFICES ASSUME k + 1 <= N
               PROVE  \E f \in [0 .. (k + 1) -> S] : IsLoop(f, a, G, k + 1)
    OBVIOUS
  <2>1. PICK f \in [0 .. k -> S] : IsLoop(f, a, G, k)
    BY <1>2
  <2> DEFINE next == G[<<f[k], k + 1>>]
             g == [i \in 0 .. (k + 1) |-> IF i = k + 1 THEN next ELSE f[i]]
  <2>2. next \in S
    <3>1. f[k] \in S /\ k + 1 \in 1 .. N
      BY <2>1
    <3> QED BY <3>1
  <2>3. g \in [0 .. (k + 1) -> S]
    BY <2>1, <2>2
  <2>4. \A i \in 0 .. k : g[i] = f[i]
    OBVIOUS
  <2>5. g[k + 1] = G[<<g[k], k + 1>>]
    <3>1. g[k + 1] = next
      OBVIOUS
    <3>2. g[k] = f[k]
      BY <2>4
    <3> HIDE DEF g
    <3> QED BY <3>1, <3>2
  <2>6. ASSUME NEW i \in 1 .. k PROVE g[i] = G[<<g[i - 1], i>>]
    <3>1. i \in 0 .. k /\ i - 1 \in 0 .. k /\ i # 0
      OBVIOUS
    <3>2. f[i] = G[<<f[i - 1], i>>]
      BY <2>1, <3>1 DEF IsLoop
    <3>3. g[i] = f[i] /\ g[i - 1] = f[i - 1]
      BY <2>4, <3>1
    <3> HIDE DEF g
    <3> QED BY <3>2, <3>3
  <2>7. g[0] = a
    BY <2>1, <2>4 DEF IsLoop
  <2> HIDE DEF next
  <2>8. g = [i \in 0 .. (k + 1) |-> g[i]]
    OBVIOUS
  <2> HIDE DEF g
  <2>9. \A i \in 0 .. (k + 1) : i = 0 \/ i \in 1 .. k \/ i = k + 1
    OBVIOUS
  <2>10. \A i \in 0 .. (k + 1) : g[i] = IF i = 0 THEN a ELSE G[<<g[i - 1], i>>]
    BY <2>5, <2>6, <2>7, <2>9
  <2>11. IsLoop(g, a, G, k + 1)
    BY <2>8, <2>10 DEF IsLoop
  <2> QED BY <2>3, <2>11
<1> HIDE DEF Done
<1>3. N \in Done
  BY <1>1, <1>2, SetInduction
<1> QED BY <1>3 DEF Done

\* What is there at the start and kept by every turn is there at the end.
LEMMA LoopKeeps ==
  ASSUME NEW n \in Nat, NEW S, NEW f, f[0] \in S, \A k \in 1 .. n : f[k - 1] \in S => f[k] \in S
  PROVE  f[n] \in S
<1> DEFINE Done == {k \in Nat : k <= n => f[k] \in S}
<1>1. 0 \in Done
  OBVIOUS
<1>2. ASSUME NEW k \in Nat, k \in Done PROVE k + 1 \in Done
  <2> SUFFICES ASSUME k + 1 <= n PROVE f[k + 1] \in S
    OBVIOUS
  <2>1. k + 1 \in 1 .. n /\ (k + 1) - 1 = k /\ f[k] \in S
    BY <1>2
  <2> QED BY <2>1
<1> HIDE DEF Done
<1>3. n \in Done
  BY <1>1, <1>2, SetInduction
<1> QED BY <1>3 DEF Done

(****************************************************************************)
(* What a workspace has.                                                    *)
(****************************************************************************)
\* Where lookups go: the scopes nested in one, in order.
LEMMA NestedType ==
  ASSUME NEW src, NEW s, NEW access
  PROVE  Nested(src, s, access) \in Seq(Scopes)
<1>1. Upto(LastScope) \in Seq(1 .. LastScope)
  BY ScopesAssumption DEF Upto
<1>2. Nested(src, s, access) \in Seq(1 .. LastScope)
  BY <1>1, OnlyType DEF Nested
<1>3. 1 .. LastScope \subseteq Scopes
  BY ScopesAssumption DEF Scopes
<1> QED BY <1>2, <1>3, SeqMonotonic

\* They are there, unless they are of the user's units and these are not built.
LEMMA NestedBuilt ==
  ASSUME NEW src, NEW s, NEW access
  PROVE  \A k \in DOMAIN Nested(src, s, access) :
           Nested(src, s, access)[k] \in User => src.user
<1> DEFINE T == {c \in 1 .. LastScope : /\ Parent[c] = s
                                        /\ Admits(access, c \notin Private)
                                        /\ c \in User => src.user}
<1>1. Upto(LastScope) \in Seq(1 .. LastScope)
  BY ScopesAssumption DEF Upto
<1>2. Nested(src, s, access) \in Seq(T)
  <2>1. Nested(src, s, access) = Only(Upto(LastScope), T)
    BY DEF Nested
  <2> HIDE DEF T
  <2> QED BY <1>1, <2>1, OnlyType
<1>3. \A c \in T : c \in User => src.user
  OBVIOUS
<1> HIDE DEF T
<1> QED BY <1>2, <1>3

\* What a scope owns under a name is a result, and fits it.
LEMMA OwnedType ==
  ASSUME NEW src, NEW s, NEW name, NEW access
  PROVE  /\ Owned(src, s, name, access) \in Results
         /\ Fits(src, Owned(src, s, name, access), name)
<1> DEFINE all   == Nested(src, s, access)
           named == {k \in DOMAIN all : NameOf[all[k]] = name}
<1>1. all \in Seq(Scopes)
  BY NestedType
<1>2. \A k \in DOMAIN all : all[k] \in Scopes /\ (all[k] \in User => src.user)
  BY <1>1, NestedBuilt
<1> HIDE DEF all
<1>3. CASE named = {}
  <2>1. ~ \E k \in named : named = {k}
    BY <1>3
  <2>2. ~ \E k, l \in named : k # l
    BY <1>3
  <2>3. Owned(src, s, name, access) = Missing
    BY <1>3, <2>1, <2>2 DEF Owned, all
  <2> QED BY <2>3 DEF Results, Fits, Missing
<1>4. CASE \E k \in named : named = {k}
  <2>1. named # {}
    BY <1>4
  <2>2. ~ \E k, l \in named : k # l
    BY <1>4
  <2>3. Owned(src, s, name, access) = Found(all[CHOOSE k \in named : TRUE])
    BY <1>4, <2>1, <2>2 DEF Owned, all
  <2> DEFINE one == CHOOSE k \in named : TRUE
  <2>4. one \in DOMAIN all /\ NameOf[all[one]] = name
    BY <2>1
  <2> HIDE DEF one
  <2>5. Owned(src, s, name, access) = Found(all[one])
    BY <2>3 DEF one
  <2> QED BY <1>2, <2>4, <2>5 DEF Results, Fits, Found
<1>5. CASE \E k, l \in named : k # l
  <2>1. named # {} /\ ~ \E k \in named : named = {k}
    BY <1>5
  <2>2. Owned(src, s, name, access) = Ambiguous
    BY <1>5, <2>1 DEF Owned, all
  <2> QED BY <2>2 DEF Results, Fits, Ambiguous
<1>6. named = {} \/ (\E k \in named : named = {k}) \/ \E k, l \in named : k # l
  OBVIOUS
<1> QED BY <1>3, <1>4, <1>5, <1>6

\* Two results are merged into one, which fits what both fit.
LEMMA MergeType ==
  ASSUME NEW left \in Results, NEW right \in Results
  PROVE  /\ Merge(left, right) \in Results
         /\ \A src, name : Fits(src, left, name) /\ Fits(src, right, name)
                            => Fits(src, Merge(left, right), name)
<1>1. Merge(left, right) \in {Missing, Ambiguous, left, right}
  BY DEF Merge
<1>2. \A src, name : Fits(src, Missing, name) /\ Fits(src, Ambiguous, name)
  BY DEF Fits, Missing, Ambiguous
<1> QED BY <1>1, <1>2 DEF Results

\* What is found is a scope.
LEMMA FoundScope ==
  ASSUME NEW hit \in Results, hit.kind = "found"
  PROVE  hit.elem \in Scopes /\ hit = Found(hit.elem)
BY DEF Results, Missing, Ambiguous, Found

\* Nothing found fits any name.
LEMMA MissingFits ==
  ASSUME NEW src, NEW name
  PROVE  Missing \in Results /\ Fits(src, Missing, name)
BY DEF Results, Fits, Missing

\* What the entries of a scope denote, as lookups read them.
LEMMA SeedsType ==
  ASSUME NEW entries \in Seq(Imports), NEW i,
         NEW outcomes \in [1 .. Len(entries) -> Scopes \cup {None}]
  PROVE  Seeds(entries, outcomes, i) \in Seq(Entry)
<1> DEFINE places == {j \in 1 .. Len(entries) : j # i /\ outcomes[j] # None}
           others == Only(Upto(Len(entries)), places)
<1>1. Len(entries) \in Nat
  OBVIOUS
<1>2. Upto(Len(entries)) \in Seq(1 .. Len(entries))
  BY <1>1 DEF Upto
<1>3. others \in Seq(places)
  BY <1>2, OnlyType
<1> HIDE DEF others
<1>4. Len(others) \in Nat /\ \A k \in 1 .. Len(others) : others[k] \in places
  BY <1>3
<1>5. ASSUME NEW k \in 1 .. Len(others)
      PROVE  [scope |-> outcomes[others[k]], public |-> entries[others[k]].public,
              all |-> entries[others[k]].all, recursive |-> entries[others[k]].recursive]
               \in Entry
  <2>1. others[k] \in 1 .. Len(entries) /\ outcomes[others[k]] # None
    BY <1>4, <1>5
  <2>2. outcomes[others[k]] \in Scopes
    BY <2>1
  <2>3. entries[others[k]] \in Imports
    BY <2>1
  <2> QED BY <2>2, <2>3 DEF Entry, Imports
<1>6. Seeds(entries, outcomes, i)
        = [k \in 1 .. Len(others) |->
             [scope |-> outcomes[others[k]], public |-> entries[others[k]].public,
              all |-> entries[others[k]].all, recursive |-> entries[others[k]].recursive]]
  BY DEF Seeds, others
<1> QED BY <1>4, <1>5, <1>6

(****************************************************************************)
(* Computations.                                                            *)
(****************************************************************************)
\* The scopes whose imports are open: no lookup came through them yet.
Open(st) == {s \in Scopes : st.cache[s] = None}

\* What the imports of a scope denote has their names.
OutcomesFit(src, s, outcomes) ==
  \A i \in 1 .. Len(src.imports[s]) : outcomes[i] # None =>
    Fits(src, Found(outcomes[i]), Last(src.imports[s][i].target))

\* A scope's imports were filled: its entries are what they denote.
Filled(src, st, s) ==
  /\ st.targets[s] \in [1 .. Len(src.imports[s]) -> Scopes \cup {None}]
  /\ st.cache[s] \in Seq(Entry)
  /\ st.cache[s] = Seeds(src.imports[s], st.targets[s], 0)
  /\ OutcomesFit(src, s, st.targets[s])

\* A scope that is not being filled: it is open or filled.
Settled(src, st, s) ==
  /\ (st.cache[s] = None /\ st.targets[s] = None) \/ Filled(src, st, s)
  /\ st.missed[s].fill = 0

\* What a computation is at every call.  A scope that is being filled has
\* entries, so that no lookup fills it again.  No mark is newer than the last
\* query.
Sound(src, st) ==
  /\ st \in Computations
  /\ st.endless = FALSE
  /\ Len(st.frames) = Len(st.filling)
  /\ \A s \in Scopes : s \in Range(st.filling) => st.cache[s] # None
  /\ \A s \in Scopes : s \notin Range(st.filling) => Settled(src, st, s)
  /\ \A s \in Scopes, mode \in 0 .. 5 : st.visit[s][mode].stamp <= st.stamp

\* A query of a number, for a name, goes on: what its marks say fits the name.
Ready(src, st, stamp, name) ==
  /\ stamp \in Nat /\ stamp <= st.stamp
  /\ \A s \in Scopes, mode \in 0 .. 5 :
       st.visit[s][mode].stamp = stamp => Fits(src, st.visit[s][mode].hit, name)

\* What a call of a query does to the marks: they stay, or are those of the
\* query, or of newer ones.
Marks(src, st, then, stamp, name) ==
  /\ st.stamp <= then.stamp
  /\ \A s \in Scopes, mode \in 0 .. 5 :
       \/ then.visit[s][mode] = st.visit[s][mode]
       \/ st.stamp < then.visit[s][mode].stamp
       \/ then.visit[s][mode].stamp = stamp /\ Fits(src, then.visit[s][mode].hit, name)

\* What it does to the computation: the fills in progress are the same, and
\* what was filled stays.
Keeps(src, st, then, stamp, name) ==
  /\ Sound(src, then)
  /\ then.filling = st.filling
  /\ \A s \in Scopes : s \notin Range(st.filling) /\ st.cache[s] # None
                         => then.cache[s] = st.cache[s] /\ then.targets[s] = st.targets[s]
  /\ Marks(src, st, then, stamp, name)

\* What a call does that is of no query in progress: its marks are newer ones.
Leaves(src, st, then) == Keeps(src, st, then, -1, None)

Answers == [st : Computations, hit : Results]

\* The numbers of a computation are naturals.
LEMMA StampType ==
  ASSUME NEW st \in Computations
  PROVE  st.stamp \in Nat /\ \A s \in Scopes, mode \in 0 .. 5 : st.visit[s][mode].stamp \in Nat
BY DEF Computations

\* What a call leaves is sound.
LEMMA KeepsSound ==
  ASSUME NEW src, NEW st, NEW then, NEW stamp, NEW name, Keeps(src, st, then, stamp, name)
  PROVE  Sound(src, then) /\ then \in Computations
BY DEF Keeps, Sound

\* Doing nothing keeps all.
LEMMA KeepsItself ==
  ASSUME NEW src, NEW st, Sound(src, st), NEW stamp, NEW name
  PROVE  Keeps(src, st, st, stamp, name)
<1>1. st.stamp <= st.stamp
  BY StampType DEF Sound
<1> QED BY <1>1 DEF Keeps, Marks

\* What two calls of a query do to the marks, one after the other, one may do.
LEMMA MarksOn ==
  ASSUME NEW src, NEW a \in Computations, NEW b \in Computations, NEW c \in Computations,
         NEW stamp, NEW name, Marks(src, a, b, stamp, name), Marks(src, b, c, stamp, name)
  PROVE  Marks(src, a, c, stamp, name)
<1>1. /\ a.stamp \in Nat /\ b.stamp \in Nat /\ c.stamp \in Nat
      /\ \A s \in Scopes, mode \in 0 .. 5 : c.visit[s][mode].stamp \in Nat
  BY StampType
<1>2. a.stamp <= b.stamp /\ b.stamp <= c.stamp
  BY DEF Marks
<1>3. ASSUME NEW s \in Scopes, NEW mode \in 0 .. 5
      PROVE  \/ c.visit[s][mode] = a.visit[s][mode]
             \/ a.stamp < c.visit[s][mode].stamp
             \/ c.visit[s][mode].stamp = stamp /\ Fits(src, c.visit[s][mode].hit, name)
  <2>1. CASE c.visit[s][mode] = b.visit[s][mode]
    BY <2>1 DEF Marks
  <2>2. CASE b.stamp < c.visit[s][mode].stamp
    <3>1. c.visit[s][mode].stamp \in Nat
      BY <1>1
    <3> QED BY <1>1, <1>2, <2>2, <3>1
  <2>3. CASE c.visit[s][mode].stamp = stamp /\ Fits(src, c.visit[s][mode].hit, name)
    BY <2>3
  <2> QED BY <2>1, <2>2, <2>3 DEF Marks
<1>4. a.stamp <= c.stamp
  BY <1>1, <1>2
<1> QED BY <1>3, <1>4 DEF Marks

\* Two calls of a query, one after the other, are as one.
LEMMA KeepsOn ==
  ASSUME NEW src, NEW a, NEW b, NEW c, NEW stamp, NEW name, Sound(src, a),
         Keeps(src, a, b, stamp, name), Keeps(src, b, c, stamp, name)
  PROVE  Keeps(src, a, c, stamp, name)
<1>1. a \in Computations /\ b \in Computations /\ c \in Computations
  BY DEF Keeps, Sound
<1>2. Marks(src, a, c, stamp, name)
  BY <1>1, MarksOn DEF Keeps
<1> QED BY <1>2 DEF Keeps

\* A call of no query in progress is a step of any query.
LEMMA LeavesKeeps ==
  ASSUME NEW src, NEW st, NEW then, Leaves(src, st, then), NEW stamp, NEW name
  PROVE  Keeps(src, st, then, stamp, name)
<1>1. \A s \in Scopes, mode \in 0 .. 5 : then.visit[s][mode].stamp # -1
  <2>1. \A s \in Scopes, mode \in 0 .. 5 : then.visit[s][mode].stamp \in Nat
    BY StampType DEF Leaves, Keeps, Sound
  <2> QED BY <2>1
<1>2. Marks(src, st, then, stamp, name)
  BY <1>1 DEF Leaves, Keeps, Marks
<1> QED BY <1>2 DEF Leaves, Keeps

\* A call of a query and one of none in progress after it.
LEMMA LeavesOn ==
  ASSUME NEW src, NEW a, NEW b, NEW c, NEW stamp, NEW name, Sound(src, a),
         Keeps(src, a, b, stamp, name), Leaves(src, b, c)
  PROVE  Keeps(src, a, c, stamp, name)
BY LeavesKeeps, KeepsOn

\* A query goes on after a call of its own.
LEMMA ReadyOn ==
  ASSUME NEW src, NEW st, NEW then, NEW stamp, NEW name, Sound(src, st),
         Ready(src, st, stamp, name), Keeps(src, st, then, stamp, name)
  PROVE  Ready(src, then, stamp, name)
<1>1. /\ st.stamp \in Nat /\ then.stamp \in Nat
      /\ \A s \in Scopes, mode \in 0 .. 5 : then.visit[s][mode].stamp \in Nat
  BY StampType DEF Keeps, Sound
<1>2. stamp \in Nat /\ stamp <= st.stamp /\ st.stamp <= then.stamp
  BY DEF Ready, Keeps, Marks
<1>3. ASSUME NEW s \in Scopes, NEW mode \in 0 .. 5, then.visit[s][mode].stamp = stamp
      PROVE  Fits(src, then.visit[s][mode].hit, name)
  <2>1. CASE then.visit[s][mode] = st.visit[s][mode]
    BY <1>3, <2>1 DEF Ready
  <2>2. CASE st.stamp < then.visit[s][mode].stamp
    BY <1>1, <1>2, <1>3, <2>2
  <2> QED BY <2>1, <2>2 DEF Keeps, Marks
<1> QED BY <1>1, <1>2, <1>3 DEF Ready

\* A call opens no scope.
LEMMA KeepsShut ==
  ASSUME NEW src, NEW st, NEW then, NEW stamp, NEW name, Sound(src, st),
         Keeps(src, st, then, stamp, name)
  PROVE  Open(then) \subseteq Open(st)
<1> SUFFICES ASSUME NEW s \in Scopes, then.cache[s] = None, st.cache[s] # None
             PROVE  FALSE
  BY DEF Open
<1>1. s \notin Range(st.filling)
  BY DEF Keeps, Sound
<1> QED BY <1>1 DEF Keeps

\* What leaves caches and fills alone.
LEMMA KeepsMarked ==
  ASSUME NEW src, NEW st, NEW then \in Computations, NEW stamp, NEW name, Sound(src, st),
         then.cache = st.cache, then.targets = st.targets, then.missed = st.missed,
         then.filling = st.filling, then.frames = st.frames, then.endless = st.endless,
         Marks(src, st, then, stamp, name),
         \A s \in Scopes, mode \in 0 .. 5 : then.visit[s][mode].stamp <= then.stamp
  PROVE  Keeps(src, st, then, stamp, name)
<1>1. \A s \in Scopes : Settled(src, st, s) => Settled(src, then, s)
  BY DEF Settled, Filled
<1> QED BY <1>1 DEF Keeps, Sound

\* And the marks.
LEMMA LeavesAlone ==
  ASSUME NEW src, NEW st, NEW then \in Computations, Sound(src, st),
         then.cache = st.cache, then.targets = st.targets, then.missed = st.missed,
         then.filling = st.filling, then.frames = st.frames, then.endless = st.endless,
         then.visit = st.visit, then.stamp = st.stamp
  PROVE  Leaves(src, st, then)
<1>1. st.stamp <= st.stamp
  BY StampType DEF Sound
<1>2. Marks(src, st, then, -1, None)
  BY <1>1 DEF Marks
<1>3. \A s \in Scopes, mode \in 0 .. 5 : then.visit[s][mode].stamp <= then.stamp
  BY DEF Sound
<1> QED BY <1>2, <1>3, KeepsMarked DEF Leaves

\* A query of its own: it has no marks yet, and what it does is no step of
\* another one.
LEMMA NextStampKeeps ==
  ASSUME NEW src, NEW st, Sound(src, st), NEW name
  PROVE  /\ Leaves(src, st, NextStamp(st)) /\ NextStamp(st).stamp = st.stamp + 1
         /\ Ready(src, NextStamp(st), st.stamp + 1, name)
<1> DEFINE next == st.stamp + 1
           then == [st EXCEPT !.stamp = next]
<1>1. st \in Computations /\ st.stamp \in Nat
  BY StampType DEF Sound
<1>2. next \in Nat /\ st.stamp < next /\ st.stamp <= next /\ next <= next
  BY <1>1
<1>3. NextStamp(st) = then
  BY DEF NextStamp
<1>4. \A s \in Scopes, mode \in 0 .. 5 : /\ st.visit[s][mode].stamp <= next
                                         /\ st.visit[s][mode].stamp # next
  <2>1. \A s \in Scopes, mode \in 0 .. 5 : /\ st.visit[s][mode].stamp \in Nat
                                           /\ st.visit[s][mode].stamp <= st.stamp
    BY <1>1, StampType DEF Sound
  <2> QED BY <1>1, <2>1
<1>5. st.stamp + 1 = next
  OBVIOUS
<1> HIDE DEF next
<1>6. /\ then \in Computations /\ then.stamp = next /\ then.visit = st.visit
      /\ then.cache = st.cache /\ then.targets = st.targets /\ then.missed = st.missed
      /\ then.filling = st.filling /\ then.frames = st.frames /\ then.endless = st.endless
  BY <1>1, <1>2 DEF Computations
<1> HIDE DEF then
<1>7. Marks(src, st, then, -1, None)
  BY <1>2, <1>6 DEF Marks
<1>8. Leaves(src, st, then)
  BY <1>4, <1>6, <1>7, KeepsMarked DEF Leaves
<1>9. Ready(src, then, next, name)
  BY <1>2, <1>4, <1>6 DEF Ready
<1> QED BY <1>3, <1>5, <1>6, <1>8, <1>9

\* A query of its own leaves the marks of those in progress: its number is new.
LEMMA QueryLeaves ==
  ASSUME NEW src, NEW st, NEW then, NEW name, Sound(src, st),
         Keeps(src, NextStamp(st), then, st.stamp + 1, name)
  PROVE  Leaves(src, st, then)
<1> DEFINE next == NextStamp(st)
<1>1. st \in Computations /\ st.stamp \in Nat
  BY StampType DEF Sound
<1>2. /\ next.stamp = st.stamp + 1 /\ next.visit = st.visit /\ next.cache = st.cache
      /\ next.targets = st.targets /\ next.filling = st.filling
  BY <1>1, NextStampKeeps DEF NextStamp, Computations
<1> HIDE DEF next
<1>3. Keeps(src, next, then, st.stamp + 1, name)
  BY DEF next
<1>4. then.stamp \in Nat /\ \A s \in Scopes, mode \in 0 .. 5 : then.visit[s][mode].stamp \in Nat
  BY <1>3, StampType, KeepsSound
<1>5. st.stamp <= then.stamp
  BY <1>1, <1>2, <1>3, <1>4 DEF Keeps, Marks
<1>6. ASSUME NEW s \in Scopes, NEW mode \in 0 .. 5
      PROVE  \/ then.visit[s][mode] = st.visit[s][mode]
             \/ st.stamp < then.visit[s][mode].stamp
  <2>1. then.visit[s][mode].stamp \in Nat
    BY <1>4
  <2>2. \/ then.visit[s][mode] = next.visit[s][mode]
        \/ next.stamp < then.visit[s][mode].stamp
        \/ then.visit[s][mode].stamp = st.stamp + 1
    BY <1>3 DEF Keeps, Marks
  <2> QED BY <1>1, <1>2, <2>1, <2>2
<1>7. Marks(src, st, then, -1, None)
  BY <1>5, <1>6 DEF Marks
<1> QED BY <1>2, <1>3, <1>7 DEF Leaves, Keeps

\* Which member imports are in progress is of no query.
LEMMA ActiveLeaves ==
  ASSUME NEW src, NEW st, Sound(src, st), NEW active \in SUBSET (Scopes \X (Nat \ {0}))
  PROVE  Leaves(src, st, [st EXCEPT !.active = active])
<1> DEFINE then == [st EXCEPT !.active = active]
<1>1. st \in Computations
  BY DEF Sound
<1>2. then \in Computations
  BY <1>1 DEF Computations
<1>3. /\ then.cache = st.cache /\ then.targets = st.targets /\ then.missed = st.missed
      /\ then.filling = st.filling /\ then.frames = st.frames /\ then.endless = st.endless
      /\ then.visit = st.visit /\ then.stamp = st.stamp
  BY <1>1 DEF Computations
<1> HIDE DEF then
<1>4. Leaves(src, st, then)
  BY <1>2, <1>3, LeavesAlone
<1> QED BY <1>4 DEF then

\* Nor is what was missed, or torn.
LEMMA MissesLeave ==
  ASSUME NEW src, NEW st, Sound(src, st), NEW misses \in SUBSET Names, NEW torn \in BOOLEAN
  PROVE  /\ Leaves(src, st, [st EXCEPT !.misses = misses])
         /\ Leaves(src, st, [st EXCEPT !.misses = misses, !.torn = torn])
<1>1. st \in Computations
  BY DEF Sound
<1>2. Leaves(src, st, [st EXCEPT !.misses = misses])
  <2> DEFINE then == [st EXCEPT !.misses = misses]
  <2>1. then \in Computations
    BY <1>1 DEF Computations
  <2>2. /\ then.cache = st.cache /\ then.targets = st.targets /\ then.missed = st.missed
        /\ then.filling = st.filling /\ then.frames = st.frames /\ then.endless = st.endless
        /\ then.visit = st.visit /\ then.stamp = st.stamp
    BY <1>1 DEF Computations
  <2> HIDE DEF then
  <2>3. Leaves(src, st, then)
    BY <2>1, <2>2, LeavesAlone
  <2> QED BY <2>3 DEF then
<1>3. Leaves(src, st, [st EXCEPT !.misses = misses, !.torn = torn])
  <2> DEFINE then == [st EXCEPT !.misses = misses, !.torn = torn]
  <2>1. then \in Computations
    BY <1>1 DEF Computations
  <2>2. /\ then.cache = st.cache /\ then.targets = st.targets /\ then.missed = st.missed
        /\ then.filling = st.filling /\ then.frames = st.frames /\ then.endless = st.endless
        /\ then.visit = st.visit /\ then.stamp = st.stamp
    BY <1>1 DEF Computations
  <2> HIDE DEF then
  <2>3. Leaves(src, st, then)
    BY <2>1, <2>2, LeavesAlone
  <2> QED BY <2>3 DEF then
<1> QED BY <1>2, <1>3

\* A scope has six marks.
LEMMA ModeType ==
  ASSUME NEW access, NEW semantic
  PROVE  Mode(access, semantic) \in 0 .. 5
BY DEF Mode

\* A mark that says so of a query in progress, or of a newer one.
LEMMA VisitKeeps ==
  ASSUME NEW src, NEW start, NEW st, Sound(src, start), NEW stamp, NEW name,
         Keeps(src, start, st, stamp, name), NEW s \in Scopes, NEW mode \in 0 .. 5,
         NEW mark \in [stamp : Nat, hit : Results], mark.stamp <= st.stamp,
         start.stamp < mark.stamp \/ (mark.stamp = stamp /\ Fits(src, mark.hit, name))
  PROVE  Keeps(src, start, [st EXCEPT !.visit[s][mode] = mark], stamp, name)
<1> DEFINE visit == [st.visit EXCEPT ![s][mode] = mark]
           then == [st EXCEPT !.visit = visit]
<1>1. st \in Computations /\ Sound(src, st) /\ st.stamp \in Nat
  BY KeepsSound, StampType
<1>2. st.visit \in [Scopes -> [0 .. 5 -> [stamp : Nat, hit : Results]]]
  BY <1>1 DEF Computations
<1>3. /\ visit \in [Scopes -> [0 .. 5 -> [stamp : Nat, hit : Results]]]
      /\ visit[s][mode] = mark
      /\ \A x \in Scopes, m \in 0 .. 5 :
           (x # s \/ m # mode) => visit[x][m] = st.visit[x][m]
  BY <1>2
<1> HIDE DEF visit
<1>4. /\ then \in Computations /\ then.visit = visit /\ then.stamp = st.stamp
      /\ then.cache = st.cache /\ then.targets = st.targets /\ then.missed = st.missed
      /\ then.filling = st.filling /\ then.frames = st.frames /\ then.endless = st.endless
  BY <1>1, <1>3 DEF Computations
<1> HIDE DEF then
<1>5. \A x \in Scopes, m \in 0 .. 5 : then.visit[x][m].stamp <= then.stamp
  BY <1>1, <1>3, <1>4 DEF Sound
<1>6. \A x \in Scopes : Settled(src, st, x) => Settled(src, then, x)
  BY <1>4 DEF Settled, Filled
<1>7. Sound(src, then)
  BY <1>1, <1>4, <1>5, <1>6 DEF Sound
<1>8. Marks(src, start, then, stamp, name)
  <2>1. Marks(src, start, st, stamp, name)
    BY DEF Keeps
  <2>2. ASSUME NEW x \in Scopes, NEW m \in 0 .. 5
        PROVE  \/ visit[x][m] = start.visit[x][m]
               \/ start.stamp < visit[x][m].stamp
               \/ visit[x][m].stamp = stamp /\ Fits(src, visit[x][m].hit, name)
    <3>1. CASE x = s /\ m = mode
      BY <1>3, <3>1
    <3>2. CASE x # s \/ m # mode
      BY <1>3, <2>1, <3>2 DEF Marks
    <3> QED BY <3>1, <3>2
  <2>3. start.stamp <= then.stamp
    BY <1>4, <2>1 DEF Marks
  <2> QED BY <1>4, <2>2, <2>3 DEF Marks
<1>9. Keeps(src, start, then, stamp, name)
  BY <1>4, <1>7, <1>8 DEF Keeps
<1> QED BY <1>9 DEF then, visit

(****************************************************************************)
(* Calls.                                                                   *)
(****************************************************************************)
\* How deep calls may nest until the scopes that are open are filled.
Base(st) == Cardinality(Open(st)) * WithinFill

\* What is left of the depth a lookup may have.
Left(depth) == IF depth > MaxDepth THEN 0 ELSE MaxDepth + 1 - depth

\* How deep the calls of a call may nest.
Rank(call) ==
  IF call.fn = "fill" THEN Base(call.st)
  ELSE IF call.fn = "lookup" THEN Base(call.st) + 2 * Left(call.depth) + 1
  ELSE Base(call.st) + 2 * Left(call.depth) + 2

\* What is right to be asked: a computation that is sound, of a query that goes
\* on, and no fill of a scope that is not open.
Right(src, call) ==
  /\ call \in Calls
  /\ Sound(src, call.st)
  /\ call \in Lookups => Ready(src, call.st, call.stamp, call.name)
  /\ call \in Fills => call.st.cache[call.s] = None

\* How it is answered.  What is found has the name, and a call that is a query
\* of its own, or has such, leaves the marks of the other ones.
Answered(src, call, answer) ==
  /\ answer \in Answers
  /\ call \in Lookups => /\ Keeps(src, call.st, answer.st, call.stamp, call.name)
                         /\ Fits(src, answer.hit, call.name)
  /\ call \in Resolutions => /\ Leaves(src, call.st, answer.st)
                             /\ Fits(src, answer.hit, Last(call.qn))
  /\ call \in Fills => /\ Leaves(src, call.st, answer.st)
                       /\ answer.st.cache[call.s] # None

\* go answers all calls of a rank below r.
Serves(src, go, r) ==
  \A call \in Calls : Right(src, call) /\ Rank(call) < r => Answered(src, call, go[call])

\* A fill may nest calls.
LEMMA WithinFillType == WithinFill \in Nat \ {0}
BY ScopesAssumption DEF WithinFill

\* What is left of the depth is no more than all of it, and one less one deeper.
LEMMA LeftType ==
  ASSUME NEW depth \in Nat
  PROVE  /\ Left(depth) \in Nat /\ Left(depth) <= MaxDepth + 1
         /\ Left(depth + 1) <= Left(depth)
         /\ depth <= MaxDepth => Left(depth + 1) + 1 = Left(depth)
BY ScopesAssumption DEF Left

\* Deeper there is less of it.
LEMMA LeftLess ==
  ASSUME NEW depth \in Nat, NEW more \in Nat, depth <= more
  PROVE  Left(more) <= Left(depth)
BY ScopesAssumption DEF Left

\* Finitely many scopes are open.
LEMMA OpenFinite ==
  ASSUME NEW st
  PROVE  /\ IsFiniteSet(Open(st)) /\ Cardinality(Open(st)) \in Nat
         /\ Cardinality(Open(st)) <= LastScope + 1
<1>1. IsFiniteSet(Scopes) /\ Cardinality(Scopes) = LastScope + 1
  <2>1. 0 \in Int /\ LastScope \in Int /\ 0 <= LastScope
    BY ScopesAssumption
  <2>2. IsFiniteSet(0 .. LastScope)
        /\ Cardinality(0 .. LastScope) = IF 0 > LastScope THEN 0 ELSE LastScope - 0 + 1
    BY <2>1, FS_Interval
  <2> QED BY <2>1, <2>2 DEF Scopes
<1>2. Open(st) \subseteq Scopes
  BY DEF Open
<1>3. IsFiniteSet(Open(st)) /\ Cardinality(Open(st)) <= Cardinality(Scopes)
  BY <1>1, <1>2, FS_Subset
<1>4. Cardinality(Open(st)) \in Nat
  BY <1>3, FS_CardinalityType
<1> QED BY <1>1, <1>3, <1>4

\* The rank of what is open, and of less.
LEMMA BaseLess ==
  ASSUME NEW m \in Nat, NEW n \in Nat, m <= n
  PROVE  /\ m * WithinFill \in Nat /\ m * WithinFill <= n * WithinFill
         /\ m < n => m * WithinFill + WithinFill <= n * WithinFill
<1>1. PICK w \in Nat : w = WithinFill
  BY WithinFillType
<1>2. PICK d \in Nat : n = m + d
  <2>1. n - m \in Nat /\ n = m + (n - m)
    OBVIOUS
  <2> QED BY <2>1
<1>3. n * w = m * w + d * w /\ m * w \in Nat /\ d * w \in Nat
  BY <1>2
<1>4. m < n => d * w >= w
  <2> SUFFICES ASSUME m < n PROVE d * w >= w
    OBVIOUS
  <2>1. PICK e \in Nat : d = e + 1
    <3>1. d - 1 \in Nat /\ d = (d - 1) + 1
      BY <1>2
    <3> QED BY <3>1
  <2>2. d * w = e * w + w /\ e * w \in Nat
    BY <2>1
  <2> QED BY <2>2
<1> QED BY <1>1, <1>3, <1>4

\* What the open scopes count is bounded by that of all scopes.
LEMMA BaseType ==
  ASSUME NEW st
  PROVE  Base(st) \in Nat /\ Base(st) <= (LastScope + 1) * WithinFill
<1>1. LastScope + 1 \in Nat
  BY ScopesAssumption
<1> QED BY <1>1, OpenFinite, BaseLess DEF Base

\* It does not grow while none is opened.
LEMMA BaseShut ==
  ASSUME NEW st, NEW then, Open(then) \subseteq Open(st)
  PROVE  Base(then) <= Base(st)
<1>1. Cardinality(Open(then)) <= Cardinality(Open(st))
  BY OpenFinite, FS_Subset
<1> QED BY <1>1, OpenFinite, BaseLess DEF Base

\* A scope that is not open any more takes the nesting of a fill off it.
LEMMA BaseFilled ==
  ASSUME NEW st, NEW then, NEW s \in Open(st), Open(then) \subseteq Open(st) \ {s}
  PROVE  Base(then) + WithinFill <= Base(st)
<1>1. Cardinality(Open(st) \ {s}) = Cardinality(Open(st)) - 1
  BY OpenFinite, FS_RemoveElement
<1>2. IsFiniteSet(Open(st) \ {s})
  BY OpenFinite, FS_RemoveElement
<1>3. Cardinality(Open(then)) <= Cardinality(Open(st) \ {s})
  BY <1>2, FS_Subset
<1>4. Cardinality(Open(then)) < Cardinality(Open(st))
  BY <1>1, <1>3, OpenFinite
<1> QED BY <1>4, OpenFinite, BaseLess DEF Base

\* No call makes it grow.
LEMMA KeepsBase ==
  ASSUME NEW src, NEW st, NEW then, NEW stamp, NEW name, Sound(src, st),
         Keeps(src, st, then, stamp, name)
  PROVE  Base(then) \in Nat /\ Base(st) \in Nat /\ Base(then) <= Base(st)
BY KeepsShut, BaseShut, BaseType

\* How a lookup, made in the course of a query, is answered.
LEMMA AskLookup ==
  ASSUME NEW src, NEW go, NEW r \in Nat, Serves(src, go, r), NEW start, NEW st, Sound(src, start),
         NEW name \in Names, NEW stamp \in Nat, Ready(src, start, stamp, name),
         Keeps(src, start, st, stamp, name), NEW s \in Scopes, NEW depth \in Nat,
         NEW access \in {"all", "public"}, NEW semantic \in BOOLEAN,
         Base(start) + 2 * Left(depth) + 1 < r
  PROVE  LET answer == go[LookupCall(st, s, name, depth, stamp, access, semantic)]
         IN  /\ answer \in Answers
             /\ Keeps(src, start, answer.st, stamp, name)
             /\ Fits(src, answer.hit, name)
<1> DEFINE call == LookupCall(st, s, name, depth, stamp, access, semantic)
<1>1. Sound(src, st) /\ st \in Computations /\ Ready(src, st, stamp, name)
  BY KeepsSound, ReadyOn
<1>2. /\ call \in Lookups /\ call.fn = "lookup" /\ call.st = st /\ call.depth = depth
      /\ call.stamp = stamp /\ call.name = name
  BY <1>1 DEF LookupCall, Lookups
<1> HIDE DEF call
<1>3. Right(src, call)
  BY <1>1, <1>2 DEF Right, Calls, Fills
<1>4. Rank(call) < r
  <2>1. Rank(call) = Base(st) + 2 * Left(depth) + 1
    BY <1>2 DEF Rank
  <2>2. Base(st) \in Nat /\ Base(start) \in Nat /\ Base(st) <= Base(start) /\ Left(depth) \in Nat
    BY KeepsBase, LeftType
  <2> QED BY <2>1, <2>2
<1>5. Answered(src, call, go[call])
  BY <1>3, <1>4 DEF Serves, Right
<1>6. /\ go[call] \in Answers /\ Keeps(src, st, go[call].st, stamp, name)
      /\ Fits(src, go[call].hit, name)
  BY <1>2, <1>5 DEF Answered
<1>7. Keeps(src, start, go[call].st, stamp, name)
  BY <1>6, KeepsOn
<1> QED BY <1>6, <1>7 DEF call

\* The same, of a lookup in a namespace and all that is nested in it.
LEMMA AskBelow ==
  ASSUME NEW src, NEW go, NEW r \in Nat, Serves(src, go, r), NEW start, NEW st, Sound(src, start),
         NEW name \in Names, NEW stamp \in Nat, Ready(src, start, stamp, name),
         Keeps(src, start, st, stamp, name), NEW s \in Scopes, NEW depth \in Nat,
         NEW access \in {"all", "public"}, Base(start) + 2 * Left(depth) + 2 < r
  PROVE  LET answer == go[BelowCall(st, s, name, depth, stamp, access)]
         IN  /\ answer \in Answers
             /\ Keeps(src, start, answer.st, stamp, name)
             /\ Fits(src, answer.hit, name)
<1> DEFINE call == BelowCall(st, s, name, depth, stamp, access)
<1>1. Sound(src, st) /\ st \in Computations /\ Ready(src, st, stamp, name)
  BY KeepsSound, ReadyOn
<1>2. /\ call \in Lookups /\ call.fn = "below" /\ call.st = st /\ call.depth = depth
      /\ call.stamp = stamp /\ call.name = name
  BY <1>1 DEF BelowCall, LookupCall, Lookups
<1> HIDE DEF call
<1>3. Right(src, call)
  BY <1>1, <1>2 DEF Right, Calls, Fills
<1>4. Rank(call) < r
  <2>1. Rank(call) = Base(st) + 2 * Left(depth) + 2
    BY <1>2 DEF Rank
  <2>2. Base(st) \in Nat /\ Base(start) \in Nat /\ Base(st) <= Base(start) /\ Left(depth) \in Nat
    BY KeepsBase, LeftType
  <2> QED BY <2>1, <2>2
<1>5. Answered(src, call, go[call])
  BY <1>3, <1>4 DEF Serves, Right
<1>6. /\ go[call] \in Answers /\ Keeps(src, st, go[call].st, stamp, name)
      /\ Fits(src, go[call].hit, name)
  BY <1>2, <1>5 DEF Answered
<1>7. Keeps(src, start, go[call].st, stamp, name)
  BY <1>6, KeepsOn
<1> QED BY <1>6, <1>7 DEF call

\* How a reference is, and the fill of a scope: whatever query they are made
\* in the course of.
LEMMA AskResolve ==
  ASSUME NEW src, NEW go, NEW r \in Nat, Serves(src, go, r), NEW start, NEW st, Sound(src, start),
         NEW stamp, NEW name, Keeps(src, start, st, stamp, name), NEW s \in Scopes,
         NEW qn \in Paths, NEW depth \in Nat, NEW lastAll \in BOOLEAN,
         Base(start) + 2 * Left(depth) + 2 < r
  PROVE  LET answer == go[ResolveCall(st, s, qn, depth, lastAll)]
         IN  /\ answer \in Answers
             /\ Keeps(src, start, answer.st, stamp, name)
             /\ Fits(src, answer.hit, Last(qn))
<1> DEFINE call == ResolveCall(st, s, qn, depth, lastAll)
<1>1. Sound(src, st) /\ st \in Computations
  BY KeepsSound
<1>2. /\ call \in Resolutions /\ call.fn = "resolve" /\ call.st = st /\ call.depth = depth
      /\ call.qn = qn
  BY <1>1 DEF ResolveCall, Resolutions
<1> HIDE DEF call
<1>3. Right(src, call)
  BY <1>1, <1>2 DEF Right, Calls, Fills, Lookups
<1>4. Rank(call) < r
  <2>1. Rank(call) = Base(st) + 2 * Left(depth) + 2
    BY <1>2 DEF Rank
  <2>2. Base(st) \in Nat /\ Base(start) \in Nat /\ Base(st) <= Base(start) /\ Left(depth) \in Nat
    BY KeepsBase, LeftType
  <2> QED BY <2>1, <2>2
<1>5. Answered(src, call, go[call])
  BY <1>3, <1>4 DEF Serves, Right
<1>6. go[call] \in Answers /\ Leaves(src, st, go[call].st) /\ Fits(src, go[call].hit, Last(qn))
  BY <1>2, <1>5 DEF Answered
<1>7. Keeps(src, start, go[call].st, stamp, name)
  BY <1>6, LeavesOn
<1> QED BY <1>6, <1>7 DEF call

\* The same, of a fill of a scope that is open.
LEMMA AskFill ==
  ASSUME NEW src, NEW go, NEW r \in Nat, Serves(src, go, r), NEW start, NEW st, Sound(src, start),
         NEW stamp, NEW name, Keeps(src, start, st, stamp, name), NEW s \in Scopes,
         st.cache[s] = None, Base(start) < r
  PROVE  LET answer == go[FillCall(st, s)]
         IN  /\ answer \in Answers
             /\ Keeps(src, start, answer.st, stamp, name)
             /\ answer.st.cache[s] # None
<1> DEFINE call == FillCall(st, s)
<1>1. Sound(src, st) /\ st \in Computations
  BY KeepsSound
<1>2. call \in Fills /\ call.fn = "fill" /\ call.st = st /\ call.s = s
  BY <1>1 DEF FillCall, Fills
<1> HIDE DEF call
<1>3. Right(src, call)
  BY <1>1, <1>2 DEF Right, Calls, Lookups
<1>4. Rank(call) < r
  <2>1. Rank(call) = Base(st)
    BY <1>2 DEF Rank
  <2>2. Base(st) \in Nat /\ Base(start) \in Nat /\ Base(st) <= Base(start)
    BY KeepsBase
  <2> QED BY <2>1, <2>2
<1>5. Answered(src, call, go[call])
  BY <1>3, <1>4 DEF Serves, Right
<1>6. go[call] \in Answers /\ Leaves(src, st, go[call].st) /\ go[call].st.cache[s] # None
  BY <1>2, <1>5 DEF Answered
<1>7. Keeps(src, start, go[call].st, stamp, name)
  BY <1>6, LeavesOn
<1> QED BY <1>6, <1>7 DEF call

(****************************************************************************)
(* References.                                                              *)
(****************************************************************************)
LEMMA PathsType ==
  ASSUME NEW qn \in Paths
  PROVE  /\ Head(qn) \in Names /\ Tail(qn) \in Seq(Names)
         /\ Len(Tail(qn)) \in Nat
         /\ Tail(qn) = <<>> => Last(qn) = Head(qn)
         /\ Tail(qn) # <<>> => Last(qn) = Tail(qn)[Len(Tail(qn))]
<1>1. qn \in Seq(Names) /\ qn # <<>> /\ Len(qn) \in Nat /\ Len(qn) > 0
  BY DEF Paths
<1>2. Tail(qn) \in Seq(Names) /\ Len(Tail(qn)) = Len(qn) - 1 /\ Head(qn) = qn[1]
      /\ \A k \in 1 .. (Len(qn) - 1) : Tail(qn)[k] = qn[k + 1]
  BY <1>1
<1>3. Last(qn) = qn[Len(qn)]
  BY DEF Last
<1>4. Head(qn) \in Names
  BY <1>1
<1>5. Tail(qn) = <<>> => Len(qn) = 1
  BY <1>1, <1>2
<1>6. Tail(qn) # <<>> => Len(qn) - 1 \in 1 .. (Len(qn) - 1)
  BY <1>1, <1>2
<1>7. Tail(qn) # <<>> => Tail(qn)[Len(qn) - 1] = qn[Len(qn)]
  <2>1. (Len(qn) - 1) + 1 = Len(qn)
    BY <1>1
  <2> QED BY <1>2, <1>6, <2>1
<1> QED BY <1>1, <1>2, <1>3, <1>4, <1>5, <1>7

\* What a computation comes to that is of no query in progress.
Rests(src, start) == {answer \in Answers : Leaves(src, start, answer.st)}

\* A query of its own: a lookup that is the first of a new number.
LEMMA AskQuery ==
  ASSUME NEW src, NEW go, NEW r \in Nat, Serves(src, go, r), NEW start, NEW st, Sound(src, start),
         Leaves(src, start, st), NEW name \in Names, NEW s \in Scopes, NEW depth \in Nat,
         NEW access \in {"all", "public"}, NEW semantic \in BOOLEAN,
         Base(start) + 2 * Left(depth) + 1 < r
  PROVE  LET answer == go[LookupCall(NextStamp(st), s, name, depth, NextStamp(st).stamp,
                                     access, semantic)]
         IN  /\ answer \in Rests(src, start)
             /\ Fits(src, answer.hit, name)
<1> DEFINE next   == NextStamp(st)
           stamp  == st.stamp + 1
           answer == go[LookupCall(next, s, name, depth, stamp, access, semantic)]
<1>1. Sound(src, st) /\ st \in Computations /\ st.stamp \in Nat
  BY KeepsSound, StampType DEF Leaves
<1>2. stamp \in Nat
  BY <1>1
<1>3. /\ Leaves(src, st, next) /\ next.stamp = stamp
      /\ Ready(src, next, stamp, name)
  BY <1>1, NextStampKeeps
<1>4. answer = go[LookupCall(next, s, name, depth, next.stamp, access, semantic)]
  BY <1>3
<1>5. st.stamp + 1 = stamp
  OBVIOUS
<1> HIDE DEF stamp
<1>6. Sound(src, next) /\ Keeps(src, next, next, stamp, name)
  BY <1>3, KeepsSound, KeepsItself DEF Leaves
<1>7. Base(next) + 2 * Left(depth) + 1 < r
  <2>1. Base(st) <= Base(start) /\ Base(st) \in Nat /\ Base(start) \in Nat
    BY KeepsBase DEF Leaves
  <2>2. Base(next) <= Base(st) /\ Base(next) \in Nat
    BY <1>1, <1>3, KeepsBase DEF Leaves
  <2>3. Left(depth) \in Nat
    BY LeftType
  <2> QED BY <2>1, <2>2, <2>3
<1>8. /\ answer \in Answers
      /\ Keeps(src, next, answer.st, stamp, name)
      /\ Fits(src, answer.hit, name)
  <2>1. /\ Sound(src, next) /\ Keeps(src, next, next, stamp, name)
        /\ Ready(src, next, stamp, name) /\ Base(next) + 2 * Left(depth) + 1 < r
    BY <1>3, <1>6, <1>7
  <2> HIDE DEF next
  <2> QED BY <1>2, <2>1, AskLookup, ZenonT(30)
<1> HIDE DEF answer
<1>9. Leaves(src, st, answer.st)
  BY <1>1, <1>5, <1>8, QueryLeaves
<1>10. Leaves(src, start, answer.st)
  BY <1>9, LeavesOn DEF Leaves
<1> QED BY <1>4, <1>8, <1>10 DEF Rests

\* A later segment is found under its name.
LEMMA RestStepKeeps ==
  ASSUME NEW src, NEW go, NEW r \in Nat, Serves(src, go, r), NEW start, Sound(src, start),
         NEW origin, NEW rest \in Seq(Names), NEW depth \in Nat, NEW lastAll \in BOOLEAN,
         NEW last \in Rests(src, start), NEW k \in 1 .. Len(rest),
         Base(start) + 2 * Left(depth) + 1 < r
  PROVE  /\ RestStep(go, origin, rest, depth, lastAll, last, k) \in Rests(src, start)
         /\ Fits(src, RestStep(go, origin, rest, depth, lastAll, last, k).hit, rest[k])
<1> DEFINE access == IF Within(origin, last.hit.elem) \/ (lastAll /\ k = Len(rest))
                     THEN "all" ELSE "public"
           next   == NextStamp(last.st)
           call   == LookupCall(next, last.hit.elem, rest[k], depth + k, next.stamp, access, FALSE)
<1>1. RestStep(go, origin, rest, depth, lastAll, last, k)
        = IF last.hit.kind # "found" THEN last ELSE go[call]
  BY DEF RestStep
<1>2. CASE last.hit.kind # "found"
  BY <1>1, <1>2 DEF Fits
<1>3. CASE last.hit.kind = "found"
  <2>1. last.hit \in Results /\ Leaves(src, start, last.st)
    BY DEF Rests, Answers
  <2>2. last.hit.elem \in Scopes
    BY <1>3, <2>1, FoundScope
  <2>4. access \in {"all", "public"}
    OBVIOUS
  <2>5. rest[k] \in Names /\ depth + k \in Nat /\ depth <= depth + k
    OBVIOUS
  <2>6. Left(depth + k) <= Left(depth) /\ Left(depth + k) \in Nat /\ Left(depth) \in Nat
    BY <2>5, LeftLess, LeftType
  <2>7. Base(start) + 2 * Left(depth + k) + 1 < r
    <3>1. Base(start) \in Nat
      BY BaseType
    <3> QED BY <2>6, <3>1
  <2>8. FALSE \in BOOLEAN
    OBVIOUS
  <2> HIDE DEF access
  <2>9. go[call] \in Rests(src, start) /\ Fits(src, go[call].hit, rest[k])
    BY <2>1, <2>2, <2>4, <2>5, <2>7, <2>8, AskQuery
  <2> QED BY <1>1, <1>3, <2>9
<1> QED BY <1>2, <1>3

\* The later segments: the result is found under the last one's name.
LEMMA ResolveRestKeeps ==
  ASSUME NEW src, NEW go, NEW r \in Nat, Serves(src, go, r), NEW start, NEW st,
         Sound(src, start), Leaves(src, start, st), NEW origin, NEW elem \in Scopes,
         NEW rest \in Seq(Names), NEW depth \in Nat, NEW lastAll \in BOOLEAN,
         Base(start) + 2 * Left(depth) + 1 < r
  PROVE  LET answer == ResolveRest(go, st, origin, elem, rest, depth, lastAll)
         IN  /\ answer \in Rests(src, start)
             /\ rest = <<>> => answer.hit = Found(elem)
             /\ rest # <<>> => Fits(src, answer.hit, rest[Len(rest)])
<1> DEFINE n == Len(rest)
           S == Rests(src, start)
           a == [st |-> st, hit |-> Found(elem)]
           G == [x \in S \X (1 .. n) |-> RestStep(go, origin, rest, depth, lastAll, x[1], x[2])]
           Is(f) == f = [k \in 0 .. n |->
                           IF k = 0 THEN a
                           ELSE RestStep(go, origin, rest, depth, lastAll, f[k - 1], k)]
           after == CHOOSE f : Is(f)
<1>1. n \in Nat /\ (rest = <<>> <=> n = 0)
  OBVIOUS
<1>2. a \in S
  BY DEF Leaves, Keeps, Sound, Rests, Answers, Results
<1>3. \A x \in S, k \in 1 .. n : RestStep(go, origin, rest, depth, lastAll, x, k) \in S
  BY RestStepKeeps
<1>4. ResolveRest(go, st, origin, elem, rest, depth, lastAll) = after[n]
  BY DEF ResolveRest
<1>5. \A x \in S, k \in 1 .. n :
        Fits(src, RestStep(go, origin, rest, depth, lastAll, x, k).hit, rest[k])
  BY RestStepKeeps
<1>6. a.hit = Found(elem) /\ n = Len(rest)
  OBVIOUS
<1> HIDE DEF S, a, n
<1>7. G \in [S \X (1 .. n) -> S]
  BY <1>3
<1>8. \A x \in S, k \in 1 .. n :
        G[<<x, k>>] = RestStep(go, origin, rest, depth, lastAll, x, k)
  OBVIOUS
<1> HIDE DEF G
<1>9. PICK f \in [0 .. n -> S] : IsLoop(f, a, G, n)
  BY <1>1, <1>2, <1>7, LoopExists
<1>10. Is(f)
  <2>1. \A k \in 0 .. n : k # 0 => k \in 1 .. n /\ f[k - 1] \in S
    BY <1>1, <1>9
  <2>2. \A k \in 0 .. n : k # 0 =>
          G[<<f[k - 1], k>>] = RestStep(go, origin, rest, depth, lastAll, f[k - 1], k)
    BY <1>8, <2>1
  <2> QED BY <1>9, <2>2 DEF IsLoop
<1>11. Is(after)
  BY <1>10
<1> HIDE DEF after
<1>12. after[0] = a
  BY <1>1, <1>11
<1>13. \A k \in 1 .. n : after[k] = RestStep(go, origin, rest, depth, lastAll, after[k - 1], k)
  <2>1. \A k \in 1 .. n : k \in 0 .. n /\ k # 0
    BY <1>1
  <2> QED BY <1>11, <2>1
<1>14. \A k \in 1 .. n : after[k - 1] \in S => after[k] \in S
  BY <1>3, <1>13
<1>15. after[n] \in S
  BY <1>1, <1>2, <1>12, <1>14, LoopKeeps
<1>16. n # 0 => Fits(src, after[n].hit, rest[n])
  <2> SUFFICES ASSUME n # 0 PROVE Fits(src, after[n].hit, rest[n])
    OBVIOUS
  <2>1. n \in 1 .. n /\ n - 1 \in Nat /\ \A k \in 1 .. (n - 1) : k \in 1 .. n
    BY <1>1
  <2>2. \A k \in 1 .. (n - 1) : after[k - 1] \in S => after[k] \in S
    BY <1>14, <2>1
  <2>3. after[n - 1] \in S
    <3> DEFINE m == n - 1
    <3>1. m \in Nat /\ \A k \in 1 .. m : after[k - 1] \in S => after[k] \in S
      BY <2>1, <2>2
    <3> HIDE DEF m
    <3>2. after[m] \in S
      BY <1>2, <1>12, <3>1, LoopKeeps
    <3> QED BY <3>2 DEF m
  <2> QED BY <1>5, <1>13, <2>1, <2>3
<1>17. n = 0 => after[n].hit = Found(elem)
  BY <1>6, <1>12
<1> QED BY <1>1, <1>4, <1>6, <1>15, <1>16, <1>17 DEF S

\* Where the walk outward of a query may be.
Walks(src, start, stamp, name) ==
  {x \in [st : Computations, hit : Results, at : Scopes \cup {None}] :
     Keeps(src, start, x.st, stamp, name) /\ Fits(src, x.hit, name)}

\* A scope is in a scope, or is the root.
LEMMA ParentType ==
  ASSUME NEW s \in Scopes
  PROVE  Parent[s] \in Scopes \cup {None}
BY ScopesAssumption

\* A scope further out.
LEMMA OutStepKeeps ==
  ASSUME NEW src, NEW go, NEW r \in Nat, Serves(src, go, r), NEW start, Sound(src, start),
         NEW name \in Names, NEW depth \in Nat, NEW stamp \in Nat,
         Ready(src, start, stamp, name), NEW last \in Walks(src, start, stamp, name),
         Base(start) + 2 * Left(depth) + 1 < r
  PROVE  OutStep(go, name, depth, stamp, last) \in Walks(src, start, stamp, name)
<1> DEFINE call == LookupCall(last.st, last.at, name, depth, stamp, "all", TRUE)
<1>1. OutStep(go, name, depth, stamp, last)
        = IF last.at = None \/ last.hit # Missing THEN last
          ELSE [st |-> go[call].st, hit |-> go[call].hit, at |-> Parent[last.at]]
  BY DEF OutStep
<1>2. CASE last.at = None \/ last.hit # Missing
  BY <1>1, <1>2
<1>3. CASE ~(last.at = None \/ last.hit # Missing)
  <2>1. last.at \in Scopes /\ Keeps(src, start, last.st, stamp, name)
    BY <1>3 DEF Walks
  <2>2. "all" \in {"all", "public"} /\ TRUE \in BOOLEAN
    OBVIOUS
  <2>3. /\ go[call] \in Answers /\ Keeps(src, start, go[call].st, stamp, name)
        /\ Fits(src, go[call].hit, name)
    BY <2>1, <2>2, AskLookup
  <2>4. Parent[last.at] \in Scopes \cup {None}
    BY <2>1, ParentType
  <2> HIDE DEF call
  <2> QED BY <1>1, <1>3, <2>3, <2>4 DEF Walks, Answers
<1> QED BY <1>2, <1>3

\* The first segment.
LEMMA WalkOutKeeps ==
  ASSUME NEW src, NEW go, NEW r \in Nat, Serves(src, go, r), NEW start, NEW st,
         Sound(src, start), NEW name \in Names, NEW stamp \in Nat, Ready(src, start, stamp, name),
         Keeps(src, start, st, stamp, name), NEW s \in Scopes, NEW depth \in Nat,
         Base(start) + 2 * Left(depth) + 1 < r
  PROVE  WalkOut(go, st, s, name, depth, stamp) \in Walks(src, start, stamp, name)
<1> DEFINE n == LastScope + 1
           S == Walks(src, start, stamp, name)
           a == [st |-> st, hit |-> Missing, at |-> s]
           G == [x \in S \X (1 .. n) |-> OutStep(go, name, depth, stamp, x[1])]
           Is(f) == f = [k \in 0 .. n |-> IF k = 0 THEN a
                                          ELSE OutStep(go, name, depth, stamp, f[k - 1])]
           after == CHOOSE f : Is(f)
<1>1. n \in Nat
  BY ScopesAssumption
<1>2. a \in S
  BY MissingFits, KeepsSound DEF Walks
<1>3. \A x \in S : OutStep(go, name, depth, stamp, x) \in S
  BY OutStepKeeps
<1>4. WalkOut(go, st, s, name, depth, stamp) = after[n]
  BY DEF WalkOut
<1> HIDE DEF S, a, n
<1>5. G \in [S \X (1 .. n) -> S]
  BY <1>3
<1>6. \A x \in S, k \in 1 .. n : G[<<x, k>>] = OutStep(go, name, depth, stamp, x)
  OBVIOUS
<1> HIDE DEF G
<1>7. PICK f \in [0 .. n -> S] : IsLoop(f, a, G, n)
  BY <1>1, <1>2, <1>5, LoopExists
<1>8. Is(f)
  <2>1. \A k \in 0 .. n : k # 0 => k \in 1 .. n /\ f[k - 1] \in S
    BY <1>1, <1>7
  <2>2. \A k \in 0 .. n : k # 0 =>
          G[<<f[k - 1], k>>] = OutStep(go, name, depth, stamp, f[k - 1])
    BY <1>6, <2>1
  <2> QED BY <1>7, <2>2 DEF IsLoop
<1>9. Is(after)
  BY <1>8
<1> HIDE DEF after
<1>10. after[0] = a
  BY <1>1, <1>9
<1>11. \A k \in 1 .. n : after[k] = OutStep(go, name, depth, stamp, after[k - 1])
  <2>1. \A k \in 1 .. n : k \in 0 .. n /\ k # 0
    BY <1>1
  <2> QED BY <1>9, <2>1
<1>12. \A k \in 1 .. n : after[k - 1] \in S => after[k] \in S
  BY <1>3, <1>11
<1>13. after[n] \in S
  BY <1>1, <1>2, <1>10, <1>12, LoopKeeps
<1> QED BY <1>4, <1>13 DEF S

\* What is found has the name the reference ends with, and the marks of no
\* query in progress are touched.
LEMMA ResolveResultKeeps ==
  ASSUME NEW src, NEW go, NEW r \in Nat, Serves(src, go, r), NEW st, Sound(src, st),
         NEW s \in Scopes, NEW qn \in Paths, NEW depth \in Nat, NEW lastAll \in BOOLEAN,
         Base(st) + 2 * Left(depth) + 1 < r
  PROVE  LET answer == ResolveResult(go, st, s, qn, depth, lastAll)
         IN  answer \in Rests(src, st) /\ Fits(src, answer.hit, Last(qn))
<1> DEFINE stamp  == st.stamp + 1
           next   == NextStamp(st)
           name   == Head(qn)
           first  == WalkOut(go, next, s, name, depth, stamp)
           answer == ResolveResult(go, st, s, qn, depth, lastAll)
<1>1. answer = IF depth > MaxDepth THEN [st |-> st, hit |-> Missing]
               ELSE IF first.hit.kind # "found" THEN [st |-> first.st, hit |-> first.hit]
               ELSE ResolveRest(go, first.st, s, first.hit.elem, Tail(qn), depth, lastAll)
  BY DEF ResolveResult
<1> HIDE DEF answer
<1>2. name \in Names /\ Tail(qn) \in Seq(Names)
  BY PathsType
<1>3. Leaves(src, st, next) /\ Ready(src, next, stamp, name)
  BY NextStampKeeps
<1>4. stamp \in Nat /\ st \in Computations
  <2>1. st \in Computations
    BY DEF Sound
  <2>2. st.stamp \in Nat
    BY <2>1, StampType
  <2> QED BY <2>1, <2>2
<1>5. st.stamp + 1 = stamp /\ next = NextStamp(st) /\ name = Head(qn)
  OBVIOUS
<1> HIDE DEF stamp, next, name
<1>6. Sound(src, next) /\ Keeps(src, next, next, stamp, name)
  BY <1>3, KeepsSound, KeepsItself DEF Leaves
<1>7. Base(next) + 2 * Left(depth) + 1 < r
  <2>1. Base(next) <= Base(st) /\ Base(next) \in Nat /\ Base(st) \in Nat
    BY <1>3, KeepsBase DEF Leaves
  <2>2. Left(depth) \in Nat
    BY LeftType
  <2> QED BY <2>1, <2>2
<1>8. first \in Walks(src, next, stamp, name)
  BY <1>2, <1>3, <1>4, <1>6, <1>7, WalkOutKeeps
<1> HIDE DEF first
<1>9. /\ first.st \in Computations /\ first.hit \in Results
      /\ Keeps(src, next, first.st, stamp, name) /\ Fits(src, first.hit, name)
  BY <1>8 DEF Walks
<1>10. Leaves(src, st, first.st)
  BY <1>5, <1>9, QueryLeaves
<1> DEFINE Well == answer \in Rests(src, st) /\ Fits(src, answer.hit, Last(qn))
<1>11. ASSUME depth > MaxDepth PROVE Well
  <2>1. Leaves(src, st, st)
    BY KeepsItself DEF Leaves
  <2> QED BY <1>1, <1>4, <1>11, <2>1, MissingFits DEF Rests, Answers
<1>12. ASSUME ~(depth > MaxDepth), first.hit.kind # "found" PROVE Well
  <2>1. Fits(src, first.hit, Last(qn))
    BY <1>12 DEF Fits
  <2> QED BY <1>1, <1>9, <1>10, <1>12, <2>1 DEF Rests, Answers
<1>13. ASSUME ~(depth > MaxDepth), first.hit.kind = "found" PROVE Well
  <2> DEFINE elem == first.hit.elem
  <2>1. elem \in Scopes /\ first.hit = Found(elem)
    BY <1>9, <1>13, FoundScope
  <2> HIDE DEF elem
  <2>2. answer = ResolveRest(go, first.st, s, elem, Tail(qn), depth, lastAll)
    BY <1>1, <1>13 DEF elem
  <2>3. /\ answer \in Rests(src, st)
        /\ Tail(qn) = <<>> => answer.hit = Found(elem)
        /\ Tail(qn) # <<>> => Fits(src, answer.hit, Tail(qn)[Len(Tail(qn))])
    <3> DEFINE rest  == Tail(qn)
               mid   == first.st
               found == ResolveRest(go, mid, s, elem, rest, depth, lastAll)
    <3>1. rest \in Seq(Names) /\ Leaves(src, st, mid)
      BY <1>2, <1>10
    <3> HIDE DEF rest, mid
    <3>2. /\ found \in Rests(src, st)
          /\ rest = <<>> => found.hit = Found(elem)
          /\ rest # <<>> => Fits(src, found.hit, rest[Len(rest)])
      BY <2>1, <3>1, ResolveRestKeeps
    <3> QED BY <2>2, <3>2 DEF rest, mid
  <2>4. Fits(src, answer.hit, Last(qn))
    BY <1>5, <1>9, <2>1, <2>3, PathsType
  <2> QED BY <2>3, <2>4
<1>14. Well
  BY <1>11, <1>12, <1>13
<1> QED BY <1>14 DEF answer

(****************************************************************************)
(* Fills.                                                                   *)
(****************************************************************************)
\* Where a fill of a scope may be: what its imports denote so far has their
\* names.
Progress(src, start, s) ==
  {x \in [st : Computations, outcomes : [1 .. Len(src.imports[s]) -> Scopes \cup {None}],
          changed : BOOLEAN] :
     Leaves(src, start, x.st) /\ OutcomesFit(src, s, x.outcomes)}

\* A scope that is being filled is given entries.
LEMMA SeededKeeps ==
  ASSUME NEW src, NEW start, NEW st, Leaves(src, start, st),
         NEW s \in Scopes, s \in Range(start.filling), NEW seeds \in Seq(Entry)
  PROVE  Leaves(src, start, [st EXCEPT !.cache[s] = seeds])
<1> DEFINE cache2 == [st.cache EXCEPT ![s] = seeds]
           then == [st EXCEPT !.cache = cache2]
<1>1. st \in Computations /\ Sound(src, st)
  BY KeepsSound DEF Leaves
<1>2. st.cache \in [Scopes -> Seq(Entry) \cup {None}]
  BY <1>1 DEF Computations
<1>3. /\ cache2 \in [Scopes -> Seq(Entry) \cup {None}] /\ cache2[s] # None
      /\ \A x \in Scopes : x # s => cache2[x] = st.cache[x]
  <2>1. seeds # None
    BY ScopesAssumption
  <2> QED BY <1>2, <2>1
<1> HIDE DEF cache2
<1>4. /\ then \in Computations /\ then.cache = cache2
      /\ then.targets = st.targets /\ then.missed = st.missed /\ then.endless = st.endless
      /\ then.filling = st.filling /\ then.frames = st.frames
      /\ then.visit = st.visit /\ then.stamp = st.stamp
  BY <1>1, <1>3 DEF Computations
<1> HIDE DEF then
<1>5. st.filling = start.filling
  BY DEF Leaves, Keeps
<1>6. \A x \in Scopes : x \notin Range(then.filling) => Settled(src, then, x)
  <2> SUFFICES ASSUME NEW x \in Scopes, x \notin Range(then.filling)
               PROVE  Settled(src, then, x)
    OBVIOUS
  <2>1. x # s /\ Settled(src, st, x)
    BY <1>1, <1>4, <1>5 DEF Sound
  <2> QED BY <1>3, <1>4, <2>1 DEF Settled, Filled
<1>7. \A x \in Scopes : x \in Range(then.filling) => then.cache[x] # None
  BY <1>1, <1>3, <1>4 DEF Sound
<1>8. Sound(src, then)
  BY <1>1, <1>4, <1>6, <1>7 DEF Sound
<1>9. Marks(src, start, then, -1, None)
  BY <1>4 DEF Leaves, Keeps, Marks
<1>10. Leaves(src, start, then)
  BY <1>3, <1>4, <1>5, <1>8, <1>9 DEF Leaves, Keeps
<1> QED BY <1>10 DEF then, cache2

\* One of the imports is resolved.
LEMMA ResolveEntryKeeps ==
  ASSUME NEW src \in Workspaces, NEW go, NEW r \in Nat, Serves(src, go, r), NEW start,
         Sound(src, start), NEW s \in Scopes, s \in Range(start.filling),
         NEW step \in Progress(src, start, s),
         NEW i \in 1 .. Len(src.imports[s]), Base(start) + 2 * Left(0) + 2 < r
  PROVE  ResolveEntry(src, go, s, step, i) \in Progress(src, start, s)
<1> DEFINE entries == src.imports[s]
           target  == entries[i].target
           seeded  == [step.st EXCEPT !.cache[s] = Seeds(entries, step.outcomes, i)]
           answer  == go[ResolveCall(seeded, s, target, 0, FALSE)]
           outcome == IF answer.hit.kind = "found" THEN answer.hit.elem ELSE None
           after   == [step.outcomes EXCEPT ![i] = outcome]
<1>1. entries \in Seq(Imports)
  BY DEF Workspaces
<1>2. target \in Paths
  <2>1. entries[i] \in Imports
    BY <1>1
  <2> QED BY <2>1 DEF Imports
<1>3. /\ step.outcomes \in [1 .. Len(entries) -> Scopes \cup {None}]
      /\ step.changed \in BOOLEAN /\ Leaves(src, start, step.st)
      /\ OutcomesFit(src, s, step.outcomes)
  BY DEF Progress
<1>4. Seeds(entries, step.outcomes, i) \in Seq(Entry)
  BY <1>1, <1>3, SeedsType
<1>5. Leaves(src, start, seeded)
  BY <1>3, <1>4, SeededKeeps
<1>6. ResolveEntry(src, go, s, step, i)
        = [st |-> answer.st, outcomes |-> after,
           changed |-> step.changed \/ outcome # step.outcomes[i]]
  BY DEF ResolveEntry
<1> HIDE DEF seeded
<1>7. answer \in Answers /\ Leaves(src, start, answer.st) /\ Fits(src, answer.hit, Last(target))
  <2>1. 0 \in Nat /\ FALSE \in BOOLEAN
    OBVIOUS
  <2> HIDE DEF entries, target
  <2> QED BY <1>2, <1>5, <2>1, AskResolve DEF Leaves
<1> HIDE DEF answer
<1>8. answer.hit \in Results /\ answer.st \in Computations
  BY <1>7 DEF Answers
<1>9. /\ outcome \in Scopes \cup {None}
      /\ outcome # None => Fits(src, Found(outcome), Last(target))
  BY <1>7, <1>8, FoundScope
<1> HIDE DEF outcome
<1>10. after \in [1 .. Len(entries) -> Scopes \cup {None}]
  BY <1>3, <1>9
<1>11. OutcomesFit(src, s, after)
  <2> SUFFICES ASSUME NEW j \in 1 .. Len(src.imports[s]), after[j] # None
               PROVE  Fits(src, Found(after[j]), Last(src.imports[s][j].target))
    BY DEF OutcomesFit
  <2>1. CASE j = i
    BY <1>3, <1>9, <2>1
  <2>2. CASE j # i
    BY <1>3, <2>2 DEF OutcomesFit
  <2> QED BY <2>1, <2>2
<1>12. (step.changed \/ outcome # step.outcomes[i]) \in BOOLEAN
  OBVIOUS
<1> HIDE DEF after
<1> QED BY <1>6, <1>7, <1>8, <1>10, <1>11, <1>12 DEF Progress

\* As many outcomes as a scope has imports.
LEMMA LengthOf ==
  ASSUME NEW n \in Nat, NEW T, NEW q \in [1 .. n -> T]
  PROVE  q \in Seq(T) /\ Len(q) = n
BY SeqDef

\* All of them are resolved, one after the other.
LEMMA PassKeeps ==
  ASSUME NEW src \in Workspaces, NEW go, NEW r \in Nat, Serves(src, go, r), NEW start,
         Sound(src, start), NEW s \in Scopes, s \in Range(start.filling),
         NEW last \in Progress(src, start, s),
         Base(start) + 2 * Left(0) + 2 < r
  PROVE  Pass(src, go, s, last.st, last.outcomes) \in Progress(src, start, s)
<1> DEFINE n == Len(src.imports[s])
           S == Progress(src, start, s)
           a == [st |-> last.st, outcomes |-> last.outcomes, changed |-> FALSE]
           G == [x \in S \X (1 .. n) |-> ResolveEntry(src, go, s, x[1], x[2])]
           Is(f) == f = [k \in 0 .. n |-> IF k = 0 THEN a
                                          ELSE ResolveEntry(src, go, s, f[k - 1], k)]
           after == CHOOSE f : Is(f)
<1>1. n \in Nat
  BY DEF Workspaces
<1>2. a \in S
  BY DEF Progress
<1>3. \A x \in S, k \in 1 .. n : ResolveEntry(src, go, s, x, k) \in S
  BY ResolveEntryKeeps
<1>4. Pass(src, go, s, last.st, last.outcomes) = after[n]
  <2>1. last.outcomes \in [1 .. n -> Scopes \cup {None}]
    BY DEF Progress
  <2>2. Len(last.outcomes) = n
    BY <1>1, <2>1, LengthOf
  <2> HIDE DEF n
  <2> QED BY <2>2 DEF Pass
<1> HIDE DEF S, a, n
<1>5. G \in [S \X (1 .. n) -> S]
  BY <1>3
<1>6. \A x \in S, k \in 1 .. n : G[<<x, k>>] = ResolveEntry(src, go, s, x, k)
  OBVIOUS
<1> HIDE DEF G
<1>7. PICK f \in [0 .. n -> S] : IsLoop(f, a, G, n)
  BY <1>1, <1>2, <1>5, LoopExists
<1>8. Is(f)
  <2>1. \A k \in 0 .. n : k # 0 => k \in 1 .. n /\ f[k - 1] \in S
    BY <1>1, <1>7
  <2>2. \A k \in 0 .. n : k # 0 => G[<<f[k - 1], k>>] = ResolveEntry(src, go, s, f[k - 1], k)
    BY <1>6, <2>1
  <2> QED BY <1>7, <2>2 DEF IsLoop
<1>9. Is(after)
  BY <1>8
<1> HIDE DEF after
<1>10. after[0] = a
  BY <1>1, <1>9
<1>11. \A k \in 1 .. n : after[k] = ResolveEntry(src, go, s, after[k - 1], k)
  <2>1. \A k \in 1 .. n : k \in 0 .. n /\ k # 0
    BY <1>1
  <2> QED BY <1>9, <2>1
<1>12. \A k \in 1 .. n : after[k - 1] \in S => after[k] \in S
  BY <1>3, <1>11
<1>13. after[n] \in S
  BY <1>1, <1>2, <1>10, <1>12, LoopKeeps
<1> QED BY <1>4, <1>13 DEF S, n

\* The passes.
LEMMA PassesKeep ==
  ASSUME NEW src \in Workspaces, NEW go, NEW r \in Nat, Serves(src, go, r), NEW start,
         Sound(src, start), NEW s \in Scopes, s \in Range(start.filling),
         Base(start) + 2 * Left(0) + 2 < r
  PROVE  Passes(src, go, s, start) \in Progress(src, start, s)
<1> DEFINE n == Len(src.imports[s])
           S == Progress(src, start, s)
           a == [st |-> start, outcomes |-> Unresolved(n), changed |-> TRUE]
           G == [x \in S \X (1 .. (n + 1)) |-> Repeated(src, go, s, x[1])]
           Is(f) == f = [k \in 0 .. (n + 1) |-> IF k = 0 THEN a ELSE Repeated(src, go, s, f[k - 1])]
           after == CHOOSE f : Is(f)
<1>1. n \in Nat /\ n + 1 \in Nat
  BY DEF Workspaces
<1>2. a \in S
  <2>1. Unresolved(n) \in [1 .. n -> Scopes \cup {None}]
    BY DEF Unresolved
  <2>2. Leaves(src, start, start) /\ start \in Computations
    BY KeepsItself DEF Sound, Leaves
  <2>3. OutcomesFit(src, s, Unresolved(n))
    BY DEF OutcomesFit, Unresolved
  <2> QED BY <2>1, <2>2, <2>3 DEF Progress
<1>3. \A x \in S, k \in 1 .. (n + 1) : Repeated(src, go, s, x) \in S
  BY PassKeeps DEF Repeated
<1>4. Passes(src, go, s, start) = after[n + 1]
  BY DEF Passes
<1> HIDE DEF S, a, n
<1>5. G \in [S \X (1 .. (n + 1)) -> S]
  BY <1>3
<1>6. \A x \in S, k \in 1 .. (n + 1) : G[<<x, k>>] = Repeated(src, go, s, x)
  OBVIOUS
<1> HIDE DEF G
<1>7. PICK f \in [0 .. (n + 1) -> S] : IsLoop(f, a, G, n + 1)
  BY <1>1, <1>2, <1>5, LoopExists
<1>8. Is(f)
  <2>1. \A k \in 0 .. (n + 1) : k # 0 => k \in 1 .. (n + 1) /\ f[k - 1] \in S
    BY <1>1, <1>7
  <2>2. \A k \in 0 .. (n + 1) : k # 0 => G[<<f[k - 1], k>>] = Repeated(src, go, s, f[k - 1])
    BY <1>6, <2>1
  <2> QED BY <1>7, <2>2 DEF IsLoop
<1>9. Is(after)
  BY <1>8
<1> HIDE DEF after
<1>10. after[0] = a
  BY <1>1, <1>9
<1>11. \A k \in 1 .. (n + 1) : after[k] = Repeated(src, go, s, after[k - 1])
  <2>1. \A k \in 1 .. (n + 1) : k \in 0 .. (n + 1) /\ k # 0
    BY <1>1
  <2> QED BY <1>9, <2>1
<1>12. \A k \in 1 .. (n + 1) : after[k - 1] \in S => after[k] \in S
  BY <1>3, <1>11
<1>13. after[n + 1] \in S
  BY <1>1, <1>2, <1>10, <1>12, LoopKeeps
<1> QED BY <1>4, <1>13 DEF S, n

\* The scope that is being filled is no longer open, and the fill is one more
\* that is in progress.
LEMMA BegunSound ==
  ASSUME NEW src, NEW st, Sound(src, st), NEW s \in Scopes, st.cache[s] = None
  PROVE  LET begun == [Begun(st, s) EXCEPT !.active = {}]
         IN /\ Sound(src, begun)
            /\ begun.filling = Append(st.filling, s) /\ s \notin Range(st.filling)
            /\ \A x \in Scopes : x # s => /\ begun.cache[x] = st.cache[x]
                                          /\ begun.targets[x] = st.targets[x]
            /\ s \in Range(begun.filling) /\ begun.targets = st.targets
            /\ Open(begun) = Open(st) \ {s}
            /\ begun.visit = st.visit /\ begun.stamp = st.stamp
<1> DEFINE cache2 == [st.cache EXCEPT ![s] = <<>>]
           fill   == [fill |-> Len(st.frames) + 1, names |-> {}]
           missed2 == [st.missed EXCEPT ![s] = fill]
           begun  == [st EXCEPT !.cache = cache2, !.missed = missed2,
                                !.frames = Append(st.frames, st.misses), !.misses = {},
                                !.filling = Append(st.filling, s), !.active = {}]
<1>1. st \in Computations
  BY DEF Sound
<1>2. /\ st.cache \in [Scopes -> Seq(Entry) \cup {None}]
      /\ st.missed \in [Scopes -> [fill : Nat, names : SUBSET Names]]
      /\ st.frames \in Seq(SUBSET Names) /\ st.filling \in Seq(Scopes)
      /\ st.misses \in SUBSET Names
  BY <1>1 DEF Computations
<1>3. [Begun(st, s) EXCEPT !.active = {}] = begun
  BY <1>1 DEF Begun, Computations
<1>4. /\ cache2 \in [Scopes -> Seq(Entry) \cup {None}] /\ cache2[s] # None
      /\ \A x \in Scopes : x # s => cache2[x] = st.cache[x]
  <2>1. <<>> \in Seq(Entry) /\ None \notin Seq(Entry)
    BY ScopesAssumption
  <2>2. <<>> # None
    BY <2>1
  <2> QED BY <1>2, <2>1, <2>2
<1>5. /\ missed2 \in [Scopes -> [fill : Nat, names : SUBSET Names]]
      /\ \A x \in Scopes : x # s => missed2[x] = st.missed[x]
  <2>1. fill \in [fill : Nat, names : SUBSET Names]
    BY <1>2
  <2> HIDE DEF fill
  <2> QED BY <1>2, <2>1
<1>6. /\ Append(st.frames, st.misses) \in Seq(SUBSET Names)
      /\ Append(st.filling, s) \in Seq(Scopes)
      /\ Len(Append(st.frames, st.misses)) = Len(st.frames) + 1
      /\ Len(Append(st.filling, s)) = Len(st.filling) + 1
  BY <1>2
<1>7. Range(Append(st.filling, s)) = Range(st.filling) \cup {s}
  BY <1>2, LastOne
<1>8. s \notin Range(st.filling)
  BY DEF Sound
<1> HIDE DEF cache2, missed2
<1>9. /\ begun \in Computations /\ begun.cache = cache2 /\ begun.targets = st.targets
      /\ begun.missed = missed2 /\ begun.endless = st.endless
      /\ begun.filling = Append(st.filling, s) /\ begun.frames = Append(st.frames, st.misses)
      /\ begun.visit = st.visit /\ begun.stamp = st.stamp
  BY <1>1, <1>4, <1>5, <1>6 DEF Computations
<1> HIDE DEF begun
<1>10. \A x \in Scopes : x \notin Range(begun.filling) => Settled(src, begun, x)
  <2> SUFFICES ASSUME NEW x \in Scopes, x \notin Range(begun.filling)
               PROVE  Settled(src, begun, x)
    OBVIOUS
  <2>1. x # s /\ Settled(src, st, x)
    BY <1>7, <1>9 DEF Sound
  <2> QED BY <1>4, <1>5, <1>9, <2>1 DEF Settled, Filled
<1>11. \A x \in Scopes : x \in Range(begun.filling) => begun.cache[x] # None
  BY <1>4, <1>7, <1>9 DEF Sound
<1>12. Sound(src, begun)
  BY <1>6, <1>9, <1>10, <1>11 DEF Sound
<1>13. Open(begun) = Open(st) \ {s}
  BY <1>4, <1>9 DEF Open
<1> QED BY <1>3, <1>4, <1>7, <1>8, <1>9, <1>12, <1>13

\* A sequence without its last element.
LEMMA FrontOf ==
  ASSUME NEW S, NEW q \in Seq(S), q # <<>>
  PROVE  Front(q) \in Seq(S) /\ Len(Front(q)) = Len(q) - 1 /\ Last(q) \in S
<1>1. Len(q) \in Nat \ {0} /\ \A i \in 1 .. Len(q) - 1 : q[i] \in S
  OBVIOUS
<1>2. /\ SubSeq(q, 1, Len(q) - 1) \in Seq(S)
      /\ Len(SubSeq(q, 1, Len(q) - 1))
           = IF 1 <= Len(q) - 1 THEN (Len(q) - 1) - 1 + 1 ELSE 0
  BY <1>1, SubSeqProperties
<1>3. Len(SubSeq(q, 1, Len(q) - 1)) = Len(q) - 1
  <2> DEFINE n == Len(q)
             m == Len(SubSeq(q, 1, Len(q) - 1))
  <2>1. n \in Nat \ {0} /\ m = IF 1 <= n - 1 THEN (n - 1) - 1 + 1 ELSE 0
    BY <1>1, <1>2
  <2> HIDE DEF m, n
  <2>2. m = n - 1
    BY <2>1
  <2> QED BY <2>2 DEF m, n
<1>4. q[Len(q)] \in S
  BY <1>1
<1> QED BY <1>2, <1>3, <1>4, Zenon DEF Front, Last

\* What was appended is what Front takes off.
LEMMA FrontOfAppend ==
  ASSUME NEW S, NEW q \in Seq(S), NEW x \in S
  PROVE  Front(Append(q, x)) = q
<1>1. /\ Append(q, x) \in Seq(S) /\ Len(Append(q, x)) = Len(q) + 1
      /\ \A i \in 1 .. Len(q) : Append(q, x)[i] = q[i]
  OBVIOUS
<1>2. /\ Front(Append(q, x)) \in Seq(S) /\ Len(Front(Append(q, x))) = Len(q)
      /\ \A i \in 1 .. Len(q) : Front(Append(q, x))[i] = Append(q, x)[i]
  BY <1>1 DEF Front
<1> QED BY <1>1, <1>2, SeqEqual

\* The fill is over: what the imports denote is there for good, and whatever
\* was filled before it is as it was.
LEMMA EndedKeeps ==
  ASSUME NEW src \in Workspaces, NEW st, Sound(src, st), NEW s \in Scopes, st.cache[s] = None,
         NEW outcomes \in [1 .. Len(src.imports[s]) -> Scopes \cup {None}], NEW last,
         Leaves(src, [Begun(st, s) EXCEPT !.active = {}], last), OutcomesFit(src, s, outcomes)
  PROVE  LET ended == [Ended(last, s, src.imports[s], outcomes) EXCEPT !.active = st.active]
         IN Leaves(src, st, ended) /\ ended \in Computations /\ ended.cache[s] # None
<1> DEFINE begun == [Begun(st, s) EXCEPT !.active = {}]
           seeds == Seeds(src.imports[s], outcomes, 0)
           cache2 == [last.cache EXCEPT ![s] = seeds]
           targets2 == [last.targets EXCEPT ![s] = outcomes]
           fill == [fill |-> 0, names |-> last.misses]
           missed2 == [last.missed EXCEPT ![s] = fill]
           misses2 == last.misses \cup Last(last.frames)
           ended == [last EXCEPT !.cache = cache2, !.targets = targets2, !.missed = missed2,
                                 !.misses = misses2, !.frames = Front(last.frames),
                                 !.filling = Front(last.filling), !.active = st.active]
<1>1. /\ Sound(src, begun) /\ begun.filling = Append(st.filling, s)
      /\ s \notin Range(st.filling)
      /\ \A x \in Scopes : x # s => /\ begun.cache[x] = st.cache[x]
                                    /\ begun.targets[x] = st.targets[x]
      /\ begun.visit = st.visit /\ begun.stamp = st.stamp
  BY BegunSound
<1> HIDE DEF begun
<1>2. Keeps(src, begun, last, -1, None)
  BY DEF begun, Leaves
<1>3. st \in Computations /\ last \in Computations /\ Sound(src, last)
  BY <1>2 DEF Keeps, Sound
<1>4. /\ last.cache \in [Scopes -> Seq(Entry) \cup {None}]
      /\ last.targets \in [Scopes -> Seq(Scopes \cup {None}) \cup {None}]
      /\ last.missed \in [Scopes -> [fill : Nat, names : SUBSET Names]]
      /\ last.frames \in Seq(SUBSET Names) /\ last.misses \in SUBSET Names
      /\ st.filling \in Seq(Scopes) /\ st.active \in SUBSET (Scopes \X (Nat \ {0}))
  BY <1>3 DEF Computations
<1>5. last.filling = Append(st.filling, s)
  BY <1>1, <1>2 DEF Keeps
<1>6. Len(last.frames) = Len(st.filling) + 1
  BY <1>3, <1>4, <1>5 DEF Sound
<1>7. /\ Front(last.filling) = st.filling
      /\ Front(last.frames) \in Seq(SUBSET Names) /\ Len(Front(last.frames)) = Len(st.filling)
      /\ Last(last.frames) \in SUBSET Names
  <2>1. Front(Append(st.filling, s)) = st.filling
    BY <1>4, FrontOfAppend
  <2>2. last.frames # <<>>
    BY <1>4, <1>6
  <2>3. /\ Front(last.frames) \in Seq(SUBSET Names)
        /\ Len(Front(last.frames)) = Len(last.frames) - 1
        /\ Last(last.frames) \in SUBSET Names
    BY <1>4, <2>2, FrontOf
  <2> QED BY <1>4, <1>5, <1>6, <2>1, <2>3
<1>8. seeds \in Seq(Entry) /\ seeds # None
  <2>1. src.imports[s] \in Seq(Imports)
    BY DEF Workspaces
  <2>2. seeds \in Seq(Entry)
    BY <2>1, SeedsType
  <2> QED BY <2>2, ScopesAssumption
<1>9. outcomes \in Seq(Scopes \cup {None})
  <2>1. Len(src.imports[s]) \in Nat
    BY DEF Workspaces
  <2> QED BY <2>1, LengthOf
<1>10. Ended(last, s, src.imports[s], outcomes)
         = [last EXCEPT !.cache = cache2, !.targets = targets2, !.missed = missed2,
                        !.misses = misses2, !.frames = Front(last.frames),
                        !.filling = Front(last.filling)]
  BY DEF Ended
<1>11. [Ended(last, s, src.imports[s], outcomes) EXCEPT !.active = st.active] = ended
  BY <1>3, <1>10 DEF Computations
<1> HIDE DEF seeds
<1>12. /\ cache2 \in [Scopes -> Seq(Entry) \cup {None}] /\ cache2[s] = seeds
       /\ \A x \in Scopes : x # s => cache2[x] = last.cache[x]
  BY <1>4, <1>8
<1>13. /\ targets2 \in [Scopes -> Seq(Scopes \cup {None}) \cup {None}] /\ targets2[s] = outcomes
       /\ \A x \in Scopes : x # s => targets2[x] = last.targets[x]
  BY <1>4, <1>9
<1>14. /\ missed2 \in [Scopes -> [fill : Nat, names : SUBSET Names]] /\ missed2[s].fill = 0
       /\ \A x \in Scopes : x # s => missed2[x] = last.missed[x]
  <2>1. fill \in [fill : Nat, names : SUBSET Names] /\ fill.fill = 0
    BY <1>4
  <2> HIDE DEF fill
  <2> QED BY <1>4, <2>1
<1>15. misses2 \in SUBSET Names
  BY <1>4, <1>7
<1> HIDE DEF cache2, targets2, missed2, misses2
<1>16. /\ ended \in Computations /\ ended.cache = cache2 /\ ended.targets = targets2
       /\ ended.missed = missed2 /\ ended.endless = last.endless
       /\ ended.filling = st.filling /\ ended.frames = Front(last.frames)
       /\ ended.visit = last.visit /\ ended.stamp = last.stamp
  BY <1>3, <1>4, <1>7, <1>12, <1>13, <1>14, <1>15 DEF Computations
<1> HIDE DEF ended
<1>17. Range(last.filling) = Range(st.filling) \cup {s}
  BY <1>4, <1>5, LastOne
<1>18. \A x \in Scopes : x \in Range(ended.filling) => ended.cache[x] # None
  BY <1>1, <1>3, <1>12, <1>16, <1>17 DEF Sound
<1>19. \A x \in Scopes : x \notin Range(ended.filling) => Settled(src, ended, x)
  <2> SUFFICES ASSUME NEW x \in Scopes, x \notin Range(ended.filling)
               PROVE  Settled(src, ended, x)
    OBVIOUS
  <2>1. CASE x = s
    <3>1. ended.targets[x] = outcomes /\ ended.cache[x] = seeds /\ ended.missed[x].fill = 0
      BY <1>12, <1>13, <1>14, <1>16, <2>1
    <3> QED BY <1>8, <2>1, <3>1 DEF Settled, Filled, seeds
  <2>2. CASE x # s
    <3>1. Settled(src, last, x)
      BY <1>3, <1>16, <1>17, <2>2 DEF Sound
    <3>2. /\ ended.targets[x] = last.targets[x] /\ ended.cache[x] = last.cache[x]
          /\ ended.missed[x] = last.missed[x]
      BY <1>12, <1>13, <1>14, <1>16, <2>2
    <3> QED BY <3>1, <3>2 DEF Settled, Filled
  <2> QED BY <2>1, <2>2
<1>20. Sound(src, ended)
  BY <1>3, <1>7, <1>16, <1>18, <1>19 DEF Sound
<1>21. ASSUME NEW x \in Scopes, x \notin Range(st.filling), st.cache[x] # None
       PROVE  ended.cache[x] = st.cache[x] /\ ended.targets[x] = st.targets[x]
  <2>1. x # s
    BY <1>21
  <2>2. x \notin Range(begun.filling) /\ begun.cache[x] # None
    BY <1>1, <1>2, <1>17, <1>21, <2>1 DEF Keeps
  <2>3. last.cache[x] = begun.cache[x] /\ last.targets[x] = begun.targets[x]
    BY <1>2, <2>2 DEF Keeps
  <2> QED BY <1>1, <1>12, <1>13, <1>16, <2>1, <2>3
<1>22. Marks(src, st, ended, -1, None)
  BY <1>1, <1>2, <1>16 DEF Keeps, Marks
<1>23. Leaves(src, st, ended)
  BY <1>16, <1>20, <1>21, <1>22 DEF Leaves, Keeps
<1> QED BY <1>8, <1>11, <1>12, <1>16, <1>23

\* A scope's imports are filled.
LEMMA FillKeeps ==
  ASSUME NEW src \in Workspaces, NEW go, NEW st, Sound(src, st), Serves(src, go, Base(st)),
         NEW s \in Scopes, st.cache[s] = None
  PROVE  /\ Fill(src, go, st, s) \in Rests(src, st)
         /\ Fill(src, go, st, s).st.cache[s] # None
<1> DEFINE begun == [Begun(st, s) EXCEPT !.active = {}]
           pass  == Passes(src, go, s, begun)
           ended == [Ended(pass.st, s, src.imports[s], pass.outcomes) EXCEPT !.active = st.active]
<1>1. Sound(src, begun) /\ s \in Range(begun.filling) /\ Open(begun) = Open(st) \ {s}
  BY BegunSound
<1>2. Fill(src, go, st, s) = [st |-> ended, hit |-> Missing]
  BY DEF Fill, Resumption
<1> HIDE DEF begun
<1>3. Base(begun) + 2 * Left(0) + 2 < Base(st) /\ Base(st) \in Nat
  <2>1. s \in Open(st)
    BY DEF Open
  <2>2. Base(begun) + WithinFill <= Base(st)
    BY <1>1, <2>1, BaseFilled
  <2>3. Left(0) \in Nat /\ Left(0) <= MaxDepth + 1
    BY LeftType
  <2>4. Base(begun) \in Nat /\ Base(st) \in Nat
    BY BaseType
  <2> QED BY <2>2, <2>3, <2>4, ScopesAssumption DEF WithinFill
<1>4. pass \in Progress(src, begun, s)
  BY <1>1, <1>3, PassesKeep
<1> HIDE DEF pass
<1>5. /\ pass.outcomes \in [1 .. Len(src.imports[s]) -> Scopes \cup {None}]
      /\ Leaves(src, begun, pass.st) /\ OutcomesFit(src, s, pass.outcomes)
  BY <1>4 DEF Progress
<1>6. Leaves(src, st, ended) /\ ended \in Computations /\ ended.cache[s] # None
  BY <1>5, EndedKeeps DEF begun
<1> HIDE DEF ended
<1>7. [st |-> ended, hit |-> Missing] \in Rests(src, st)
  BY <1>6, MissingFits DEF Rests, Answers
<1> QED BY <1>2, <1>6, <1>7

\* The misses that are read with a scope's entries.
LEMMA NotedType ==
  ASSUME NEW src, NEW st, Sound(src, st), NEW s \in Scopes
  PROVE  Noted(st, s) \in SUBSET Names
<1>1. /\ st.missed \in [Scopes -> [fill : Nat, names : SUBSET Names]]
      /\ st.frames \in Seq(SUBSET Names)
  BY DEF Sound, Computations
<1>2. \A i \in DOMAIN st.frames : st.frames[i] \in SUBSET Names
  BY <1>1
<1>3. st.missed[s].names \in SUBSET Names
  BY <1>1
<1> QED BY <1>2, <1>3 DEF Noted

\* A scope's entries are read, or filled first.
LEMMA ImportScopesKeeps ==
  ASSUME NEW src, NEW go, NEW r \in Nat, Serves(src, go, r), NEW start, NEW st,
         Sound(src, start), NEW stamp, NEW name, Keeps(src, start, st, stamp, name),
         NEW s \in Scopes, Base(start) < r
  PROVE  /\ Keeps(src, start, ImportScopes(go, st, s), stamp, name)
         /\ ImportScopes(go, st, s) \in Computations
         /\ ImportScopes(go, st, s).cache[s] \in Seq(Entry)
<1>1. Sound(src, st) /\ st \in Computations
  BY KeepsSound
<1>2. CASE st.cache[s] = None
  <2>1. ImportScopes(go, st, s) = go[FillCall(st, s)].st
    BY <1>2 DEF ImportScopes
  <2>2. /\ go[FillCall(st, s)] \in Answers
        /\ Keeps(src, start, go[FillCall(st, s)].st, stamp, name)
        /\ go[FillCall(st, s)].st.cache[s] # None
    BY <1>2, AskFill
  <2>3. go[FillCall(st, s)].st \in Computations
    BY <2>2 DEF Answers
  <2> QED BY <2>1, <2>2, <2>3 DEF Computations
<1>3. CASE st.cache[s] # None
  <2> DEFINE misses == st.misses \cup Noted(st, s)
             torn == st.torn \/ Contains(Front(<<None>> \o st.filling), s)
             then == [st EXCEPT !.misses = misses, !.torn = torn]
  <2>1. ImportScopes(go, st, s) = then
    BY <1>3 DEF ImportScopes
  <2>2. misses \in SUBSET Names
    BY <1>1, NotedType DEF Computations
  <2>3. torn \in BOOLEAN
    OBVIOUS
  <2> HIDE DEF misses, torn
  <2>4. Leaves(src, st, then) /\ then.cache = st.cache
    BY <1>1, <2>2, <2>3, MissesLeave DEF Computations
  <2> HIDE DEF then
  <2>5. Keeps(src, start, then, stamp, name) /\ then \in Computations
    BY <2>4, LeavesOn, KeepsSound
  <2>6. st.cache[s] \in Seq(Entry)
    BY <1>1, <1>3 DEF Computations
  <2> QED BY <2>1, <2>4, <2>5, <2>6
<1> QED BY <1>2, <1>3

(****************************************************************************)
(* One scope.                                                               *)
(****************************************************************************)
\* What a query comes to.
Outcomes(src, start, stamp, name) ==
  {answer \in Answers : /\ Keeps(src, start, answer.st, stamp, name)
                        /\ Fits(src, answer.hit, name)}

\* A member import has the name its target ends with.
LEMMA MemberStepKeeps ==
  ASSUME NEW src \in Workspaces, NEW go, NEW r \in Nat, Serves(src, go, r), NEW start,
         Sound(src, start), NEW s \in Scopes, NEW name, NEW depth \in Nat, NEW access, NEW stamp,
         NEW last \in Outcomes(src, start, stamp, name), NEW i \in 1 .. Len(src.members[s]),
         Base(start) + 2 * Left(depth + 1) + 2 < r
  PROVE  MemberStep(src, go, s, name, depth, access, last, i)
           \in Outcomes(src, start, stamp, name)
<1> DEFINE member == src.members[s][i]
           active == last.st.active \cup {<<s, i>>}
           during == [last.st EXCEPT !.active = active]
           call   == ResolveCall(during, s, member.target, depth + 1, member.all)
           then   == [go[call].st EXCEPT !.active = go[call].st.active \ {<<s, i>>}]
           hides  == \/ member.target[Len(member.target)] # name
                     \/ ~Admits(access, member.public)
                     \/ <<s, i>> \in last.st.active
<1>1. MemberStep(src, go, s, name, depth, access, last, i)
        = IF hides THEN last ELSE [st |-> then, hit |-> Merge(last.hit, go[call].hit)]
  BY DEF MemberStep
<1>2. /\ Keeps(src, start, last.st, stamp, name) /\ last.hit \in Results
      /\ Sound(src, last.st) /\ Fits(src, last.hit, name)
  BY KeepsSound DEF Outcomes, Answers
<1>3. member.target \in Paths /\ member.all \in BOOLEAN /\ i \in Nat \ {0}
  <2>1. src.members[s] \in Seq(Imports)
    BY DEF Workspaces
  <2>2. member \in Imports
    BY <2>1
  <2> QED BY <2>2 DEF Imports
<1>4. active \in SUBSET (Scopes \X (Nat \ {0}))
  <2>1. last.st.active \in SUBSET (Scopes \X (Nat \ {0}))
    BY <1>2 DEF Sound, Computations
  <2> QED BY <1>3, <2>1
<1>5. ~hides => Last(member.target) = name
  BY DEF Last
<1> HIDE DEF active
<1>6. Keeps(src, start, during, stamp, name)
  <2>1. Leaves(src, last.st, during)
    BY <1>2, <1>4, ActiveLeaves
  <2> QED BY <1>2, <2>1, LeavesOn
<1> HIDE DEF during, member, hides
<1>7. /\ go[call] \in Answers /\ Keeps(src, start, go[call].st, stamp, name)
      /\ Fits(src, go[call].hit, Last(member.target))
  <2>1. depth + 1 \in Nat
    OBVIOUS
  <2> DEFINE target == member.target
             all    == member.all
             deeper == depth + 1
  <2> HIDE DEF target, all, deeper
  <2>2. /\ target \in Paths /\ all \in BOOLEAN /\ deeper \in Nat
        /\ Base(start) + 2 * Left(deeper) + 2 < r
        /\ call = ResolveCall(during, s, target, deeper, all)
    BY <1>3, <2>1 DEF target, all, deeper
  <2> HIDE DEF call
  <2>3. /\ go[call] \in Answers /\ Keeps(src, start, go[call].st, stamp, name)
        /\ Fits(src, go[call].hit, Last(target))
    BY <1>6, <2>2, AskResolve
  <2> QED BY <2>3 DEF target
<1> HIDE DEF call
<1>8. Keeps(src, start, then, stamp, name)
  <2>1. Sound(src, go[call].st)
    BY <1>7, KeepsSound
  <2>2. go[call].st.active \ {<<s, i>>} \in SUBSET (Scopes \X (Nat \ {0}))
    BY <2>1 DEF Sound, Computations
  <2>3. Leaves(src, go[call].st, then)
    BY <2>1, <2>2, ActiveLeaves
  <2> QED BY <1>7, <2>3, LeavesOn
<1> HIDE DEF then
<1>9. then \in Computations
  BY <1>8, KeepsSound
<1>10. go[call].hit \in Results
  BY <1>7 DEF Answers
<1>11. ~hides => [st |-> then, hit |-> Merge(last.hit, go[call].hit)]
                   \in Outcomes(src, start, stamp, name)
  <2> SUFFICES ASSUME ~hides
               PROVE  [st |-> then, hit |-> Merge(last.hit, go[call].hit)]
                        \in Outcomes(src, start, stamp, name)
    OBVIOUS
  <2>1. Fits(src, go[call].hit, name)
    BY <1>5, <1>7
  <2>2. /\ Merge(last.hit, go[call].hit) \in Results
        /\ Fits(src, Merge(last.hit, go[call].hit), name)
    BY <1>2, <1>10, <2>1, MergeType
  <2> QED BY <1>8, <1>9, <2>2 DEF Outcomes, Answers
<1> QED BY <1>1, <1>11

\* The member imports.
LEMMA MemberImportsKeep ==
  ASSUME NEW src \in Workspaces, NEW go, NEW r \in Nat, Serves(src, go, r), NEW start, NEW st,
         Sound(src, start), NEW name, NEW stamp, Keeps(src, start, st, stamp, name),
         NEW s \in Scopes, NEW depth \in Nat, NEW access,
         Base(start) + 2 * Left(depth + 1) + 2 < r
  PROVE  MemberImports(src, go, st, s, name, depth, access)
           \in Outcomes(src, start, stamp, name)
<1> DEFINE n == Len(src.members[s])
           S == Outcomes(src, start, stamp, name)
           a == [st |-> st, hit |-> Missing]
           G == [x \in S \X (1 .. n) |-> MemberStep(src, go, s, name, depth, access, x[1], x[2])]
           Is(f) == f = [k \in 0 .. n |->
                           IF k = 0 THEN a
                           ELSE MemberStep(src, go, s, name, depth, access, f[k - 1], k)]
           after == CHOOSE f : Is(f)
<1>1. n \in Nat
  BY DEF Workspaces
<1>2. a \in S
  BY MissingFits, KeepsSound DEF Outcomes, Answers
<1>3. \A x \in S, k \in 1 .. n : MemberStep(src, go, s, name, depth, access, x, k) \in S
  BY MemberStepKeeps
<1>4. MemberImports(src, go, st, s, name, depth, access) = after[n]
  BY DEF MemberImports
<1> HIDE DEF S, a, n
<1>5. G \in [S \X (1 .. n) -> S]
  BY <1>3
<1>6. \A x \in S, k \in 1 .. n :
        G[<<x, k>>] = MemberStep(src, go, s, name, depth, access, x, k)
  OBVIOUS
<1> HIDE DEF G
<1>7. PICK f \in [0 .. n -> S] : IsLoop(f, a, G, n)
  BY <1>1, <1>2, <1>5, LoopExists
<1>8. Is(f)
  <2>1. \A k \in 0 .. n : k # 0 => k \in 1 .. n /\ f[k - 1] \in S
    BY <1>1, <1>7
  <2>2. \A k \in 0 .. n : k # 0 =>
          G[<<f[k - 1], k>>] = MemberStep(src, go, s, name, depth, access, f[k - 1], k)
    BY <1>6, <2>1
  <2> QED BY <1>7, <2>2 DEF IsLoop
<1>9. Is(after)
  BY <1>8
<1> HIDE DEF after
<1>10. after[0] = a
  BY <1>1, <1>9
<1>11. \A k \in 1 .. n :
         after[k] = MemberStep(src, go, s, name, depth, access, after[k - 1], k)
  <2>1. \A k \in 1 .. n : k \in 0 .. n /\ k # 0
    BY <1>1
  <2> QED BY <1>9, <2>1
<1>12. \A k \in 1 .. n : after[k - 1] \in S => after[k] \in S
  BY <1>3, <1>11
<1>13. after[n] \in S
  BY <1>1, <1>2, <1>10, <1>12, LoopKeeps
<1> QED BY <1>4, <1>13 DEF S, n

\* A namespace nested in the one a recursive import names.
LEMMA BelowStepKeeps ==
  ASSUME NEW src, NEW go, NEW r \in Nat, Serves(src, go, r), NEW start, Sound(src, start),
         NEW name \in Names, NEW stamp \in Nat, Ready(src, start, stamp, name),
         NEW sub \in Scopes, NEW depth \in Nat, NEW access \in {"all", "public"},
         NEW last \in Outcomes(src, start, stamp, name),
         Base(start) + 2 * Left(depth + 1) + 2 < r
  PROVE  BelowStep(go, sub, name, depth, stamp, access, last)
           \in Outcomes(src, start, stamp, name)
<1> DEFINE call == BelowCall(last.st, sub, name, depth + 1, stamp, access)
<1>1. BelowStep(go, sub, name, depth, stamp, access, last)
        = [st |-> go[call].st, hit |-> Merge(last.hit, go[call].hit)]
  BY DEF BelowStep
<1>2. /\ Keeps(src, start, last.st, stamp, name) /\ last.hit \in Results
      /\ Fits(src, last.hit, name)
  BY DEF Outcomes, Answers
<1>3. /\ go[call] \in Answers /\ Keeps(src, start, go[call].st, stamp, name)
      /\ Fits(src, go[call].hit, name)
  <2>1. depth + 1 \in Nat
    OBVIOUS
  <2> QED BY <1>2, <2>1, AskBelow
<1> HIDE DEF call
<1>4. /\ Merge(last.hit, go[call].hit) \in Results
      /\ Fits(src, Merge(last.hit, go[call].hit), name)
  BY <1>2, <1>3, MergeType DEF Answers
<1> QED BY <1>1, <1>3, <1>4 DEF Outcomes, Answers

\* A namespace and all that is nested in it.
LEMMA LookupRecursiveKeeps ==
  ASSUME NEW src, NEW go, NEW call \in Lookups, Sound(src, call.st), call.fn = "below",
         Serves(src, go, Rank(call)), Ready(src, call.st, call.stamp, call.name)
  PROVE  LookupRecursive(src, go, call) \in Outcomes(src, call.st, call.stamp, call.name)
<1> DEFINE st == call.st
           subs == Nested(src, call.s, call.access)
           here == LookupCall(call.st, call.s, call.name, call.depth, call.stamp, call.access, TRUE)
           n == Len(subs)
           S == Outcomes(src, st, call.stamp, call.name)
           Step(x, k) == BelowStep(go, subs[k], call.name, call.depth, call.stamp, call.access, x)
           G == [x \in S \X (1 .. n) |-> Step(x[1], x[2])]
           Is(f) == f = [k \in 0 .. n |-> IF k = 0 THEN go[here] ELSE Step(f[k - 1], k)]
           after == CHOOSE f : Is(f)
<1>1. /\ st \in Computations /\ call.s \in Scopes /\ call.name \in Names /\ call.depth \in Nat
      /\ call.stamp \in Nat /\ call.access \in {"all", "public"}
  BY DEF Lookups
<1>2. CASE call.depth > MaxDepth
  <2>1. LookupRecursive(src, go, call) = [st |-> st, hit |-> Missing]
    BY <1>2 DEF LookupRecursive
  <2>2. Keeps(src, st, st, call.stamp, call.name)
    BY KeepsItself
  <2> QED BY <1>1, <2>1, <2>2, MissingFits DEF Outcomes, Answers
<1>3. CASE ~(call.depth > MaxDepth)
  <2>1. Rank(call) = Base(st) + 2 * Left(call.depth) + 2 /\ Rank(call) \in Nat
    <3>1. Rank(call) = Base(st) + 2 * Left(call.depth) + 2
      BY DEF Rank
    <3>2. Base(st) \in Nat /\ Left(call.depth) \in Nat
      BY <1>1, BaseType, LeftType
    <3> QED BY <3>1, <3>2
  <2>2. Base(st) \in Nat /\ Left(call.depth + 1) + 1 = Left(call.depth) /\ Left(call.depth + 1) \in Nat
    <3>1. call.depth + 1 \in Nat /\ call.depth <= MaxDepth
      BY <1>1, <1>3, ScopesAssumption
    <3> QED BY <1>1, <3>1, BaseType, LeftType
  <2>3. Base(st) + 2 * Left(call.depth) + 1 < Rank(call)
    BY <2>1, <2>2
  <2>4. Base(st) + 2 * Left(call.depth + 1) + 2 < Rank(call)
    BY <2>1, <2>2
  <2>5. Keeps(src, st, st, call.stamp, call.name)
    BY KeepsItself
  <2>6. subs \in Seq(Scopes)
    BY NestedType
  <2>7. n \in Nat /\ \A k \in 1 .. n : subs[k] \in Scopes
    BY <2>6
  <2>8. LookupRecursive(src, go, call) = after[n]
    BY <1>3 DEF LookupRecursive
  <2> HIDE DEF subs
  <2>9. go[here] \in S
    <3>1. TRUE \in BOOLEAN
      OBVIOUS
    <3>2. /\ go[here] \in Answers /\ Keeps(src, st, go[here].st, call.stamp, call.name)
          /\ Fits(src, go[here].hit, call.name)
      BY <1>1, <2>1, <2>3, <2>5, <3>1, AskLookup
    <3> QED BY <3>2 DEF Outcomes
  <2> HIDE DEF here
  <2>10. \A x \in S, k \in 1 .. n : Step(x, k) \in S
    BY <1>1, <2>1, <2>4, <2>7, BelowStepKeeps
  <2> HIDE DEF S, n, st
  <2>11. G \in [S \X (1 .. n) -> S]
    <3> HIDE DEF Step
    <3> QED BY <2>10
  <2>12. \A x \in S, k \in 1 .. n : G[<<x, k>>] = Step(x, k)
    <3> HIDE DEF Step
    <3> QED OBVIOUS
  <2> HIDE DEF G
  <2>13. PICK f \in [0 .. n -> S] : IsLoop(f, go[here], G, n)
    BY <2>7, <2>9, <2>11, LoopExists
  <2> HIDE DEF Step
  <2>14. Is(f)
    <3>1. \A k \in 0 .. n : k # 0 => k \in 1 .. n /\ f[k - 1] \in S
      BY <2>7, <2>13
    <3>2. \A k \in 0 .. n : k # 0 => G[<<f[k - 1], k>>] = Step(f[k - 1], k)
      BY <2>12, <3>1
    <3> QED BY <2>13, <3>2 DEF IsLoop
  <2>15. Is(after)
    BY <2>14
  <2> HIDE DEF after
  <2>16. after[0] = go[here]
    BY <2>7, <2>15
  <2>17. \A k \in 1 .. n : after[k] = Step(after[k - 1], k)
    <3>1. \A k \in 1 .. n : k \in 0 .. n /\ k # 0
      BY <2>7
    <3> QED BY <2>15, <3>1
  <2>18. \A k \in 1 .. n : after[k - 1] \in S => after[k] \in S
    BY <2>10, <2>17
  <2>19. after[n] \in S
    BY <2>7, <2>9, <2>16, <2>18, LoopKeeps
  <2> QED BY <2>8, <2>19 DEF S, st
<1> QED BY <1>2, <1>3

\* A namespace import.
LEMMA ImportStepKeeps ==
  ASSUME NEW src, NEW go, NEW r \in Nat, Serves(src, go, r), NEW start, Sound(src, start),
         NEW name \in Names, NEW stamp \in Nat, Ready(src, start, stamp, name),
         NEW entry \in Entry, NEW depth \in Nat, NEW access,
         NEW last \in Outcomes(src, start, stamp, name),
         Base(start) + 2 * Left(depth + 1) + 2 < r
  PROVE  ImportStep(go, entry, name, depth, stamp, access, last)
           \in Outcomes(src, start, stamp, name)
<1> DEFINE into  == IF entry.all THEN "all" ELSE "public"
           below == BelowCall(last.st, entry.scope, name, depth + 1, stamp, into)
           look  == LookupCall(last.st, entry.scope, name, depth + 1, stamp, into, TRUE)
           hit   == IF entry.recursive THEN go[below] ELSE go[look]
<1>1. ImportStep(go, entry, name, depth, stamp, access, last)
        = IF Admits(access, entry.public)
          THEN [st |-> hit.st, hit |-> Merge(last.hit, hit.hit)] ELSE last
  BY DEF ImportStep
<1>2. /\ Keeps(src, start, last.st, stamp, name) /\ last.hit \in Results
      /\ Fits(src, last.hit, name)
  BY DEF Outcomes, Answers
<1>3. entry.scope \in Scopes /\ into \in {"all", "public"} /\ depth + 1 \in Nat
  BY DEF Entry
<1>4. Base(start) + 2 * Left(depth + 1) + 1 < r
  <2>1. Base(start) \in Nat /\ Left(depth + 1) \in Nat
    BY <1>3, BaseType, LeftType
  <2> QED BY <2>1
<1> HIDE DEF into
<1>5. /\ go[below] \in Answers /\ Keeps(src, start, go[below].st, stamp, name)
      /\ Fits(src, go[below].hit, name)
  BY <1>2, <1>3, AskBelow
<1>6. /\ go[look] \in Answers /\ Keeps(src, start, go[look].st, stamp, name)
      /\ Fits(src, go[look].hit, name)
  <2>1. TRUE \in BOOLEAN
    OBVIOUS
  <2> QED BY <1>2, <1>3, <1>4, <2>1, AskLookup
<1> HIDE DEF below, look
<1>7. hit \in Answers /\ Keeps(src, start, hit.st, stamp, name) /\ Fits(src, hit.hit, name)
  BY <1>5, <1>6
<1> HIDE DEF hit
<1>8. Merge(last.hit, hit.hit) \in Results /\ Fits(src, Merge(last.hit, hit.hit), name)
  BY <1>2, <1>7, MergeType DEF Answers
<1>9. [st |-> hit.st, hit |-> Merge(last.hit, hit.hit)] \in Outcomes(src, start, stamp, name)
  BY <1>7, <1>8 DEF Outcomes, Answers
<1> QED BY <1>1, <1>9

\* The namespace imports.
LEMMA ImportedKeeps ==
  ASSUME NEW src, NEW go, NEW r \in Nat, Serves(src, go, r), NEW start, NEW st,
         Sound(src, start), NEW name \in Names, NEW stamp \in Nat, Ready(src, start, stamp, name),
         Keeps(src, start, st, stamp, name), NEW s \in Scopes, NEW depth \in Nat, NEW access,
         Base(start) + 2 * Left(depth + 1) + 2 < r
  PROVE  Imported(go, st, s, name, depth, stamp, access) \in Outcomes(src, start, stamp, name)
<1> DEFINE filled == ImportScopes(go, st, s)
           entries == filled.cache[s]
           n == Len(entries)
           S == Outcomes(src, start, stamp, name)
           a == [st |-> filled, hit |-> Missing]
           Step(x, k) == ImportStep(go, entries[k], name, depth, stamp, access, x)
           G == [x \in S \X (1 .. n) |-> Step(x[1], x[2])]
           Is(f) == f = [k \in 0 .. n |-> IF k = 0 THEN a ELSE Step(f[k - 1], k)]
           after == CHOOSE f : Is(f)
<1>1. Base(start) < r
  <2>1. Base(start) \in Nat /\ Left(depth + 1) \in Nat
    <3>1. depth + 1 \in Nat
      OBVIOUS
    <3> QED BY <3>1, BaseType, LeftType
  <2> QED BY <2>1
<1>2. Keeps(src, start, filled, stamp, name) /\ filled \in Computations /\ entries \in Seq(Entry)
  BY <1>1, ImportScopesKeeps
<1>3. Imported(go, st, s, name, depth, stamp, access) = after[n]
  BY DEF Imported
<1> HIDE DEF filled
<1>4. n \in Nat /\ \A k \in 1 .. n : entries[k] \in Entry
  BY <1>2
<1> HIDE DEF entries
<1>5. a \in S
  BY <1>2, MissingFits DEF Outcomes, Answers
<1>6. \A x \in S, k \in 1 .. n : Step(x, k) \in S
  BY <1>4, ImportStepKeeps
<1> HIDE DEF S, n, a
<1>7. G \in [S \X (1 .. n) -> S]
  <2> HIDE DEF Step
  <2> QED BY <1>6
<1>8. \A x \in S, k \in 1 .. n : G[<<x, k>>] = Step(x, k)
  <2> HIDE DEF Step
  <2> QED OBVIOUS
<1> HIDE DEF G
<1>9. PICK f \in [0 .. n -> S] : IsLoop(f, a, G, n)
  BY <1>4, <1>5, <1>7, LoopExists
<1> HIDE DEF Step
<1>10. Is(f)
  <2>1. \A k \in 0 .. n : k # 0 => k \in 1 .. n /\ f[k - 1] \in S
    BY <1>4, <1>9
  <2>2. \A k \in 0 .. n : k # 0 => G[<<f[k - 1], k>>] = Step(f[k - 1], k)
    BY <1>8, <2>1
  <2> QED BY <1>9, <2>2 DEF IsLoop
<1>11. Is(after)
  BY <1>10
<1> HIDE DEF after
<1>12. after[0] = a
  BY <1>4, <1>11
<1>13. \A k \in 1 .. n : after[k] = Step(after[k - 1], k)
  <2>1. \A k \in 1 .. n : k \in 0 .. n /\ k # 0
    BY <1>4
  <2> QED BY <1>11, <2>1
<1>14. \A k \in 1 .. n : after[k - 1] \in S => after[k] \in S
  BY <1>6, <1>13
<1>15. after[n] \in S
  BY <1>4, <1>5, <1>12, <1>14, LoopKeeps
<1> QED BY <1>3, <1>15 DEF S

\* Each kind of membership, until one has the name.
LEMMA LookupBodyKeeps ==
  ASSUME NEW src \in Workspaces, NEW go, NEW r \in Nat, Serves(src, go, r), NEW start, NEW st,
         Sound(src, start), NEW name \in Names, NEW stamp \in Nat, Ready(src, start, stamp, name),
         Keeps(src, start, st, stamp, name), NEW s \in Scopes, NEW depth \in Nat, NEW access,
         Base(start) + 2 * Left(depth + 1) + 2 < r
  PROVE  LookupBody(src, go, st, s, name, depth, stamp, access)
           \in Outcomes(src, start, stamp, name)
<1> DEFINE owned   == Owned(src, s, name, access)
           members == MemberImports(src, go, st, s, name, depth, access)
<1>1. LookupBody(src, go, st, s, name, depth, stamp, access)
        = IF owned # Missing THEN [st |-> st, hit |-> owned]
          ELSE IF members.hit # Missing THEN members
          ELSE Imported(go, members.st, s, name, depth, stamp, access)
  BY DEF LookupBody
<1>2. owned \in Results /\ Fits(src, owned, name)
  BY OwnedType
<1>3. members \in Outcomes(src, start, stamp, name)
  BY MemberImportsKeep
<1> HIDE DEF owned, members
<1>4. [st |-> st, hit |-> owned] \in Outcomes(src, start, stamp, name)
  BY <1>2, KeepsSound DEF Outcomes, Answers
<1>5. Imported(go, members.st, s, name, depth, stamp, access) \in Outcomes(src, start, stamp, name)
  <2>1. Keeps(src, start, members.st, stamp, name)
    BY <1>3 DEF Outcomes
  <2> QED BY <2>1, ImportedKeeps
<1> QED BY <1>1, <1>3, <1>4, <1>5

\* Noting a name the root namespace does not have leaves an outcome one.
LEMMA RootMissKeeps ==
  ASSUME NEW src, NEW start, Sound(src, start), NEW stamp, NEW name \in Names,
         NEW found \in Outcomes(src, start, stamp, name), NEW s
  PROVE  RootMiss(s, name, found) \in Outcomes(src, start, stamp, name)
<1> DEFINE misses == found.st.misses \cup {name}
           then == [found.st EXCEPT !.misses = misses]
<1>1. /\ found \in Answers /\ Keeps(src, start, found.st, stamp, name) /\ Sound(src, found.st)
      /\ Fits(src, found.hit, name)
  BY KeepsSound DEF Outcomes
<1>2. misses \in SUBSET Names
  BY <1>1 DEF Sound, Computations
<1>3. RootMiss(s, name, found) = IF s = 0 /\ found.hit = Missing
                                 THEN [found EXCEPT !.st = then] ELSE found
  BY <1>1 DEF RootMiss, Answers, Computations
<1> HIDE DEF misses
<1>4. Keeps(src, start, then, stamp, name)
  <2>1. Leaves(src, found.st, then)
    BY <1>1, <1>2, MissesLeave
  <2> QED BY <1>1, <2>1, LeavesOn
<1> HIDE DEF then
<1>5. then \in Computations
  BY <1>4, KeepsSound
<1>6. [found EXCEPT !.st = then] \in Outcomes(src, start, stamp, name)
  BY <1>1, <1>4, <1>5 DEF Outcomes, Answers
<1> QED BY <1>3, <1>6

\* A lookup in a scope.  What a mark of the query says was found for the same
\* name; a nested query may have left a newer one.
LEMMA LookupAtKeeps ==
  ASSUME NEW src \in Workspaces, NEW go, NEW call \in Lookups, Sound(src, call.st),
         call.fn = "lookup", Serves(src, go, Rank(call)),
         Ready(src, call.st, call.stamp, call.name)
  PROVE  LookupAt(src, go, call) \in Outcomes(src, call.st, call.stamp, call.name)
<1> DEFINE st    == call.st
           s     == call.s
           stamp == call.stamp
           name  == call.name
           mode  == Mode(call.access, call.semantic)
           mark  == st.visit[s][mode]
           first == [stamp |-> stamp, hit |-> Missing]
           seen  == [st EXCEPT !.visit[s][mode] = first]
           body  == LookupBody(src, go, seen, s, name, call.depth, stamp, call.access)
           done  == [body.st EXCEPT !.visit[s][mode].hit = body.hit]
           found == IF call.depth > MaxDepth THEN [st |-> st, hit |-> Missing]
                    ELSE IF mark.stamp = stamp THEN [st |-> st, hit |-> mark.hit]
                    ELSE [st |-> done, hit |-> body.hit]
<1>1. /\ st \in Computations /\ s \in Scopes /\ name \in Names /\ call.depth \in Nat
      /\ stamp \in Nat
  BY DEF Lookups
<1>2. mode \in 0 .. 5
  BY ModeType
<1>3. LookupAt(src, go, call) = RootMiss(s, name, found)
  BY DEF LookupAt
<1>4. Sound(src, st) /\ Ready(src, st, stamp, name)
  OBVIOUS
<1> HIDE DEF mode
<1>5. Keeps(src, st, st, stamp, name)
  BY KeepsItself
<1>6. [st |-> st, hit |-> Missing] \in Outcomes(src, st, stamp, name)
  BY <1>1, <1>5, MissingFits DEF Outcomes, Answers
<1>7. mark \in [stamp : Nat, hit : Results]
  <2>1. st.visit \in [Scopes -> [0 .. 5 -> [stamp : Nat, hit : Results]]]
    BY <1>1 DEF Computations
  <2> QED BY <1>1, <1>2, <2>1
<1>8. mark.stamp = stamp => [st |-> st, hit |-> mark.hit] \in Outcomes(src, st, stamp, name)
  <2>1. mark.stamp = stamp => Fits(src, mark.hit, name)
    BY <1>1, <1>2 DEF Ready
  <2> QED BY <1>1, <1>5, <1>7, <2>1 DEF Outcomes, Answers
<1>9. ~(call.depth > MaxDepth) => [st |-> done, hit |-> body.hit] \in Outcomes(src, st, stamp, name)
  <2> SUFFICES ASSUME ~(call.depth > MaxDepth)
               PROVE  [st |-> done, hit |-> body.hit] \in Outcomes(src, st, stamp, name)
    OBVIOUS
  <2>1. Keeps(src, st, seen, stamp, name)
    <3>1. first \in [stamp : Nat, hit : Results] /\ first.stamp = stamp /\ first.stamp <= st.stamp
          /\ Fits(src, first.hit, name)
      BY <1>1, MissingFits DEF Ready
    <3> HIDE DEF first, st, s, stamp, name
    <3> QED BY <1>1, <1>2, <1>4, <1>5, <3>1, VisitKeeps
  <2>2. seen.visit[s][mode].stamp = stamp /\ seen.stamp = st.stamp
    <3>1. st.visit \in [Scopes -> [0 .. 5 -> [stamp : Nat, hit : Results]]]
      BY <1>1 DEF Computations
    <3>2. [st.visit EXCEPT ![s][mode] = first][s][mode] = first
      BY <1>1, <1>2, <3>1
    <3>3. seen.visit = [st.visit EXCEPT ![s][mode] = first] /\ seen.stamp = st.stamp
      BY <1>1 DEF Computations
    <3> QED BY <3>2, <3>3
  <2> HIDE DEF first, seen
  <2>3. Sound(src, seen) /\ Ready(src, seen, stamp, name) /\ Keeps(src, seen, seen, stamp, name)
    BY <1>4, <2>1, KeepsSound, ReadyOn, KeepsItself
  <2>4. Base(seen) + 2 * Left(call.depth + 1) + 2 < Rank(call) /\ Rank(call) \in Nat
    <3>1. Rank(call) = Base(st) + 2 * Left(call.depth) + 1
      BY DEF Rank
    <3>2. Base(st) \in Nat /\ Base(seen) \in Nat /\ Base(seen) <= Base(st)
      BY <1>4, <2>1, KeepsBase
    <3>3. call.depth + 1 \in Nat /\ call.depth <= MaxDepth
      BY <1>1, ScopesAssumption
    <3>4. /\ Left(call.depth + 1) + 1 = Left(call.depth) /\ Left(call.depth + 1) \in Nat
          /\ Left(call.depth) \in Nat
      BY <1>1, <3>3, LeftType
    <3> QED BY <3>1, <3>2, <3>4
  <2>5. body \in Outcomes(src, seen, stamp, name)
    <3> HIDE DEF st, s, stamp, name
    <3> QED BY <1>1, <2>3, <2>4, LookupBodyKeeps
  <2> HIDE DEF body
  <2>6. /\ Keeps(src, seen, body.st, stamp, name) /\ body.hit \in Results
        /\ Fits(src, body.hit, name) /\ Sound(src, body.st) /\ body.st \in Computations
    BY <2>5, KeepsSound DEF Outcomes, Answers
  <2>7. Keeps(src, st, body.st, stamp, name)
    BY <1>4, <2>1, <2>6, KeepsOn
  <2> DEFINE old  == body.st.visit[s][mode]
             said == [stamp |-> old.stamp, hit |-> body.hit]
  <2>8. done = [body.st EXCEPT !.visit[s][mode] = said]
    <3>1. body.st.visit \in [Scopes -> [0 .. 5 -> [stamp : Nat, hit : Results]]]
      BY <2>6 DEF Computations
    <3>2. [body.st.visit EXCEPT ![s][mode].hit = body.hit]
            = [body.st.visit EXCEPT ![s][mode] = said]
      <4>1. old \in [stamp : Nat, hit : Results]
        BY <1>1, <1>2, <3>1
      <4>2. [old EXCEPT !.hit = body.hit] = said
        <5> HIDE DEF old
        <5> QED BY <4>1
      <4>3. /\ [body.st.visit EXCEPT ![s][mode].hit = body.hit]
                 = [body.st.visit EXCEPT ![s] =
                      [body.st.visit[s] EXCEPT ![mode] = [old EXCEPT !.hit = body.hit]]]
            /\ [body.st.visit EXCEPT ![s][mode] = said]
                 = [body.st.visit EXCEPT ![s] = [body.st.visit[s] EXCEPT ![mode] = said]]
        <5> HIDE DEF said
        <5> QED BY <1>1, <1>2, <3>1
      <4> QED BY <4>2, <4>3
    <3>3. /\ done = [body.st EXCEPT !.visit = [body.st.visit EXCEPT ![s][mode].hit = body.hit]]
          /\ [body.st EXCEPT !.visit[s][mode] = said]
               = [body.st EXCEPT !.visit = [body.st.visit EXCEPT ![s][mode] = said]]
      BY <2>6 DEF Computations
    <3> QED BY <3>2, <3>3
  <2>9. /\ said \in [stamp : Nat, hit : Results] /\ said.hit = body.hit
        /\ said.stamp <= body.st.stamp
        /\ st.stamp < said.stamp \/ said.stamp = stamp
    <3>1. old.stamp \in Nat /\ old.stamp <= body.st.stamp
      BY <1>1, <1>2, <2>6, StampType DEF Sound
    <3>2. seen.stamp < old.stamp \/ old.stamp = stamp
      BY <1>1, <1>2, <2>2, <2>6 DEF Keeps, Marks
    <3> HIDE DEF old
    <3> QED BY <2>2, <2>6, <3>1, <3>2
  <2> HIDE DEF done, said
  <2>10. Keeps(src, st, done, stamp, name)
    <3>1. st.stamp < said.stamp \/ (said.stamp = stamp /\ Fits(src, said.hit, name))
      BY <2>6, <2>9
    <3> HIDE DEF st, s, stamp, name
    <3> QED BY <1>1, <1>2, <1>4, <2>7, <2>8, <2>9, <3>1, VisitKeeps
  <2>11. done \in Computations
    BY <2>10, KeepsSound
  <2> QED BY <2>6, <2>10, <2>11 DEF Outcomes, Answers
<1> HIDE DEF mark, done, body
<1>10. found \in Outcomes(src, st, stamp, name)
  BY <1>6, <1>8, <1>9
<1> HIDE DEF found
<1>11. RootMiss(s, name, found) \in Outcomes(src, st, stamp, name)
  BY <1>1, <1>4, <1>10, RootMissKeeps
<1> QED BY <1>3, <1>11

(****************************************************************************)
(* Levels.                                                                  *)
(****************************************************************************)
\* The functions of one level more answer what those of a level do not.
LEMMA CalledAnswers ==
  ASSUME NEW src \in Workspaces, NEW go, NEW call, Right(src, call), Serves(src, go, Rank(call))
  PROVE  Answered(src, call, Called(src, go, call))
<1>1. call \in Lookups \cup Resolutions \cup Fills /\ Sound(src, call.st)
  BY DEF Right, Calls
<1>2. /\ call \in Lookups => call.fn \in {"lookup", "below"}
      /\ call \in Resolutions => call.fn = "resolve"
      /\ call \in Fills => call.fn = "fill"
  BY DEF Lookups, Resolutions, Fills
<1>3. CASE call \in Lookups
  <2>1. Ready(src, call.st, call.stamp, call.name)
    BY <1>3 DEF Right
  <2>2. call \notin Resolutions /\ call \notin Fills
    BY <1>2, <1>3
  <2>3. Called(src, go, call) \in Outcomes(src, call.st, call.stamp, call.name)
    <3>1. CASE call.fn = "lookup"
      <4>1. Called(src, go, call) = LookupAt(src, go, call)
        BY <3>1 DEF Called
      <4> QED BY <1>1, <1>3, <2>1, <3>1, <4>1, LookupAtKeeps
    <3>2. CASE call.fn = "below"
      <4>1. Called(src, go, call) = LookupRecursive(src, go, call)
        BY <3>2 DEF Called
      <4> QED BY <1>1, <1>3, <2>1, <3>2, <4>1, LookupRecursiveKeeps
    <3> QED BY <1>2, <1>3, <3>1, <3>2
  <2> QED BY <2>2, <2>3 DEF Answered, Outcomes
<1>4. CASE call \in Resolutions
  <2>1. call.fn = "resolve" /\ call \notin Lookups /\ call \notin Fills
    BY <1>2, <1>4
  <2>2. Called(src, go, call)
          = ResolveResult(go, call.st, call.s, call.qn, call.depth, call.lastAll)
    BY <2>1 DEF Called
  <2>3. /\ call.s \in Scopes /\ call.qn \in Paths /\ call.depth \in Nat
        /\ call.lastAll \in BOOLEAN
    BY <1>4 DEF Resolutions
  <2>4. /\ Rank(call) = Base(call.st) + 2 * Left(call.depth) + 2
        /\ Base(call.st) \in Nat /\ Left(call.depth) \in Nat
    BY <2>1, <2>3, BaseType, LeftType DEF Rank
  <2>5. Rank(call) \in Nat /\ Base(call.st) + 2 * Left(call.depth) + 1 < Rank(call)
    BY <2>4
  <2>6. LET answer == ResolveResult(go, call.st, call.s, call.qn, call.depth, call.lastAll)
        IN  answer \in Rests(src, call.st) /\ Fits(src, answer.hit, Last(call.qn))
    <3> DEFINE st == call.st
               s  == call.s
               qn == call.qn
               depth == call.depth
               lastAll == call.lastAll
    <3> HIDE DEF st, s, qn, depth, lastAll
    <3>1. /\ Sound(src, st) /\ s \in Scopes /\ qn \in Paths /\ depth \in Nat /\ lastAll \in BOOLEAN
          /\ Base(st) + 2 * Left(depth) + 1 < Rank(call)
      BY <1>1, <2>3, <2>5 DEF st, s, qn, depth, lastAll
    <3>2. LET answer == ResolveResult(go, st, s, qn, depth, lastAll)
          IN  answer \in Rests(src, st) /\ Fits(src, answer.hit, Last(qn))
      BY <2>5, <3>1, ResolveResultKeeps
    <3> QED BY <3>2 DEF st, s, qn, depth, lastAll
  <2> QED BY <2>1, <2>2, <2>6 DEF Answered, Rests
<1>5. CASE call \in Fills
  <2>1. call.fn = "fill" /\ call.s \in Scopes /\ call \notin Lookups /\ call \notin Resolutions
    BY <1>2, <1>5 DEF Fills
  <2>2. Called(src, go, call) = Fill(src, go, call.st, call.s)
    BY <2>1 DEF Called
  <2>3. call.st.cache[call.s] = None /\ Rank(call) = Base(call.st)
    BY <1>5, <2>1 DEF Right, Rank
  <2>4. /\ Fill(src, go, call.st, call.s) \in Rests(src, call.st)
        /\ Fill(src, go, call.st, call.s).st.cache[call.s] # None
    BY <1>1, <2>1, <2>3, FillKeeps
  <2> QED BY <2>1, <2>2, <2>4 DEF Answered, Rests
<1> QED BY <1>1, <1>3, <1>4, <1>5

\* The levels up to the n-th.
IsLevels(f, src, n) ==
  f = [m \in 0 .. n |->
         [call \in Calls |-> IF m = 0 THEN Endless(call) ELSE Called(src, f[m - 1], call)]]

\* There are levels of any nesting.
LEMMA LevelsExist ==
  ASSUME NEW src
  PROVE  \A n \in Nat : \E f : IsLevels(f, src, n)
<1> DEFINE At(go, m) == [call \in Calls |-> IF m = 0 THEN Endless(call) ELSE Called(src, go, call)]
           Done == {k \in Nat : \E f : IsLevels(f, src, k)}
<1>1. 0 \in Done
  <2>1. IsLevels([m \in 0 .. 0 |-> At(<<>>, 0)], src, 0)
    BY DEF IsLevels
  <2>2. \E f : IsLevels(f, src, 0)
    BY <2>1
  <2> QED BY <2>2
<1>2. ASSUME NEW k \in Nat, k \in Done PROVE k + 1 \in Done
  <2>1. PICK f : IsLevels(f, src, k)
    BY <1>2
  <2>2. f = [m \in 0 .. k |-> At(f[m - 1], m)]
    BY <2>1 DEF IsLevels
  <2> DEFINE g == [i \in 0 .. (k + 1) |-> IF i = k + 1 THEN At(f[k], k + 1) ELSE f[i]]
  <2> HIDE DEF At
  <2>3. \A i \in 0 .. k : g[i] = f[i]
    OBVIOUS
  <2>4. g[k + 1] = At(g[k], k + 1)
    <3>1. g[k + 1] = At(f[k], k + 1)
      OBVIOUS
    <3>2. g[k] = f[k]
      BY <2>3
    <3> HIDE DEF g
    <3> QED BY <3>1, <3>2
  <2>5. \A i \in 1 .. k : g[i] = At(g[i - 1], i)
    <3> SUFFICES ASSUME NEW i \in 1 .. k PROVE g[i] = At(g[i - 1], i)
      OBVIOUS
    <3>1. i \in 0 .. k /\ i - 1 \in 0 .. k
      OBVIOUS
    <3>2. f[i] = At(f[i - 1], i)
      BY <2>2, <3>1
    <3>3. g[i] = f[i] /\ g[i - 1] = f[i - 1]
      BY <2>3, <3>1
    <3> HIDE DEF g
    <3> QED BY <3>2, <3>3
  <2>6. g[0] = At(g[0 - 1], 0)
    <3>1. g[0] = f[0] /\ f[0] = At(f[0 - 1], 0)
      BY <2>2, <2>3
    <3>2. At(f[0 - 1], 0) = At(g[0 - 1], 0)
      BY DEF At
    <3> HIDE DEF g
    <3> QED BY <3>1, <3>2
  <2>7. g = [i \in 0 .. (k + 1) |-> g[i]]
    OBVIOUS
  <2> HIDE DEF g
  <2>8. \A i \in 0 .. (k + 1) : i = 0 \/ i \in 1 .. k \/ i = k + 1
    OBVIOUS
  <2>9. \A i \in 0 .. (k + 1) : g[i] = At(g[i - 1], i)
    <3>1. (k + 1) - 1 = k
      OBVIOUS
    <3> QED BY <2>4, <2>5, <2>6, <2>8, <3>1
  <2>10. g = [i \in 0 .. (k + 1) |-> At(g[i - 1], i)]
    BY <2>7, <2>9
  <2>11. IsLevels(g, src, k + 1)
    BY <2>10 DEF IsLevels, At
  <2> QED BY <2>11
<1> HIDE DEF Done
<1>3. \A k \in Nat : k \in Done
  BY <1>1, <1>2, SetInduction
<1> QED BY <1>3 DEF Done

\* The bound on the nesting is a natural.
LEMMA NestingType == Nesting \in Nat
<1>1. LastScope + 2 \in Nat /\ WithinFill \in Nat
  BY WithinFillType, ScopesAssumption
<1> QED BY <1>1 DEF Nesting

\* A level answers the calls of a smaller rank: the calls these make are of a
\* rank that is smaller still.
LEMMA ResolverServes ==
  ASSUME NEW src \in Workspaces
  PROVE  Serves(src, Resolver(src), Nesting)
<1> DEFINE level == CHOOSE f : IsLevels(f, src, Nesting)
           Done == {n \in Nat : n <= Nesting => Serves(src, level[n], n)}
<1>1. IsLevels(level, src, Nesting)
  BY LevelsExist, NestingType
<1>2. Levels(src) = level
  BY DEF Levels, IsLevels
<1> HIDE DEF level
<1>3. 0 \in Done
  <2>1. ASSUME NEW call \in Calls, Right(src, call), Rank(call) < 0
        PROVE  FALSE
    <3>1. Rank(call) \in Nat
      <4>1. Base(call.st) \in Nat
        BY BaseType
      <4>2. CASE call.fn = "fill"
        BY <4>1, <4>2 DEF Rank
      <4>3. CASE call.fn # "fill"
        <5>1. call.depth \in Nat
          BY <4>3 DEF Calls, Lookups, Resolutions, Fills
        <5>2. Left(call.depth) \in Nat
          BY <5>1, LeftType
        <5> QED BY <4>1, <4>3, <5>2 DEF Rank
      <4> QED BY <4>2, <4>3
    <3> QED BY <2>1, <3>1
  <2>2. Serves(src, level[0], 0)
    BY <2>1 DEF Serves
  <2> QED BY <2>2
<1>4. ASSUME NEW n \in Nat, n \in Done PROVE n + 1 \in Done
  <2> SUFFICES ASSUME n + 1 <= Nesting PROVE Serves(src, level[n + 1], n + 1)
    OBVIOUS
  <2>1. Serves(src, level[n], n)
    BY <1>4, NestingType
  <2>2. level[n + 1] = [call \in Calls |-> Called(src, level[n], call)]
    <3>1. n + 1 \in 0 .. Nesting /\ n + 1 # 0 /\ (n + 1) - 1 = n
      BY NestingType
    <3> QED BY <1>1, <3>1 DEF IsLevels
  <2>3. ASSUME NEW call \in Calls, Right(src, call), Rank(call) < n + 1
        PROVE  Answered(src, call, level[n + 1][call])
    <3>1. level[n + 1][call] = Called(src, level[n], call)
      BY <2>2
    <3>2. Rank(call) <= n /\ Rank(call) \in Int
      <4>1. Rank(call) \in Int
        <5>1. Base(call.st) \in Nat
          BY BaseType
        <5>2. call.fn # "fill" => Left(call.depth) \in Nat
          <6>1. call.fn # "fill" => call.depth \in Nat
            BY DEF Calls, Lookups, Resolutions, Fills
          <6> QED BY <6>1, LeftType
        <5> QED BY <5>1, <5>2 DEF Rank
      <4> QED BY <2>3, <4>1
    <3>3. Serves(src, level[n], Rank(call))
      <4> SUFFICES ASSUME NEW other \in Calls, Right(src, other), Rank(other) < Rank(call)
                   PROVE  Answered(src, other, level[n][other])
        BY DEF Serves
      <4>1. Rank(other) < n
        <5>1. Rank(other) \in Int
          <6>1. Base(other.st) \in Nat
            BY BaseType
          <6>2. other.fn # "fill" => Left(other.depth) \in Nat
            <7>1. other.fn # "fill" => other.depth \in Nat
              BY DEF Calls, Lookups, Resolutions, Fills
            <7> QED BY <7>1, LeftType
          <6> QED BY <6>1, <6>2 DEF Rank
        <5> QED BY <3>2, <5>1
      <4> QED BY <2>1, <4>1 DEF Serves
    <3> QED BY <2>3, <3>1, <3>3, CalledAnswers
  <2> QED BY <2>3 DEF Serves
<1> HIDE DEF Done
<1>5. \A n \in Nat : n \in Done
  BY <1>3, <1>4, SetInduction
<1>6. Serves(src, level[Nesting], Nesting)
  BY <1>5, NestingType DEF Done
<1> QED BY <1>2, <1>6 DEF Resolver

\* A reference, and the imports of a scope, are answered at the last level.
LEMMA TopRank ==
  ASSUME NEW st
  PROVE  Base(st) < Nesting /\ Base(st) + 2 * Left(0) + 1 < Nesting
<1>1. PICK w \in Nat : w = WithinFill
  BY WithinFillType
<1>2. PICK m \in Nat : m = LastScope + 1
  BY ScopesAssumption
<1>3. Nesting = m * w + w
  <2>1. LastScope + 2 = m + 1
    BY <1>2, ScopesAssumption
  <2>2. (m + 1) * w = m * w + w
    BY <1>1, <1>2
  <2> QED BY <1>1, <2>1, <2>2 DEF Nesting
<1>4. Base(st) \in Nat /\ Base(st) <= m * w /\ m * w \in Nat
  BY <1>1, <1>2, BaseType
<1>5. Left(0) \in Nat /\ Left(0) <= MaxDepth + 1
  BY LeftType
<1>6. w = 2 * MaxDepth + 5
  BY <1>1 DEF WithinFill
<1> QED BY <1>3, <1>4, <1>5, <1>6, ScopesAssumption

(****************************************************************************)
(* The references of the workspace.                                         *)
(****************************************************************************)
\* What holds between references.
NamesInv ==
  /\ source \in Sources
  /\ cache \in [Scopes -> Seq(Entry) \cup {None}]
  /\ targets \in [Scopes -> Seq(Scopes \cup {None}) \cup {None}]
  /\ missed \in [Scopes -> [fill : Nat, names : SUBSET Names]]
  /\ \A s \in Scopes : cache[s] # None => OutcomesFit(source, s, targets[s])
  /\ TypeOK

\* A computation with nothing filled and nothing asked.
LEMMA ColdType == Cold \in Computations /\ Cold.filling = <<>> /\ Cold.frames = <<>>
                  /\ Cold.endless = FALSE /\ Cold.stamp = 0
                  /\ \A s \in Scopes, mode \in 0 .. 5 : Cold.visit[s][mode].stamp = 0
<1>1. <<>> \in Seq(SUBSET Names) /\ <<>> \in Seq(Scopes)
  OBVIOUS
<1>2. Missing \in Results
  BY DEF Results
<1> QED BY <1>1, <1>2 DEF Cold, Computations

\* A reference starts from what the ones before it left.
LEMMA ResumedSound ==
  ASSUME NamesInv
  PROVE  /\ Sound(source, Resumed) /\ Resumed.filling = <<>>
         /\ Resumed.cache = cache /\ Resumed.targets = targets
<1>1. /\ Resumed \in Computations /\ Resumed.filling = <<>> /\ Resumed.frames = <<>>
      /\ Resumed.endless = FALSE
      /\ Resumed.cache = cache /\ Resumed.targets = targets /\ Resumed.missed = missed
      /\ Resumed.visit = Cold.visit /\ Resumed.stamp = Cold.stamp
  <2>1. Cold \in Computations /\ Cold.filling = <<>> /\ Cold.frames = <<>> /\ Cold.endless = FALSE
    BY ColdType
  <2>2. Resumed = [Cold EXCEPT !.cache = cache, !.targets = targets, !.missed = missed]
    BY DEF Resumed
  <2>3. [Cold EXCEPT !.cache = cache, !.targets = targets, !.missed = missed] \in Computations
    BY <2>1 DEF NamesInv, Computations
  <2> QED BY <2>1, <2>2, <2>3 DEF Computations
<1>2. Range(Resumed.filling) = {}
  BY <1>1 DEF Range
<1>3. ASSUME NEW s \in Scopes PROVE Settled(source, Resumed, s)
  <2>1. missed[s].fill = 0
    BY DEF NamesInv, TypeOK
  <2>2. \/ cache[s] = None /\ targets[s] = None
        \/ /\ targets[s] \in [1 .. Len(source.imports[s]) -> Scopes \cup {None}]
           /\ cache[s] \in Seq(Entry) /\ cache[s] = Seeds(source.imports[s], targets[s], 0)
    BY DEF NamesInv, TypeOK
  <2>3. cache[s] \in Seq(Entry) => OutcomesFit(source, s, targets[s])
    BY ScopesAssumption DEF NamesInv
  <2> QED BY <1>1, <2>1, <2>2, <2>3 DEF Settled, Filled
<1>4. \A s \in Scopes, mode \in 0 .. 5 : Resumed.visit[s][mode].stamp <= Resumed.stamp
  BY <1>1, ColdType
<1>5. Sound(source, Resumed)
  BY <1>1, <1>2, <1>3, <1>4 DEF Sound
<1> QED BY <1>1, <1>5

\* What is built is a workspace.
LEMMA SourceType ==
  ASSUME NamesInv
  PROVE  source \in Workspaces
BY WorkspaceAssumption DEF NamesInv

\* What is kept of a reference.
LEMMA KeptStep ==
  ASSUME NamesInv, NEW st, Leaves(source, Resumed, st), Kept(st)
  PROVE  /\ NamesInv'
         /\ \A s \in Scopes : cache[s] # None => cache'[s] = cache[s] /\ targets'[s] = targets[s]
<1>1. /\ Resumed.filling = <<>> /\ Resumed.cache = cache /\ Resumed.targets = targets
  BY ResumedSound
<1>2. Range(st.filling) = {} /\ Range(Resumed.filling) = {} /\ Sound(source, st)
  BY <1>1 DEF Leaves, Keeps, Range
<1>3. cache' = st.cache /\ targets' = st.targets /\ missed' = st.missed /\ source' = source
  BY DEF Kept
<1>4. \A s \in Scopes : Settled(source, st, s)
  BY <1>2 DEF Sound
<1>5. /\ cache' \in [Scopes -> Seq(Entry) \cup {None}]
      /\ targets' \in [Scopes -> Seq(Scopes \cup {None}) \cup {None}]
      /\ missed' \in [Scopes -> [fill : Nat, names : SUBSET Names]]
  BY <1>2, <1>3 DEF Sound, Computations
<1>6. missed' \in [Scopes -> [fill : {0}, names : SUBSET Names]]
  <2>1. \A s \in Scopes : missed'[s] \in [fill : {0}, names : SUBSET Names]
    <3> SUFFICES ASSUME NEW s \in Scopes
                 PROVE  missed'[s] \in [fill : {0}, names : SUBSET Names]
      OBVIOUS
    <3>1. missed'[s] \in [fill : Nat, names : SUBSET Names]
      BY <1>5
    <3>2. missed'[s].fill = 0
      BY <1>3, <1>4 DEF Settled
    <3> QED BY <3>1, <3>2
  <2> QED BY <1>5, <2>1
<1>7. ASSUME NEW s \in Scopes
      PROVE  \/ cache'[s] = None /\ targets'[s] = None
             \/ /\ targets'[s] \in [1 .. Len(source'.imports[s]) -> Scopes \cup {None}]
                /\ cache'[s] \in Seq(Entry) /\ cache'[s] = Seeds(source'.imports[s], targets'[s], 0)
  BY <1>3, <1>4 DEF Settled, Filled
<1>8. TypeOK'
  BY <1>6, <1>7 DEF TypeOK
<1>9. NamesInv'
  <2>1. \A s \in Scopes : cache'[s] # None => OutcomesFit(source', s, targets'[s])
    BY <1>3, <1>4 DEF Settled, Filled
  <2> QED BY <1>3, <1>5, <1>8, <2>1 DEF NamesInv
<1>10. \A s \in Scopes : cache[s] # None => cache'[s] = cache[s] /\ targets'[s] = targets[s]
  BY <1>1, <1>2, <1>3 DEF Leaves, Keeps
<1> QED BY <1>9, <1>10

\* A reference.
LEMMA AnswerKeeps ==
  ASSUME NamesInv, NEW query \in Queries
  PROVE  /\ Answer(source, Resumed, query) \in Rests(source, Resumed)
         /\ Fits(source, Answer(source, Resumed, query).hit, Last(query[2]))
<1>1. source \in Workspaces /\ Sound(source, Resumed)
  BY SourceType, ResumedSound
<1>2. Serves(source, Resolver(source), Nesting) /\ Nesting \in Nat
  BY <1>1, ResolverServes, NestingType
<1>3. query[1] \in Scopes /\ query[2] \in Paths /\ 0 \in Nat /\ FALSE \in BOOLEAN
  BY WorkspaceAssumption
<1>4. Base(Resumed) + 2 * Left(0) + 1 < Nesting
  BY TopRank
<1> DEFINE s  == query[1]
           qn == query[2]
           go == Resolver(source)
<1> HIDE DEF s, qn, go
<1>5. /\ s \in Scopes /\ qn \in Paths /\ Serves(source, go, Nesting)
  BY <1>2, <1>3 DEF s, qn, go
<1>6. LET answer == ResolveResult(go, Resumed, s, qn, 0, FALSE)
      IN  answer \in Rests(source, Resumed) /\ Fits(source, answer.hit, Last(qn))
  BY <1>1, <1>2, <1>3, <1>4, <1>5, ResolveResultKeeps
<1> QED BY <1>6 DEF Answer, s, qn, go

\* Nothing is filled at first.
LEMMA InitNames ==
  ASSUME Init
  PROVE  NamesInv
<1>1. Cold \in Computations
  BY ColdType
<1>2. /\ source \in Sources /\ cache = Cold.cache /\ targets = Cold.targets
      /\ missed = Cold.missed
  BY DEF Init
<1>3. /\ cache \in [Scopes -> Seq(Entry) \cup {None}]
      /\ targets \in [Scopes -> Seq(Scopes \cup {None}) \cup {None}]
      /\ missed \in [Scopes -> [fill : Nat, names : SUBSET Names]]
  BY <1>1, <1>2 DEF Computations
<1>4. /\ \A s \in Scopes : cache[s] = None /\ targets[s] = None
      /\ missed = [s \in Scopes |-> [fill |-> 0, names |-> {}]]
  BY <1>2 DEF Cold
<1>5. missed \in [Scopes -> [fill : {0}, names : SUBSET Names]]
  BY <1>4
<1>6. TypeOK
  BY <1>4, <1>5 DEF TypeOK
<1> QED BY <1>2, <1>3, <1>4, <1>6 DEF NamesInv

\* A step keeps the invariant, and what is filled unless it resets the caches.
LEMMA NextNames ==
  ASSUME NamesInv, [Next]_vars
  PROVE  /\ NamesInv'
         /\ \/ Reset
            \/ \A s \in Scopes : cache[s] # None => cache'[s] = cache[s] /\ targets'[s] = targets[s]
<1>1. ASSUME NEW query \in Queries, Ask(query)
      PROVE  /\ NamesInv'
             /\ \A s \in Scopes :
                  cache[s] # None => cache'[s] = cache[s] /\ targets'[s] = targets[s]
  <2>1. Leaves(source, Resumed, Answer(source, Resumed, query).st)
    BY AnswerKeeps DEF Rests
  <2>2. Kept(Answer(source, Resumed, query).st)
    BY <1>1 DEF Ask
  <2> QED BY <2>1, <2>2, KeptStep
<1>2. ASSUME NEW s \in Scopes, AskImport(s)
      PROVE  /\ NamesInv'
             /\ \A x \in Scopes :
                  cache[x] # None => cache'[x] = cache[x] /\ targets'[x] = targets[x]
  <2>1. source \in Workspaces /\ Sound(source, Resumed)
    BY SourceType, ResumedSound
  <2>2. Serves(source, Resolver(source), Nesting) /\ Nesting \in Nat
    BY <2>1, ResolverServes, NestingType
  <2>3. Leaves(source, Resumed, Resumed) /\ Base(Resumed) < Nesting
    BY <2>1, KeepsItself, TopRank DEF Leaves
  <2>4. Leaves(source, Resumed, ImportScopes(Resolver(source), Resumed, s))
    BY <2>1, <2>2, <2>3, ImportScopesKeeps DEF Leaves
  <2>5. Kept(ImportScopes(Resolver(source), Resumed, s))
    BY <1>2 DEF AskImport
  <2> QED BY <2>4, <2>5, KeptStep
<1>3. CASE Reset
  <2>1. /\ source' \in Sources /\ cache' = Cold.cache /\ targets' = Cold.targets
        /\ missed' = Cold.missed
    BY <1>3 DEF Reset, NamesInv
  <2>2. /\ cache' \in [Scopes -> Seq(Entry) \cup {None}]
        /\ targets' \in [Scopes -> Seq(Scopes \cup {None}) \cup {None}]
        /\ missed' \in [Scopes -> [fill : Nat, names : SUBSET Names]]
    BY <2>1, ColdType DEF Computations
  <2>3. /\ \A s \in Scopes : cache'[s] = None /\ targets'[s] = None
        /\ missed' = [s \in Scopes |-> [fill |-> 0, names |-> {}]]
    BY <2>1 DEF Cold
  <2>4. missed' \in [Scopes -> [fill : {0}, names : SUBSET Names]]
    BY <2>3
  <2>5. TypeOK'
    BY <2>3, <2>4 DEF TypeOK
  <2> QED BY <1>3, <2>1, <2>2, <2>3, <2>5 DEF NamesInv
<1>4. CASE UNCHANGED vars
  <2>1. UNCHANGED <<source, cache, targets, missed>>
    BY <1>4 DEF vars
  <2> QED BY <2>1 DEF NamesInv, TypeOK, OutcomesFit
<1> QED BY <1>1, <1>2, <1>3, <1>4 DEF Next

\* The invariant always holds.
LEMMA NamesInvariant == Spec => []NamesInv
<1>1. Init => NamesInv
  BY InitNames
<1>2. NamesInv /\ [Next]_vars => NamesInv'
  BY NextNames
<1> QED BY <1>1, <1>2, PTL DEF Spec

\* Between references every scope's entries are what its imports denote, both
\* or neither are there, and nothing is left of a fill.  What
\* import_scopes_uncached seeds for one of the imports, and the placeholder it
\* puts there while it works, are never kept.
THEOREM NamesTyped == Spec => []TypeOK
<1>1. NamesInv => TypeOK
  BY DEF NamesInv
<1> QED BY <1>1, NamesInvariant, PTL

\* Every reference is answered, whatever imports lead back to themselves: the
\* calls of resolve_result, lookup_at, lookup_recursive and import_scopes never
\* nest deeper than Nesting.  What it is answered with has the name it ends
\* with, and so has what every import denotes: the marks lookup_at leaves on the
\* scopes are read by the query that left them only.
THEOREM NamesAnswered == Spec => []AnswersNamed
<1>1. NamesInv => AnswersNamed
  <2> SUFFICES ASSUME NamesInv PROVE AnswersNamed
    OBVIOUS
  <2>1. ASSUME NEW query \in Queries
        PROVE  /\ ~Answer(source, Resumed, query).st.endless
               /\ Fits(source, Answer(source, Resumed, query).hit, Last(query[2]))
    <3>1. Sound(source, Answer(source, Resumed, query).st)
      BY AnswerKeeps DEF Rests, Leaves, Keeps
    <3>2. Fits(source, Answer(source, Resumed, query).hit, Last(query[2]))
      BY AnswerKeeps
    <3> QED BY <3>1, <3>2 DEF Sound
  <2>2. ASSUME NEW s \in Scopes, targets[s] # None
        PROVE  OutcomesFit(source, s, targets[s])
    <3>1. cache[s] \in Seq(Entry)
      BY <2>2 DEF NamesInv, TypeOK
    <3>2. cache[s] # None
      BY <3>1, ScopesAssumption
    <3> QED BY <3>2 DEF NamesInv
  <2> QED BY <2>1, <2>2 DEF AnswersNamed, OutcomesFit
<1> QED BY <1>1, NamesInvariant, PTL

\* What a scope's imports denote stays until the caches are reset, whichever
\* references come after the one that asked first (import_cache).
THEOREM NamesPermanent == Spec => Permanent
<1>1. ASSUME NamesInv, [Next]_vars
      PROVE  [Reset \/ \A s \in Scopes : cache[s] # None => /\ cache'[s] = cache[s]
                                                           /\ targets'[s] = targets[s]]_vars
  BY <1>1, NextNames
<1> QED BY <1>1, NamesInvariant, PTL DEF Spec, Permanent
=============================================================================
