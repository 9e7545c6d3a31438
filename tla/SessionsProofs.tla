---------------------------- MODULE SessionsProofs ----------------------------
(****************************************************************************)
(* Proofs about the sessions a client holds.                                *)
(*                                                                          *)
(* The handles of a transformation session never denote an element of       *)
(* another model, for any number of batches, handles and generations.       *)
(*                                                                          *)
(* Whatever a language server keeps between requests, over edits, re-seeds  *)
(* and renames, an answer is the one that a server started now would give:  *)
(* for any number of units under any number of spellings, any texts, and    *)
(* any bound on what is kept.                                               *)
(****************************************************************************)
EXTENDS SessionHandles, NavigationSessions, SequenceFacts, SequenceTheorems, TLAPS

(****************************************************************************)
(* Handles.                                                                 *)
(*                                                                          *)
(* The properties are not inductive: a handle of a later generation than    *)
(* the session's would become current one day.  IInv adds that handles and  *)
(* batches are never ahead of the session, that a batch that was not taken  *)
(* holds handles of its own generation only, and that a taken one has       *)
(* nothing left.                                                            *)
(****************************************************************************)
Made(b) == batches[b] # NoBatch

HandlesBehind == \A h \in handles : h.gen <= gen /\ (h.gen = gen => h.build = build)

OpenBatch(b) ==
  /\ batches[b].gen \in Nat
  /\ batches[b].gen <= gen
  /\ batches[b].gen = gen => batches[b].build = build
  /\ \A h \in batches[b].ops : h \in handles /\ h.gen = batches[b].gen
  /\ batches[b].tries = 0

TakenBatch(b) == batches[b].gen = Consumed /\ batches[b].tries = 1

BatchesBehind == \A b \in Batches : Made(b) => OpenBatch(b) \/ TakenBatch(b)

IInv == TypeOK /\ HandlesBehind /\ BatchesBehind

----------------------------------------------------------------------------
\* A fresh session has no handle and no batch.
LEMMA InitIInv == Init => IInv
  BY DEF Init, IInv, TypeOK, HandlesBehind, BatchesBehind, Made

\* The generation moves forward, with or without a new model, and handles and
\* batches stay: all of them are behind then.
LEMMA NewGeneration ==
  ASSUME IInv, gen' = gen + 1, build' \in {build, build + 1},
         UNCHANGED <<binding, handles, batches>>
  PROVE  IInv'
<1>1. TypeOK'
  BY DEF IInv, TypeOK, Batch, Handle
<1>2. HandlesBehind'
  BY DEF IInv, TypeOK, HandlesBehind, Handle
<1>3. BatchesBehind'
  <2> SUFFICES ASSUME NEW b \in Batches, Made(b) PROVE (OpenBatch(b) \/ TakenBatch(b))'
    BY DEF BatchesBehind, Made
  <2>1. CASE OpenBatch(b)
    <3>1. batches[b].gen <= gen' /\ batches[b].gen # gen'
      BY <2>1 DEF OpenBatch, IInv, TypeOK
    <3> QED BY <2>1, <3>1 DEF OpenBatch
  <2>2. CASE TakenBatch(b)
    BY <2>2 DEF TakenBatch
  <2> QED BY <2>1, <2>2 DEF IInv, BatchesBehind
<1> QED BY <1>1, <1>2, <1>3 DEF IInv

\* Nothing changes.
LEMMA Stuttering == ASSUME IInv, UNCHANGED vars PROVE IInv'
  BY DEF IInv, TypeOK, HandlesBehind, BatchesBehind, Made, OpenBatch, TakenBatch, vars,
         Batch, Handle

\* A batch keeps what the invariant says of it while the session, the handles
\* it holds and the batch itself stay.
LEMMA OthersKeep ==
  ASSUME IInv, UNCHANGED <<gen, build, handles>>, NEW b \in Batches,
         batches'[b] = batches[b], Made(b)
  PROVE  (OpenBatch(b) \/ TakenBatch(b))'
  BY DEF IInv, BatchesBehind, OpenBatch, TakenBatch

----------------------------------------------------------------------------
\* Minting a handle keeps the invariant.
LEMMA MintKeeps == ASSUME IInv, Mint PROVE IInv'
<1>1. TypeOK'
  BY DEF IInv, TypeOK, Mint, Handle, Batch
<1>2. HandlesBehind'
  BY DEF IInv, TypeOK, HandlesBehind, Mint
<1>3. BatchesBehind'
  BY DEF IInv, BatchesBehind, Made, OpenBatch, TakenBatch, Mint
<1> QED BY <1>1, <1>2, <1>3 DEF IInv

\* Beginning a batch keeps the invariant.
LEMMA NewBatchKeeps == ASSUME IInv, NEW b \in Batches, NewBatch(b) PROVE IInv'
<1> DEFINE fresh == [gen |-> gen, build |-> build, ops |-> {}, tries |-> 0]
<1>1. fresh \in Batch
  BY DEF IInv, TypeOK, Batch
<1>2. batches' = [batches EXCEPT ![b] = fresh] /\ UNCHANGED <<binding, gen, build, handles>>
  BY DEF NewBatch
<1>3. batches \in [Batches -> Batch \cup {NoBatch}]
  BY DEF IInv, TypeOK
<1>4. TypeOK'
  BY <1>1, <1>2, <1>3 DEF IInv, TypeOK, Handle, Batch
<1>5. HandlesBehind'
  BY <1>2 DEF IInv, HandlesBehind
<1>6. ASSUME NEW c \in Batches, Made(c)' PROVE (OpenBatch(c) \/ TakenBatch(c))'
  <2>1. CASE c = b
    <3>1. batches'[c] = fresh
      BY <1>2, <1>3, <2>1
    <3> QED BY <1>2, <3>1 DEF OpenBatch, IInv, TypeOK
  <2>2. CASE c # b
    <3>1. batches'[c] = batches[c]
      BY <1>2, <1>3, <2>2
    <3>2. Made(c)
      BY <1>6, <3>1 DEF Made
    <3> QED BY <1>2, <3>1, <3>2, OthersKeep
  <2> QED BY <2>1, <2>2
<1> QED BY <1>4, <1>5, <1>6 DEF IInv, BatchesBehind

\* Staging a handle keeps the invariant.
LEMMA StageKeeps ==
  ASSUME IInv, NEW b \in Batches, NEW h \in handles, Stage(b, h) PROVE IInv'
<1> DEFINE staged == [batches[b] EXCEPT !.ops = @ \cup {h}]
<1>1. batches \in [Batches -> Batch \cup {NoBatch}] /\ batches[b] # NoBatch
  BY DEF IInv, TypeOK, Stage
<1>2. batches[b] \in Batch /\ h \in Handle /\ h.gen = batches[b].gen
  BY <1>1 DEF IInv, TypeOK, Stage
<1>3. /\ batches' = [batches EXCEPT ![b] = staged]
      /\ UNCHANGED <<binding, gen, build, handles>>
  BY DEF Stage
<1>4. staged \in Batch
  BY <1>2 DEF Batch
<1>5. TypeOK'
  BY <1>1, <1>3, <1>4 DEF IInv, TypeOK
<1>6. HandlesBehind'
  BY <1>3 DEF IInv, HandlesBehind
<1>7. ASSUME NEW c \in Batches, Made(c)' PROVE (OpenBatch(c) \/ TakenBatch(c))'
  <2>1. CASE c = b
    <3>1. batches'[c] = staged
      BY <1>1, <1>3, <2>1
    <3>2. OpenBatch(b)
      \* A taken batch has no generation a handle could have.
      <4>1. ~TakenBatch(b)
        BY <1>2, ConsumedIsNone DEF TakenBatch, Handle
      <4> QED BY <1>1, <4>1 DEF IInv, BatchesBehind, Made
    <3>3. /\ staged.gen = batches[b].gen /\ staged.build = batches[b].build
          /\ staged.tries = batches[b].tries /\ staged.ops = batches[b].ops \cup {h}
      BY <1>2 DEF Batch
    <3> QED BY <1>2, <1>3, <3>1, <3>2, <3>3 DEF OpenBatch
  <2>2. CASE c # b
    <3>1. batches'[c] = batches[c]
      BY <1>1, <1>3, <2>2
    <3>2. Made(c)
      BY <1>7, <3>1 DEF Made
    <3> QED BY <1>3, <3>1, <3>2, OthersKeep
  <2> QED BY <2>1, <2>2
<1> QED BY <1>5, <1>6, <1>7 DEF IInv, BatchesBehind

\* A batch that passed the guard was open; taking it leaves it taken, with or
\* without a new model, and every other one behind.
LEMMA SpendKeeps ==
  ASSUME IInv, NEW b \in Batches, Made(b), Guard(batches[b]), Spend(b),
         UNCHANGED <<binding, handles>>,
         UNCHANGED <<gen, build>> \/ (gen' = gen + 1 /\ build' = build + 1)
  PROVE  IInv'
<1> DEFINE spent == [gen |-> Consumed, build |-> batches[b].build, ops |-> {},
                     tries |-> batches[b].tries + 1]
<1>1. batches \in [Batches -> Batch \cup {NoBatch}] /\ batches[b] \in Batch
  BY DEF IInv, TypeOK, Made
<1>2. batches' = [batches EXCEPT ![b] = spent]
  BY DEF Spend
<1>3. spent \in Batch
  BY <1>1 DEF Batch
<1>4. gen \in Nat /\ gen' \in Nat /\ build' \in 0 .. gen'
  BY DEF IInv, TypeOK
<1>5. TypeOK'
  BY <1>1, <1>2, <1>3, <1>4 DEF IInv, TypeOK
<1>6. HandlesBehind'
  BY <1>4 DEF IInv, TypeOK, HandlesBehind, Handle
<1>7. ASSUME NEW c \in Batches, Made(c)' PROVE (OpenBatch(c) \/ TakenBatch(c))'
  <2>1. CASE c = b
    <3>1. batches'[c] = spent
      BY <1>1, <1>2, <2>1
    <3>2. ~TakenBatch(b)
      BY ConsumedIsNone DEF TakenBatch, Guard, IInv, TypeOK
    <3>3. batches[b].tries = 0
      BY <3>2 DEF IInv, BatchesBehind, OpenBatch
    <3> QED BY <3>1, <3>3 DEF TakenBatch
  <2>2. CASE c # b
    <3>1. batches'[c] = batches[c]
      BY <1>1, <1>2, <2>2
    <3>2. OpenBatch(c) \/ TakenBatch(c)
      BY <1>7, <3>1 DEF Made, IInv, BatchesBehind
    <3>3. CASE TakenBatch(c)
      BY <3>1, <3>3 DEF TakenBatch
    <3>4. CASE OpenBatch(c)
      <4>1. batches[c].gen = gen' => UNCHANGED <<gen, build>>
        BY <3>4, <1>4 DEF OpenBatch
      <4>2. batches[c].gen <= gen'
        BY <3>4, <1>4 DEF OpenBatch
      <4> QED BY <3>1, <3>4, <4>1, <4>2 DEF OpenBatch
    <3> QED BY <3>2, <3>3, <3>4
  <2> QED BY <2>1, <2>2
<1> QED BY <1>5, <1>6, <1>7 DEF IInv, BatchesBehind

----------------------------------------------------------------------------
\* Every step of the session, whichever binding it runs in.
LEMMA NextKeeps == ASSUME IInv, Next PROVE IInv'
<1>1. CASE Mint
  BY <1>1, MintKeeps
<1>2. ASSUME NEW loads \in BOOLEAN, LoadLibrary(loads) PROVE IInv'
  BY <1>2, NewGeneration, Stuttering DEF LoadLibrary, Rebuilt, Untouched, vars
<1>3. ASSUME NEW outcome \in {"respelled", "nothing", "refused"},
             MinimizeQualifications(outcome)
      PROVE  IInv'
  BY <1>3, NewGeneration, Stuttering
     DEF MinimizeQualifications, Rebuilt, Renumbered, Untouched, vars
<1>4. ASSUME NEW b \in Batches, NewBatch(b) PROVE IInv'
  BY <1>4, NewBatchKeeps
<1>5. ASSUME NEW b \in Batches, NEW h \in handles, Stage(b, h) PROVE IInv'
  BY <1>5, StageKeeps
<1>6. ASSUME NEW b \in Batches, NEW commits \in BOOLEAN, Commit(b, commits) PROVE IInv'
  <2>1. Made(b) /\ Guard(batches[b]) /\ Spend(b) /\ UNCHANGED <<binding, handles>>
    BY <1>6 DEF Commit, Made
  <2>2. UNCHANGED <<gen, build>> \/ (gen' = gen + 1 /\ build' = build + 1)
    BY <1>6 DEF Commit, Rebuilt, Untouched
  <2> QED BY <2>1, <2>2, SpendKeeps
<1>7. ASSUME NEW outcome \in {"committed", "dropped", "refused"}, EditNow(outcome) PROVE IInv'
  BY <1>7, NewGeneration, Stuttering DEF EditNow, Rebuilt, Renumbered, Untouched, vars
<1> QED BY <1>1, <1>2, <1>3, <1>4, <1>5, <1>6, <1>7 DEF Next

\* The invariant always holds.
LEMMA AlwaysIInv == Spec => []IInv
<1>1. IInv /\ [Next]_vars => IInv'
  BY NextKeeps, Stuttering
<1> QED BY InitIInv, <1>1, PTL DEF Spec

----------------------------------------------------------------------------
\* The session never holds more models than it has had generations, and every
\* handle and batch is of the shape the code gives it.
THEOREM TypeCorrect == Spec => []TypeOK
<1>1. IInv => TypeOK
  BY DEF IInv
<1> QED BY AlwaysIInv, <1>1, PTL

\* A handle the session takes denotes an element of the model it was minted
\* against, however many models the session has held since (Session::guard).
THEOREM HandlesDenote == Spec => []NeverAnotherElement
<1>1. IInv => NeverAnotherElement
  BY DEF IInv, HandlesBehind, NeverAnotherElement, Guard
<1> QED BY AlwaysIInv, <1>1, PTL

\* What a batch that can still commit has staged, it staged against the model
\* the commit plans on (EditBatch::guard, Session::commit).
THEOREM BatchesPlanOnOneModel == Spec => []StagedForThisModel
<1>1. ASSUME IInv, NEW b \in Batches, Made(b), Guard(batches[b])
      PROVE  batches[b].build = build /\ \A h \in batches[b].ops : h.build = build
  <2>1. ~TakenBatch(b)
    BY <1>1, ConsumedIsNone DEF TakenBatch, Guard, IInv, TypeOK
  <2>2. OpenBatch(b)
    BY <1>1, <2>1 DEF IInv, BatchesBehind
  <2> QED BY <1>1, <2>2 DEF OpenBatch, Guard, IInv, HandlesBehind
<1>2. IInv => StagedForThisModel
  BY <1>1 DEF StagedForThisModel, Made
<1> QED BY AlwaysIInv, <1>2, PTL

\* No batch is given to the edit engine twice (Session::commit).
THEOREM BatchesTakenOnce == Spec => []TakenOnce
<1>1. IInv => TakenOnce
  BY DEF IInv, BatchesBehind, Made, OpenBatch, TakenBatch, TakenOnce
<1> QED BY AlwaysIInv, <1>1, PTL

\* In Python a call that leaves the model leaves every handle as good as it
\* was: only a new model starts a generation.
THEOREM HandlesKept == Spec => KeptWhileUnchanged
<1>1. ASSUME IInv, Next, binding = "py", build' = build PROVE gen' = gen
  <2>1. ~Rebuilt
    BY <1>1 DEF IInv, TypeOK, Rebuilt
  <2>2. CASE Mint
    BY <2>2 DEF Mint
  <2>3. CASE \E loads \in BOOLEAN : LoadLibrary(loads)
    BY <2>1, <2>3 DEF LoadLibrary, Untouched
  <2>4. CASE \E outcome \in {"respelled", "nothing", "refused"} : MinimizeQualifications(outcome)
    BY <1>1, <2>1, <2>4 DEF MinimizeQualifications, Untouched
  <2>5. CASE \E b \in Batches : NewBatch(b)
    BY <2>5 DEF NewBatch
  <2>6. CASE \E b \in Batches, h \in handles : Stage(b, h)
    BY <2>6 DEF Stage
  <2>7. CASE \E b \in Batches, commits \in BOOLEAN : Commit(b, commits)
    BY <2>1, <2>7 DEF Commit, Untouched
  <2>8. CASE \E outcome \in {"committed", "dropped", "refused"} : EditNow(outcome)
    BY <1>1, <2>8 DEF EditNow
  <2> QED BY <1>1, <2>2, <2>3, <2>4, <2>5, <2>6, <2>7, <2>8 DEF Next
<1>2. ASSUME IInv, [Next]_vars
      PROVE  [binding = "py" /\ build' = build => \A h \in handles : Guard(h) => Guard(h)']_vars
  <2>1. CASE Next
    BY <1>1, <1>2, <2>1 DEF Guard
  <2>2. CASE UNCHANGED vars
    BY <2>2 DEF vars
  <2> QED BY <1>2, <2>1, <2>2
<1> QED BY AlwaysIInv, <1>2, PTL DEF Spec, KeptWhileUnchanged

----------------------------------------------------------------------------
\* The open documents, and the seeded sources.
Docs == [Uris -> Document \cup {None}]

First(seed) == IF seed = None THEN <<>> ELSE seed

Seeded == Seeds \cup {None}

----------------------------------------------------------------------------
(****************************************************************************)
(* What the language server keeps: the texts a model is built from.         *)
(****************************************************************************)

\* What is seeded, if anything is.
LEMMA FirstIs ==
  ASSUME NEW seed \in Seeded
  PROVE  /\ First(seed) \in Seq(Sources)
         /\ \A i, j \in DOMAIN First(seed) :
              Unit[First(seed)[i].name] = Unit[First(seed)[j].name] => i = j
<1>1. CASE seed = None
  BY <1>1 DEF First
<1>2. CASE seed # None
  BY <1>2, NavAssumption DEF First, Seeded
<1> QED BY <1>1, <1>2

\* The text of an open document is one.
LEMMA OpenText ==
  ASSUME NEW d \in Docs, NEW u \in Uris, d[u] # None
  PROVE  /\ d[u] \in Document /\ d[u].text \in AnyText
         /\ Source(u, d[u].text) \in Sources
<1>1. d[u] \in Document
  BY DEF Docs
<1>2. d[u].text \in AnyText
  BY <1>1, NavAssumption DEF Document
<1> QED BY <1>1, <1>2 DEF Source, Sources

\* A document takes the place of the first source of its unit, else the last.
LEMMA OverlayIs ==
  ASSUME NEW s \in Seq(Sources), NEW u \in Uris, NEW text \in AnyText
  PROVE  \/ /\ \A i \in 1 .. Len(s) : Unit[s[i].name] # Unit[u]
            /\ Overlay(s, u, text) = Append(s, Source(u, text))
         \/ \E i \in 1 .. Len(s) :
              /\ Unit[s[i].name] = Unit[u]
              /\ \A j \in 1 .. Len(s) : Unit[s[j].name] = Unit[u] => i <= j
              /\ Overlay(s, u, text) = [s EXCEPT ![i] = Source(u, text)]
<1> DEFINE same == {i \in 1 .. Len(s) : Unit[s[i].name] = Unit[u]}
<1>1. DOMAIN s = 1 .. Len(s) /\ Len(s) \in Nat
  OBVIOUS
<1>2. CASE same = {}
  BY <1>1, <1>2 DEF Overlay
<1>3. CASE same # {}
  <2>1. same \subseteq Nat
    BY <1>1
  <2>2. \E i \in same : \A j \in same : i <= j
    <3> HIDE DEF same
    <3> QED BY <1>3, <2>1, Least
  <2> DEFINE i == CHOOSE i \in same : \A j \in same : i <= j
  <2>3. i \in same /\ \A j \in same : i <= j
    BY <2>2
  <2>4. Overlay(s, u, text) = [s EXCEPT ![i] = Source(u, text)]
    BY <1>1, <1>3 DEF Overlay
  <2> HIDE DEF i
  <2> QED BY <2>3, <2>4
<1> QED BY <1>2, <1>3

\* Laying a text over sources leaves sources.
LEMMA OverlayTyped ==
  ASSUME NEW s \in Seq(Sources), NEW u \in Uris, NEW text \in AnyText
  PROVE  Overlay(s, u, text) \in Seq(Sources)
<1>1. Source(u, text) \in Sources
  BY DEF Source, Sources
<1> HIDE DEF Source
<1> QED BY <1>1, OverlayIs

\* The documents under the first n uris are overlaid in f[n].
IsAssembly(f, seed, d, n) ==
  f = [u \in 0 .. n |->
         IF u = 0 THEN IF seed = None THEN <<>> ELSE seed
         ELSE IF d[u] = None THEN f[u - 1]
         ELSE Overlay(f[u - 1], u, d[u].text)]

\* There is such an assembly of any number of documents.
LEMMA AssemblyExists ==
  ASSUME NEW seed, NEW d
  PROVE  \A n \in Nat : \E f : IsAssembly(f, seed, d, n)
<1> DEFINE Done == {k \in Nat : \E f : IsAssembly(f, seed, d, k)}
<1>1. 0 \in Done
  <2>1. IsAssembly([u \in 0 .. 0 |-> IF seed = None THEN <<>> ELSE seed], seed, d, 0)
    BY DEF IsAssembly
  <2> QED BY <2>1
<1>2. ASSUME NEW k \in Nat, k \in Done PROVE k + 1 \in Done
  <2>1. PICK f : IsAssembly(f, seed, d, k)
    BY <1>2
  <2> DEFINE next == IF d[k + 1] = None THEN f[k] ELSE Overlay(f[k], k + 1, d[k + 1].text)
             g == [u \in 0 .. (k + 1) |-> IF u = k + 1 THEN next ELSE f[u]]
  <2>2. \A u \in 0 .. k : g[u] = f[u]
    OBVIOUS
  <2>3. g[k + 1] = IF d[k + 1] = None THEN g[k] ELSE Overlay(g[k], k + 1, d[k + 1].text)
    BY <2>2
  <2>4. ASSUME NEW u \in 1 .. k
        PROVE  g[u] = IF d[u] = None THEN g[u - 1] ELSE Overlay(g[u - 1], u, d[u].text)
    <3>1. u \in 0 .. k /\ u - 1 \in 0 .. k /\ u # 0
      OBVIOUS
    <3>2. f[u] = IF d[u] = None THEN f[u - 1] ELSE Overlay(f[u - 1], u, d[u].text)
      BY <2>1, <3>1 DEF IsAssembly
    <3>3. g[u] = f[u] /\ g[u - 1] = f[u - 1]
      BY <2>2, <3>1
    <3> HIDE DEF g
    <3> QED BY <3>2, <3>3
  <2>5. g[0] = IF seed = None THEN <<>> ELSE seed
    BY <2>1, <2>2 DEF IsAssembly
  <2>6. g = [u \in 0 .. (k + 1) |-> g[u]]
    OBVIOUS
  <2> HIDE DEF next, g
  <2>7. \A u \in 0 .. (k + 1) : u = 0 \/ u \in 1 .. k \/ u = k + 1
    OBVIOUS
  <2>8. \A u \in 0 .. (k + 1) : g[u] =
          IF u = 0 THEN IF seed = None THEN <<>> ELSE seed
          ELSE IF d[u] = None THEN g[u - 1]
          ELSE Overlay(g[u - 1], u, d[u].text)
    BY <2>3, <2>4, <2>5, <2>7
  <2>9. IsAssembly(g, seed, d, k + 1)
    BY <2>6, <2>8 DEF IsAssembly
  <2> QED BY <2>9
<1> HIDE DEF Done
<1>3. \A k \in Nat : k \in Done
  BY <1>1, <1>2, SetInduction
<1> QED BY <1>3 DEF Done

\* The texts assembled, document by document.
Assembled(f, seed, d) ==
  /\ f[0] = First(seed)
  /\ \A k \in Nat : k + 1 \in Uris =>
       f[k + 1] = IF d[k + 1] = None THEN f[k]
                  ELSE Overlay(f[k], k + 1, d[k + 1].text)
  /\ \A k \in 0 .. LastUri : f[k] \in Seq(Sources)
  /\ Assemble(seed, d) = f[LastUri]

\* What is assembled is built up document by document.
LEMMA AssembleIs ==
  ASSUME NEW seed \in Seeded, NEW d \in Docs
  PROVE  \E f : Assembled(f, seed, d)
<1>1. LastUri \in Nat
  BY NavAssumption
<1> DEFINE f == CHOOSE f : IsAssembly(f, seed, d, LastUri)
<1>2. IsAssembly(f, seed, d, LastUri)
  BY <1>1, AssemblyExists
<1>3. Assemble(seed, d) = f[LastUri]
  BY DEF Assemble, IsAssembly
<1> HIDE DEF f
<1>4. f[0] = First(seed)
  BY <1>1, <1>2 DEF IsAssembly, First
<1>5. ASSUME NEW k \in Nat, k + 1 \in Uris
      PROVE  f[k + 1] = IF d[k + 1] = None THEN f[k]
                        ELSE Overlay(f[k], k + 1, d[k + 1].text)
  <2>1. k + 1 \in 0 .. LastUri /\ k + 1 # 0 /\ (k + 1) - 1 = k
    BY <1>1, <1>5 DEF Uris
  <2> QED BY <1>2, <2>1 DEF IsAssembly
<1> DEFINE Done == {k \in Nat : k <= LastUri => f[k] \in Seq(Sources)}
<1>6. 0 \in Done
  BY <1>4, FirstIs
<1>7. ASSUME NEW k \in Nat, k \in Done PROVE k + 1 \in Done
  <2> SUFFICES ASSUME k + 1 <= LastUri PROVE f[k + 1] \in Seq(Sources)
    OBVIOUS
  <2>1. f[k] \in Seq(Sources) /\ k + 1 \in Uris
    BY <1>1, <1>7 DEF Uris
  <2>2. CASE d[k + 1] = None
    BY <1>5, <2>1, <2>2
  <2>3. CASE d[k + 1] # None
    <3>1. d[k + 1].text \in AnyText
      BY <2>1, <2>3, OpenText
    <3> QED BY <1>5, <2>1, <2>3, <3>1, OverlayTyped
  <2> QED BY <2>2, <2>3
<1> HIDE DEF Done
<1>8. \A k \in Nat : k \in Done
  BY <1>6, <1>7, SetInduction
<1>9. \A k \in 0 .. LastUri : f[k] \in Seq(Sources)
  BY <1>8 DEF Done
<1> QED BY <1>3, <1>4, <1>5, <1>9 DEF Assembled

\* What is assembled are sources.
LEMMA AssembleTyped ==
  ASSUME NEW seed \in Seeded, NEW d \in Docs
  PROVE  Assemble(seed, d) \in Seq(Sources)
BY AssembleIs, NavAssumption DEF Assembled

----------------------------------------------------------------------------
(****************************************************************************)
(* Seeding the same units, those whose texts changed beneath open documents *)
(* only, assembles the same texts.                                          *)
(****************************************************************************)

\* The units of two seeds, in order, under the same names.
Alike(old, new) ==
  /\ Len(new) = Len(old)
  /\ \A i \in 1 .. Len(old) : new[i].name = old[i].name

\* The first k uris overlaid on both: they differ where a seed does whose
\* unit is not among them.
Along(a, b, old, new, d, k) ==
  /\ Len(b) = Len(a) /\ Len(old) <= Len(a)
  /\ \A i \in 1 .. Len(a) :
       /\ Unit[b[i].name] = Unit[a[i].name]
       /\ i <= Len(old) => Unit[a[i].name] = Unit[old[i].name]
       /\ b[i] # a[i] =>
            /\ i <= Len(old) /\ new[i] # old[i]
            /\ \A v \in Open(d) : v <= k => Unit[v] # Unit[old[i].name]

\* One open document more keeps two assemblies alike.
LEMMA AlongNext ==
  ASSUME NEW d \in Docs, NEW old \in Seq(Sources), NEW new \in Seq(Sources),
         Alike(old, new),
         \A i \in 1 .. Len(old) : new[i] # old[i] => OverlaidBy(Open(d), new, i),
         NEW a \in Seq(Sources), NEW b \in Seq(Sources),
         NEW u \in Uris, d[u] # None,
         Along(a, b, old, new, d, u - 1)
  PROVE  Along(Overlay(a, u, d[u].text), Overlay(b, u, d[u].text), old, new, d, u)
<1> DEFINE x == Source(u, d[u].text)
           a2 == Overlay(a, u, d[u].text)
           b2 == Overlay(b, u, d[u].text)
<1>1. d[u].text \in AnyText /\ x \in Sources
  BY OpenText
<1>2. x.name = u
  BY DEF Source
<1>3. Len(a) \in Nat /\ Len(b) = Len(a) /\ Len(old) \in Nat /\ Len(old) <= Len(a)
  BY DEF Along
<1>4. \A i \in 1 .. Len(a) : Unit[b[i].name] = Unit[a[i].name]
  BY DEF Along
<1>5. \A v \in Open(d) : v <= u <=> v <= u - 1 \/ v = u
  BY NavAssumption DEF Open, Uris
<1>6. CASE \A i \in 1 .. Len(a) : Unit[a[i].name] # Unit[u]
  <2>0. \A i \in 1 .. Len(b) : Unit[b[i].name] # Unit[u]
    BY <1>3, <1>4, <1>6
  <2>1. a2 = Append(a, x) /\ b2 = Append(b, x)
    <3>1. a2 = Append(a, x)
      BY <1>1, <1>6, OverlayIs
    <3>2. b2 = Append(b, x)
      BY <1>1, <2>0, OverlayIs
    <3> QED BY <3>1, <3>2
  <2> HIDE DEF x, a2, b2
  <2>2. /\ Len(a2) = Len(a) + 1 /\ Len(b2) = Len(a) + 1
        /\ a2[Len(a) + 1] = x /\ b2[Len(a) + 1] = x
        /\ \A i \in 1 .. Len(a) : a2[i] = a[i] /\ b2[i] = b[i]
    BY <1>1, <1>3, <2>1
  <2>3. \A i \in 1 .. Len(a2) : i \in 1 .. Len(a) \/ i = Len(a) + 1
    BY <1>3, <2>2
  <2>4. \A i \in 1 .. Len(a) : i <= Len(old) => Unit[old[i].name] # Unit[u]
    BY <1>6 DEF Along
  <2>5. ASSUME NEW i \in 1 .. Len(a2)
        PROVE  /\ Unit[b2[i].name] = Unit[a2[i].name]
               /\ i <= Len(old) => Unit[a2[i].name] = Unit[old[i].name]
               /\ b2[i] # a2[i] =>
                    /\ i <= Len(old) /\ new[i] # old[i]
                    /\ \A v \in Open(d) : v <= u => Unit[v] # Unit[old[i].name]
    <3>1. CASE i \in 1 .. Len(a)
      BY <1>5, <2>2, <2>4, <3>1 DEF Along
    <3>2. CASE i = Len(a) + 1
      BY <1>3, <2>2, <3>2
    <3> QED BY <2>3, <3>1, <3>2
  <2>6. Len(b2) = Len(a2) /\ Len(old) <= Len(a2)
    BY <1>3, <2>2
  <2> QED BY <2>5, <2>6 DEF Along, a2, b2
<1>7. CASE \E i \in 1 .. Len(a) : Unit[a[i].name] = Unit[u]
  <2>1. PICK i \in 1 .. Len(a) :
          /\ Unit[a[i].name] = Unit[u]
          /\ \A j \in 1 .. Len(a) : Unit[a[j].name] = Unit[u] => i <= j
          /\ a2 = [a EXCEPT ![i] = x]
    <3>1. ~ \A i \in 1 .. Len(a) : Unit[a[i].name] # Unit[u]
      BY <1>7
    <3> QED BY <1>1, <3>1, OverlayIs
  <2>2. PICK k \in 1 .. Len(b) :
          /\ Unit[b[k].name] = Unit[u]
          /\ \A j \in 1 .. Len(b) : Unit[b[j].name] = Unit[u] => k <= j
          /\ b2 = [b EXCEPT ![k] = x]
    <3>1. i \in 1 .. Len(b) /\ Unit[b[i].name] = Unit[u]
      BY <1>3, <1>4, <2>1
    <3>2. ~ \A j \in 1 .. Len(b) : Unit[b[j].name] # Unit[u]
      BY <3>1
    <3> QED BY <1>1, <3>2, OverlayIs
  <2>3. i = k
    <3>1. i <= k
      BY <1>3, <1>4, <2>1, <2>2
    <3>2. k <= i
      BY <1>3, <1>4, <2>1, <2>2
    <3> QED BY <1>3, <3>1, <3>2
  <2> HIDE DEF x, a2, b2
  <2>4. /\ Len(a2) = Len(a) /\ Len(b2) = Len(a)
        /\ a2[i] = x /\ b2[i] = x
        /\ \A j \in 1 .. Len(a) : j # i => a2[j] = a[j] /\ b2[j] = b[j]
    BY <1>1, <1>3, <2>1, <2>2, <2>3
  <2>5. ASSUME NEW j \in 1 .. Len(a), j # i, b[j] # a[j]
        PROVE  Unit[old[j].name] # Unit[u]
    <3> SUFFICES ASSUME Unit[old[j].name] = Unit[u] PROVE FALSE
      OBVIOUS
    <3>1. j <= Len(old) /\ new[j] # old[j]
      BY <2>5 DEF Along
    <3>2. \A m \in 1 .. j - 1 : Unit[new[m].name] # Unit[u]
      <4>1. j \in 1 .. Len(old) /\ OverlaidBy(Open(d), new, j)
        BY <1>3, <3>1
      <4>2. PICK w \in Open(d) : /\ Unit[w] = Unit[new[j].name]
                                 /\ \A m \in 1 .. j - 1 : Unit[new[m].name] # Unit[w]
        BY <4>1 DEF OverlaidBy
      <4>3. Unit[new[j].name] = Unit[u]
        BY <4>1 DEF Alike
      <4> QED BY <4>2, <4>3
    <3>3. Unit[a[j].name] = Unit[u]
      BY <3>1 DEF Along
    <3>4. i <= j /\ i < j
      BY <1>3, <2>1, <2>5, <3>3
    <3>5. i \in 1 .. j - 1 /\ i \in 1 .. Len(old)
      BY <1>3, <3>1, <3>4
    <3>6. Unit[old[i].name] = Unit[u]
      <4>1. i \in 1 .. Len(a) /\ i <= Len(old)
        BY <1>3, <3>5
      <4>2. Unit[a[i].name] = Unit[old[i].name]
        BY <4>1 DEF Along
      <4> QED BY <2>1, <4>2
    <3>7. Unit[new[i].name] = Unit[u]
      BY <3>5, <3>6 DEF Alike
    <3> QED BY <3>2, <3>5, <3>7
  <2>6. ASSUME NEW j \in 1 .. Len(a2)
        PROVE  /\ Unit[b2[j].name] = Unit[a2[j].name]
               /\ j <= Len(old) => Unit[a2[j].name] = Unit[old[j].name]
               /\ b2[j] # a2[j] =>
                    /\ j <= Len(old) /\ new[j] # old[j]
                    /\ \A v \in Open(d) : v <= u => Unit[v] # Unit[old[j].name]
    <3>1. CASE j = i
      BY <1>2, <2>1, <2>4, <3>1 DEF Along
    <3>2. CASE j # i
      BY <1>5, <2>4, <2>5, <3>2 DEF Along
    <3> QED BY <3>1, <3>2
  <2>7. Len(b2) = Len(a2) /\ Len(old) <= Len(a2)
    BY <1>3, <2>4
  <2> QED BY <2>6, <2>7 DEF Along, a2, b2
<1> QED BY <1>6, <1>7

\* overlaid_wherever_held: the sessions stand that were built of documents
\* which overlay every unit that changed.
LEMMA ReseedBeneath ==
  ASSUME NEW d \in Docs, NEW old \in Seeds, NEW new \in Seeds, Alike(old, new),
         \A i \in 1 .. Len(old) : new[i] # old[i] => OverlaidBy(Open(d), new, i)
  PROVE  Assemble(new, d) = Assemble(old, d)
<1>1. /\ old \in Seq(Sources) /\ new \in Seq(Sources) /\ LastUri \in Nat
      /\ old # None /\ new # None
  BY NavAssumption, NoneAssumption
<1>2. PICK f : Assembled(f, old, d)
  BY AssembleIs DEF Seeded
<1>3. PICK g : Assembled(g, new, d)
  BY AssembleIs DEF Seeded
<1> DEFINE Done == {k \in Nat : k <= LastUri => Along(f[k], g[k], old, new, d, k)}
<1>4. 0 \in Done
  <2>1. f[0] = old /\ g[0] = new
    BY <1>1, <1>2, <1>3 DEF Assembled, First
  <2>2. \A v \in Open(d) : ~(v <= 0)
    BY <1>1 DEF Open, Uris
  <2>3. Along(old, new, old, new, d, 0)
    BY <1>1, <2>2 DEF Along, Alike
  <2> QED BY <2>1, <2>3
<1>5. ASSUME NEW k \in Nat, k \in Done PROVE k + 1 \in Done
  <2> SUFFICES ASSUME k + 1 <= LastUri
               PROVE  Along(f[k + 1], g[k + 1], old, new, d, k + 1)
    OBVIOUS
  <2>1. k \in 0 .. LastUri /\ k + 1 \in Uris /\ (k + 1) - 1 = k
    BY <1>1 DEF Uris
  <2>2. f[k] \in Seq(Sources) /\ g[k] \in Seq(Sources)
    BY <1>2, <1>3, <2>1 DEF Assembled
  <2>3. Along(f[k], g[k], old, new, d, k)
    BY <1>5, <2>1
  <2>4. CASE d[k + 1] = None
    <3>1. f[k + 1] = f[k] /\ g[k + 1] = g[k]
      BY <1>2, <1>3, <2>1, <2>4 DEF Assembled
    <3>2. \A v \in Open(d) : v <= k + 1 => v <= k
      BY <1>1, <2>4 DEF Open, Uris
    <3> QED BY <2>3, <3>1, <3>2 DEF Along
  <2>5. CASE d[k + 1] # None
    <3>1. /\ f[k + 1] = Overlay(f[k], k + 1, d[k + 1].text)
          /\ g[k + 1] = Overlay(g[k], k + 1, d[k + 1].text)
      BY <1>2, <1>3, <2>1, <2>5 DEF Assembled
    <3> QED BY <1>1, <2>1, <2>2, <2>3, <2>5, <3>1, AlongNext
  <2> QED BY <2>4, <2>5
<1> HIDE DEF Done
<1>6. LastUri \in Done
  BY <1>1, <1>4, <1>5, SetInduction
<1>7. Along(f[LastUri], g[LastUri], old, new, d, LastUri)
  BY <1>1, <1>6 DEF Done
<1> DEFINE a == Assemble(old, d)
           b == Assemble(new, d)
<1>8. a \in Seq(Sources) /\ b \in Seq(Sources) /\ Along(a, b, old, new, d, LastUri)
  BY <1>2, <1>3, <1>7, AssembleTyped DEF Assembled, Seeded
<1> HIDE DEF a, b
<1>9. ASSUME NEW i \in 1 .. Len(a) PROVE b[i] = a[i]
  <2> SUFFICES ASSUME b[i] # a[i] PROVE FALSE
    OBVIOUS
  <2>1. /\ i \in 1 .. Len(old) /\ new[i] # old[i]
        /\ \A v \in Open(d) : v <= LastUri => Unit[v] # Unit[old[i].name]
    BY <1>1, <1>8, SMTT(30) DEF Along
  <2>2. PICK w \in Open(d) : Unit[w] = Unit[new[i].name]
    BY <2>1 DEF OverlaidBy
  <2>3. w <= LastUri
    BY <1>1 DEF Open, Uris
  <2> QED BY <2>1, <2>2, <2>3 DEF Alike
<1>10. b = a
  BY <1>8, <1>9, SeqEqual DEF Along
<1> QED BY <1>10 DEF a, b

----------------------------------------------------------------------------
(****************************************************************************)
(* What is assembled, whatever the order: of every unit the document under  *)
(* the last of its open uris, or else the source seeded.                    *)
(****************************************************************************)

\* The source y is one of those, of the first k uris.
Stands(y, seed, d, k) ==
  \/ \E v \in Open(d) :
       /\ v <= k /\ y = Source(v, d[v].text)
       /\ \A w \in Open(d) : w <= k /\ Unit[w] = Unit[v] => w <= v
  \/ /\ \E i \in 1 .. Len(First(seed)) : First(seed)[i] = y
     /\ \A v \in Open(d) : v <= k => Unit[v] # Unit[y.name]

\* They are what a has, none of a unit twice.
Holding(a, seed, d, k) ==
  /\ \A i, j \in 1 .. Len(a) : Unit[a[i].name] = Unit[a[j].name] => i = j
  /\ \A y : (\E i \in 1 .. Len(a) : a[i] = y) <=> Stands(y, seed, d, k)

\* One uri more takes the place of its unit.
LEMMA StandsNext ==
  ASSUME NEW d \in Docs, NEW seed \in Seeded, NEW u \in Uris, d[u] # None, NEW y
  PROVE  Stands(y, seed, d, u)
           <=> \/ y = Source(u, d[u].text)
               \/ Stands(y, seed, d, u - 1) /\ Unit[y.name] # Unit[u]
<1>1. \A v \in Open(d) : v <= u <=> v <= u - 1 \/ v = u
  BY NavAssumption DEF Open, Uris
<1>2. u \in Open(d) /\ u <= u /\ ~(u <= u - 1) /\ u \in Nat
  BY NavAssumption DEF Open, Uris
<1>3. \A v \in Open(d) : v \in Nat /\ (v <= u - 1 => ~(u <= v))
  BY NavAssumption DEF Open, Uris
<1>4. \A v : Source(v, d[v].text).name = v
  BY DEF Source
<1>5. ASSUME y = Source(u, d[u].text) PROVE Stands(y, seed, d, u)
  <2>1. \A w \in Open(d) : w <= u /\ Unit[w] = Unit[u] => w <= u
    OBVIOUS
  <2> QED BY <1>2, <1>5, <2>1 DEF Stands
<1>6. ASSUME Stands(y, seed, d, u - 1), Unit[y.name] # Unit[u]
      PROVE  Stands(y, seed, d, u)
  <2>1. ASSUME NEW v \in Open(d), v <= u - 1, y = Source(v, d[v].text),
               \A w \in Open(d) : w <= u - 1 /\ Unit[w] = Unit[v] => w <= v
        PROVE  Stands(y, seed, d, u)
    <3>1. Unit[v] # Unit[u]
      BY <1>4, <1>6, <2>1
    <3>2. v <= u /\ \A w \in Open(d) : w <= u /\ Unit[w] = Unit[v] => w <= v
      BY <1>1, <2>1, <3>1
    <3> HIDE DEF Source
    <3> QED BY <2>1, <3>2 DEF Stands
  <2>2. ASSUME \E i \in 1 .. Len(First(seed)) : First(seed)[i] = y,
               \A v \in Open(d) : v <= u - 1 => Unit[v] # Unit[y.name]
        PROVE  Stands(y, seed, d, u)
    BY <1>1, <1>6, <2>2 DEF Stands
  <2> QED BY <1>6, <2>1, <2>2 DEF Stands
<1>7. ASSUME Stands(y, seed, d, u), y # Source(u, d[u].text)
      PROVE  Stands(y, seed, d, u - 1) /\ Unit[y.name] # Unit[u]
  <2>1. ASSUME NEW v \in Open(d), v <= u, y = Source(v, d[v].text),
               \A w \in Open(d) : w <= u /\ Unit[w] = Unit[v] => w <= v
        PROVE  Stands(y, seed, d, u - 1) /\ Unit[y.name] # Unit[u]
    <3>1. v # u /\ v <= u - 1
      BY <1>1, <1>7, <2>1
    <3>2. Unit[v] # Unit[u]
      BY <1>2, <1>3, <2>1, <3>1
    <3>3. \A w \in Open(d) : w <= u - 1 /\ Unit[w] = Unit[v] => w <= v
      BY <1>1, <2>1
    <3>4. y.name = v
      BY <1>4, <2>1
    <3> HIDE DEF Source
    <3> QED BY <2>1, <3>1, <3>2, <3>3, <3>4 DEF Stands
  <2>2. ASSUME \E i \in 1 .. Len(First(seed)) : First(seed)[i] = y,
               \A v \in Open(d) : v <= u => Unit[v] # Unit[y.name]
        PROVE  Stands(y, seed, d, u - 1) /\ Unit[y.name] # Unit[u]
    BY <1>1, <1>2, <2>2 DEF Stands
  <2> QED BY <1>7, <2>1, <2>2 DEF Stands
<1> QED BY <1>5, <1>6, <1>7

\* One open document more keeps what an assembly holds.
LEMMA HoldingNext ==
  ASSUME NEW d \in Docs, NEW seed \in Seeded, NEW a \in Seq(Sources),
         NEW u \in Uris, d[u] # None, Holding(a, seed, d, u - 1)
  PROVE  Holding(Overlay(a, u, d[u].text), seed, d, u)
<1> DEFINE x == Source(u, d[u].text)
           b == Overlay(a, u, d[u].text)
<1>1. d[u].text \in AnyText /\ x \in Sources /\ x.name = u /\ Len(a) \in Nat
  BY OpenText DEF Source
<1>2. \A i, j \in 1 .. Len(a) : Unit[a[i].name] = Unit[a[j].name] => i = j
  BY DEF Holding
<1>3. /\ \A i, j \in 1 .. Len(b) : Unit[b[i].name] = Unit[b[j].name] => i = j
      /\ \A y : (\E i \in 1 .. Len(b) : b[i] = y)
                  <=> \/ y = x
                      \/ (\E i \in 1 .. Len(a) : a[i] = y) /\ Unit[y.name] # Unit[u]
  <2>1. CASE \A i \in 1 .. Len(a) : Unit[a[i].name] # Unit[u]
    <3>1. ~ \E i \in 1 .. Len(a) : Unit[a[i].name] = Unit[u]
      BY <2>1
    <3>2. b = Append(a, x)
      BY <1>1, <3>1, OverlayIs
    <3> HIDE DEF x, b
    <3>3. /\ Len(b) = Len(a) + 1 /\ b[Len(a) + 1] = x
          /\ \A i \in 1 .. Len(a) : b[i] = a[i]
      BY <1>1, <3>2
    <3>4. \A i : i \in 1 .. Len(b) <=> i \in 1 .. Len(a) \/ i = Len(a) + 1
      BY <1>1, <3>3
    <3>5. \A i, j \in 1 .. Len(b) : Unit[b[i].name] = Unit[b[j].name] => i = j
      BY <1>1, <1>2, <2>1, <3>3, <3>4
    <3>6. \A y : (\E i \in 1 .. Len(b) : b[i] = y)
                   <=> y = x \/ \E i \in 1 .. Len(a) : a[i] = y
      BY <3>3, <3>4
    <3>7. \A y : (\E i \in 1 .. Len(a) : a[i] = y) => Unit[y.name] # Unit[u]
      BY <2>1
    <3> QED BY <3>5, <3>6, <3>7
  <2>2. CASE \E i \in 1 .. Len(a) : Unit[a[i].name] = Unit[u]
    <3>1. ~ \A i \in 1 .. Len(a) : Unit[a[i].name] # Unit[u]
      BY <2>2
    <3>2. PICK i \in 1 .. Len(a) :
            Unit[a[i].name] = Unit[u] /\ b = [a EXCEPT ![i] = x]
      BY <1>1, <3>1, OverlayIs, ZenonT(30)
    <3> HIDE DEF x, b
    <3>3. /\ Len(b) = Len(a) /\ b[i] = x
          /\ \A j \in 1 .. Len(a) : j # i => b[j] = a[j]
      BY <1>1, <3>2
    <3>4. \A j \in 1 .. Len(a) : j # i => Unit[a[j].name] # Unit[u]
      BY <1>2, <3>2
    <3>5. \A j, m \in 1 .. Len(b) : Unit[b[j].name] = Unit[b[m].name] => j = m
      BY <1>1, <1>2, <3>2, <3>3, <3>4
    <3>6. ASSUME NEW y
          PROVE  (\E j \in 1 .. Len(b) : b[j] = y)
                   <=> \/ y = x
                       \/ (\E j \in 1 .. Len(a) : a[j] = y) /\ Unit[y.name] # Unit[u]
      BY <3>2, <3>3, <3>4
    <3> QED BY <3>5, <3>6
  <2> QED BY <2>1, <2>2
<1> HIDE DEF b
<1>4. ASSUME NEW y
      PROVE  (\E i \in 1 .. Len(b) : b[i] = y) <=> Stands(y, seed, d, u)
  <2>1. (\E i \in 1 .. Len(a) : a[i] = y) <=> Stands(y, seed, d, u - 1)
    BY DEF Holding
  <2>2. Stands(y, seed, d, u)
          <=> y = x \/ (Stands(y, seed, d, u - 1) /\ Unit[y.name] # Unit[u])
    BY StandsNext
  <2> HIDE DEF x
  <2> QED BY <1>3, <2>1, <2>2
<1>5. Holding(b, seed, d, u)
  BY <1>3, <1>4 DEF Holding
<1> QED BY <1>5 DEF b

\* What is assembled holds every seed and every open document.
LEMMA AssembleHolds ==
  ASSUME NEW seed \in Seeded, NEW d \in Docs
  PROVE  Holding(Assemble(seed, d), seed, d, LastUri)
<1>1. LastUri \in Nat
  BY NavAssumption
<1>2. PICK f : Assembled(f, seed, d)
  BY AssembleIs
<1> DEFINE Done == {k \in Nat : k <= LastUri => Holding(f[k], seed, d, k)}
<1>3. 0 \in Done
  <2>1. f[0] = First(seed)
    BY <1>2 DEF Assembled
  <2>2. \A v \in Open(d) : ~(v <= 0)
    BY <1>1 DEF Open, Uris
  <2>3. Len(First(seed)) \in Nat /\ DOMAIN First(seed) = 1 .. Len(First(seed))
    BY FirstIs
  <2>4. Holding(First(seed), seed, d, 0)
    BY <2>2, <2>3, FirstIs DEF Holding, Stands
  <2> QED BY <2>1, <2>4
<1>4. ASSUME NEW k \in Nat, k \in Done PROVE k + 1 \in Done
  <2> SUFFICES ASSUME k + 1 <= LastUri PROVE Holding(f[k + 1], seed, d, k + 1)
    OBVIOUS
  <2>1. k \in 0 .. LastUri /\ k + 1 \in Uris /\ (k + 1) - 1 = k
    BY <1>1 DEF Uris
  <2>2. f[k] \in Seq(Sources) /\ Holding(f[k], seed, d, k)
    BY <1>2, <1>4, <2>1 DEF Assembled
  <2>3. CASE d[k + 1] = None
    <3>1. f[k + 1] = f[k]
      BY <1>2, <2>1, <2>3 DEF Assembled
    <3>2. \A v \in Open(d) : v <= k + 1 <=> v <= k
      BY <1>1, <2>3 DEF Open, Uris
    <3>3. \A y : Stands(y, seed, d, k + 1) <=> Stands(y, seed, d, k)
      BY <3>2 DEF Stands
    <3> QED BY <2>2, <3>1, <3>3 DEF Holding
  <2>4. CASE d[k + 1] # None
    <3>1. f[k + 1] = Overlay(f[k], k + 1, d[k + 1].text)
      BY <1>2, <2>1, <2>4 DEF Assembled
    <3> QED BY <2>1, <2>2, <2>4, <3>1, HoldingNext
  <2> QED BY <2>3, <2>4
<1> HIDE DEF Done
<1>5. LastUri \in Done
  BY <1>1, <1>3, <1>4, SetInduction
<1>6. Holding(f[LastUri], seed, d, LastUri)
  BY <1>1, <1>5 DEF Done
<1> QED BY <1>2, <1>6 DEF Assembled

----------------------------------------------------------------------------
(****************************************************************************)
(* A member is known by all that it may depend on.                          *)
(****************************************************************************)

\* The key under a seed, and what is found.
Unopened(q, d) == Only(q, {s \in Range(q) : s.name \notin Open(d)})

KeyOf(seed, d, u) ==
  [of |-> u, header |-> d[u].text.header, others |-> RestKey(d, u).others,
   unopened |-> Unopened(First(seed), d)]

FoundOf(seed, d, u) == Range(Around(Assemble(seed, d), u))

\* A source as it is seen around the body of u.
Seen(y, u) == IF y.name = u THEN Source(u, Text(y.text.header, "any")) ELSE y

\* What is found of a document is what is seen of a text that stands.
LEMMA FoundIs ==
  ASSUME NEW seed \in Seeded, NEW d \in Docs, NEW u, NEW z
  PROVE  z \in FoundOf(seed, d, u) <=> \E y : Stands(y, seed, d, LastUri) /\ z = Seen(y, u)
<1> DEFINE a == Assemble(seed, d)
<1>1. a \in Seq(Sources) /\ Holding(a, seed, d, LastUri)
  BY AssembleTyped, AssembleHolds
<1> HIDE DEF a
<1>2. DOMAIN Around(a, u) = 1 .. Len(a) /\ \A i \in 1 .. Len(a) : Around(a, u)[i] = Seen(a[i], u)
  BY <1>1 DEF Around, Seen
<1>3. z \in Range(Around(a, u)) <=> \E i \in 1 .. Len(a) : z = Seen(a[i], u)
  BY <1>2 DEF Range
<1>4. \A y : (\E i \in 1 .. Len(a) : a[i] = y) <=> Stands(y, seed, d, LastUri)
  BY <1>1 DEF Holding
<1>5. (\E i \in 1 .. Len(a) : z = Seen(a[i], u))
        <=> \E y : Stands(y, seed, d, LastUri) /\ z = Seen(y, u)
  BY <1>4
<1> QED BY <1>3, <1>5 DEF a, FoundOf

\* What is not opened is the sources without those of open documents.
LEMMA UnopenedIs ==
  ASSUME NEW q \in Seq(Sources), NEW d, NEW s, s.name \notin Open(d)
  PROVE  (\E i \in 1 .. Len(q) : q[i] = s)
           <=> s \in {Unopened(q, d)[i] : i \in 1 .. Len(Unopened(q, d))}
<1> DEFINE T == {x \in Range(q) : x.name \notin Open(d)}
<1>1. s \in T <=> \E i \in 1 .. Len(q) : q[i] = s
  BY DEF Range
<1>2. Unopened(q, d) = Only(q, T)
  BY DEF Unopened
<1> HIDE DEF T
<1>3. {Only(q, T)[i] : i \in 1 .. Len(Only(q, T))} = {q[i] : i \in 1 .. Len(q)} \cap T
  BY OnlyRange
<1> QED BY <1>1, <1>2, <1>3

\* The keys are the same of the same documents, but for the one worked on,
\* over the same sources that are not open.
LEMMA SameKey ==
  ASSUME NEW seed \in Seeded, NEW d \in Docs, NEW u \in Uris, d[u] # None,
         NEW seed2 \in Seeded, NEW d2 \in Docs, NEW u2 \in Uris, d2[u2] # None,
         KeyOf(seed, d, u) = KeyOf(seed2, d2, u2)
  PROVE  /\ u2 = u /\ Open(d2) = Open(d)
         /\ \A v \in Open(d) \ {u} : d2[v].text = d[v].text
         /\ d2[u].text.header = d[u].text.header
         /\ \A s : s.name \notin Open(d) =>
              ((\E i \in 1 .. Len(First(seed)) : First(seed)[i] = s)
                 <=> \E i \in 1 .. Len(First(seed2)) : First(seed2)[i] = s)
<1>1. /\ u2 = u /\ d2[u2].text.header = d[u].text.header
      /\ RestKey(d2, u2).others = RestKey(d, u).others
      /\ Unopened(First(seed), d) = Unopened(First(seed2), d2)
  BY DEF KeyOf
<1>2. [v \in Open(d2) \ {u} |-> d2[v].text] = [v \in Open(d) \ {u} |-> d[v].text]
  BY <1>1 DEF RestKey
<1>3. Open(d2) \ {u} = Open(d) \ {u}
  BY <1>2
<1>4. u \in Open(d) /\ u \in Open(d2)
  BY <1>1 DEF Open
<1>5. Open(d2) = Open(d)
  BY <1>3, <1>4
<1>6. \A v \in Open(d) \ {u} : d2[v].text = d[v].text
  BY <1>2, <1>3
<1>7. Unopened(First(seed), d) = Unopened(First(seed2), d)
  <2>1. Unopened(First(seed2), d) = Unopened(First(seed2), d2)
    BY <1>5 DEF Unopened
  <2> QED BY <1>1, <2>1
<1>8. ASSUME NEW s, s.name \notin Open(d)
      PROVE  (\E i \in 1 .. Len(First(seed)) : First(seed)[i] = s)
               <=> \E i \in 1 .. Len(First(seed2)) : First(seed2)[i] = s
  <2> DEFINE q == First(seed)
             r == First(seed2)
  <2>1. q \in Seq(Sources) /\ r \in Seq(Sources) /\ Unopened(q, d) = Unopened(r, d)
    BY <1>7, FirstIs
  <2> HIDE DEF q, r
  <2>2. (\E i \in 1 .. Len(q) : q[i] = s)
          <=> s \in {Unopened(q, d)[i] : i \in 1 .. Len(Unopened(q, d))}
    BY <1>8, <2>1, UnopenedIs
  <2>3. (\E i \in 1 .. Len(r) : r[i] = s)
          <=> s \in {Unopened(r, d)[i] : i \in 1 .. Len(Unopened(r, d))}
    BY <1>8, <2>1, UnopenedIs
  <2>4. (\E i \in 1 .. Len(q) : q[i] = s) <=> \E i \in 1 .. Len(r) : r[i] = s
    BY <2>1, <2>2, <2>3
  <2> QED BY <2>4 DEF q, r
<1> QED BY <1>1, <1>5, <1>6, <1>8

\* Under equal keys nothing is found in one that is not found in the other.
LEMMA MembersWithin ==
  ASSUME NEW seed \in Seeded, NEW d \in Docs, NEW u \in Uris, d[u] # None,
         NEW seed2 \in Seeded, NEW d2 \in Docs, NEW u2 \in Uris, d2[u2] # None,
         KeyOf(seed, d, u) = KeyOf(seed2, d2, u2)
  PROVE  FoundOf(seed, d, u) \subseteq FoundOf(seed2, d2, u2)
<1>1. /\ u2 = u /\ Open(d2) = Open(d)
      /\ \A v \in Open(d) \ {u} : d2[v].text = d[v].text
      /\ d2[u].text.header = d[u].text.header
      /\ \A s : s.name \notin Open(d) =>
           ((\E i \in 1 .. Len(First(seed)) : First(seed)[i] = s)
              <=> \E i \in 1 .. Len(First(seed2)) : First(seed2)[i] = s)
  BY SameKey
<1>2. ASSUME NEW y, Stands(y, seed, d, LastUri)
      PROVE  \E x : Stands(x, seed2, d2, LastUri) /\ Seen(x, u) = Seen(y, u)
  <2>1. ASSUME NEW v \in Open(d), v <= LastUri, y = Source(v, d[v].text),
               \A w \in Open(d) : w <= LastUri /\ Unit[w] = Unit[v] => w <= v
        PROVE  \E x : Stands(x, seed2, d2, LastUri) /\ Seen(x, u) = Seen(y, u)
    <3> DEFINE x == Source(v, d2[v].text)
    <3>1. Stands(x, seed2, d2, LastUri)
      BY <1>1, <2>1 DEF Stands
    <3>2. CASE v = u
      <4>1. x.name = u /\ x.text = d2[u].text /\ y.name = u /\ y.text = d[u].text
        BY <2>1, <3>2 DEF Source
      <4> HIDE DEF x
      <4>2. Seen(x, u) = Seen(y, u)
        BY <1>1, <4>1 DEF Seen
      <4> QED BY <3>1, <4>2 DEF x
    <3>3. CASE v # u
      BY <1>1, <2>1, <3>1, <3>3
    <3> QED BY <3>2, <3>3
  <2>2. ASSUME \E i \in 1 .. Len(First(seed)) : First(seed)[i] = y,
               \A v \in Open(d) : v <= LastUri => Unit[v] # Unit[y.name]
        PROVE  \E x : Stands(x, seed2, d2, LastUri) /\ Seen(x, u) = Seen(y, u)
    <3>1. y.name \notin Open(d)
      BY <2>2, NavAssumption DEF Open, Uris
    <3>2. Stands(y, seed2, d2, LastUri)
      BY <1>1, <2>2, <3>1 DEF Stands
    <3> QED BY <3>2
  <2> QED BY <1>2, <2>1, <2>2 DEF Stands
<1>3. ASSUME NEW z, z \in FoundOf(seed, d, u)
      PROVE  z \in FoundOf(seed2, d2, u)
  <2>1. PICK y : Stands(y, seed, d, LastUri) /\ z = Seen(y, u)
    BY <1>3, FoundIs
  <2>2. PICK x : Stands(x, seed2, d2, LastUri) /\ Seen(x, u) = Seen(y, u)
    BY <1>2, <2>1
  <2> QED BY <2>1, <2>2, FoundIs
<1> QED BY <1>1, <1>3

\* A member that is known is what it would be found to be.
LEMMA SameMembers ==
  ASSUME NEW seed \in Seeded, NEW d \in Docs, NEW u \in Uris, d[u] # None,
         NEW seed2 \in Seeded, NEW d2 \in Docs, NEW u2 \in Uris, d2[u2] # None,
         KeyOf(seed, d, u) = KeyOf(seed2, d2, u2)
  PROVE  FoundOf(seed, d, u) = FoundOf(seed2, d2, u2)
<1>1. FoundOf(seed, d, u) \subseteq FoundOf(seed2, d2, u2)
  BY MembersWithin
<1>2. FoundOf(seed2, d2, u2) \subseteq FoundOf(seed, d, u)
  BY MembersWithin
<1> QED BY <1>1, <1>2

----------------------------------------------------------------------------
(****************************************************************************)
(* What is kept fits what is seeded: every model is the one that the texts  *)
(* of its fingerprint assemble, what is derived from it is derived from it  *)
(* still, and what is found is found under any seed that has its key.       *)
(****************************************************************************)

BuiltOf(seed, d) ==
  [fp |-> FingerprintOf(d), units |-> Assemble(seed, d), sources |-> Assemble(seed, d)]

TolerantOf(seed, d) == [fp |-> FingerprintOf(d), units |-> Assemble(seed, d)]

TableOf(key, q) ==
  {Source(v, key.others[v]) : v \in DOMAIN key.others}
    \cup {s \in Range(q) : s.name \notin DOMAIN key.others \cup {key.current}}

Worked == {x \in Seeded \X Docs \X Uris : x[2][x[3]] # None}

Found == {[key |-> KeyOf(x[1], x[2], x[3]), found |-> FoundOf(x[1], x[2], x[3])] : x \in Worked}

Shaped(n) ==
  n = [session |-> n.session, failed |-> n.failed, tolerant |-> n.tolerant,
       verify |-> n.verify, lint |-> n.lint, split |-> n.split,
       completion |-> n.completion, latest |-> n.latest, rest |-> n.rest,
       symbols |-> n.symbols, hashes |-> n.hashes, members |-> n.members]

ModelsFit(n, seed) ==
  /\ n.session # None => \E d \in Docs :
       Parses(Assemble(seed, d)) /\ n.session = BuiltOf(seed, d)
  /\ n.failed # None => \E d \in Docs :
       ~Parses(Assemble(seed, d)) /\ n.failed = FingerprintOf(d)
  /\ n.tolerant # None => \E d \in Docs : n.tolerant = TolerantOf(seed, d)
  /\ n.session = None \/ n.tolerant = None

DerivedFit(n, f) ==
  /\ n.session = None => n.verify = None /\ n.lint = None /\ n.split = None
  /\ n.verify # None => n.verify = [units |-> n.session.units, format |-> f]
  /\ n.lint # None => n.lint = n.session.units
  /\ n.split # None => n.split = [fp |-> n.session.fp, units |-> n.session.units]

TableFit(n, seed) ==
  /\ n.symbols # None => n.symbols = seed
  /\ n.hashes = First(seed)
  /\ n.rest # None => n.rest.table = TableOf(n.rest.key, First(seed))

MembersFit(n) == n.members \in Seq(Found) /\ Len(n.members) <= Members

Fit(n, seed, f) ==
  /\ Shaped(n) /\ ModelsFit(n, seed) /\ DerivedFit(n, f)
  /\ TableFit(n, seed) /\ MembersFit(n)

\* Documents are told apart by what they are fingerprinted by.
LEMMA FingerprintTells ==
  ASSUME NEW d \in Docs
  PROVE  /\ FingerprintOf(d) \in Fingerprints /\ DOMAIN FingerprintOf(d) = Open(d)
         /\ FingerprintOf(d) # None
         /\ \A d2 \in Docs : FingerprintOf(d2) = FingerprintOf(d) => d2 = d
<1>1. \A e \in Docs : \A u \in Open(e) :
        e[u] = [version |-> e[u].version, text |-> e[u].text]
          /\ e[u].version \in 1 .. MaxVersion /\ e[u].text \in Texts
  BY DEF Docs, Open, Document
<1>2. DOMAIN FingerprintOf(d) = Open(d) /\ Open(d) \in SUBSET Uris
  BY DEF FingerprintOf, Open
<1>3. FingerprintOf(d) \in [Open(d) -> (1 .. MaxVersion) \X Texts]
  BY <1>1 DEF FingerprintOf
<1>4. FingerprintOf(d) \in Fingerprints
  BY <1>2, <1>3 DEF Fingerprints
<1>5. ASSUME NEW d2 \in Docs, FingerprintOf(d2) = FingerprintOf(d)
      PROVE  d2 = d
  <2>1. Open(d2) = Open(d)
    BY <1>2, <1>5 DEF FingerprintOf
  <2>2. \A u \in Open(d) : <<d2[u].version, d2[u].text>> = <<d[u].version, d[u].text>>
    BY <1>5, <2>1 DEF FingerprintOf
  <2>3. \A u \in Open(d) : d2[u].version = d[u].version /\ d2[u].text = d[u].text
    BY <2>2
  <2>4. \A u \in Open(d) : d2[u] = d[u]
    BY <1>1, <2>1, <2>3
  <2>5. \A u \in Uris : d2[u] = d[u]
    BY <2>1, <2>4 DEF Open
  <2> QED BY <2>5 DEF Docs
<1> QED BY <1>2, <1>4, <1>5, NoneAssumption

\* A model that is built is of the sources that are assembled.
LEMMA BuiltIs ==
  ASSUME NEW seed \in Seeded, NEW d \in Docs
  PROVE  /\ BuiltOf(seed, d) # None /\ BuiltOf(seed, d).fp = FingerprintOf(d)
         /\ BuiltOf(seed, d).units = Assemble(seed, d)
         /\ BuiltOf(seed, d).sources = Assemble(seed, d)
<1>1. BuiltOf(seed, d) \in [fp : Fingerprints, units : Seq(Sources), sources : Seq(Sources)]
  BY FingerprintTells, AssembleTyped DEF BuiltOf
<1> QED BY <1>1, NoneAssumption DEF BuiltOf

\* The session is the one of its fingerprint.
LEMMA BuiltNow ==
  ASSUME NEW seed \in Seeded, NEW d \in Docs, NEW n, ModelsFit(n, seed), Built(n, d)
  PROVE  Parses(Assemble(seed, d)) /\ n.session = BuiltOf(seed, d)
<1>1. PICK e \in Docs : Parses(Assemble(seed, e)) /\ n.session = BuiltOf(seed, e)
  BY DEF ModelsFit, Built
<1>2. FingerprintOf(e) = FingerprintOf(d)
  BY <1>1, BuiltIs DEF Built
<1>3. e = d
  BY <1>2, FingerprintTells
<1> QED BY <1>1, <1>3

\* session: it is built when the texts parse.
LEMMA StrictFits ==
  ASSUME NEW seed \in Seeded, NEW d \in Docs, NEW n, NEW f, Fit(n, seed, f)
  PROVE  /\ Fit(Strict(n, seed, d), seed, f)
         /\ Built(Strict(n, seed, d), d) <=> Parses(Assemble(seed, d))
         /\ Built(Strict(n, seed, d), d) => Strict(n, seed, d).session = BuiltOf(seed, d)
<1> DEFINE m == Strict(n, seed, d)
<1>1. FingerprintOf(d) # None
  BY FingerprintTells
<1>2. CASE Built(n, d)
  <2>1. m = n
    BY <1>2 DEF Strict, Built
  <2> HIDE DEF m
  <2>2. Parses(Assemble(seed, d)) /\ n.session = BuiltOf(seed, d)
    BY <1>2, BuiltNow DEF Fit
  <2> QED BY <1>2, <2>1, <2>2 DEF m
<1>3. CASE ~Built(n, d) /\ n.failed = FingerprintOf(d)
  <2>1. m = n
    BY <1>3 DEF Strict
  <2>2. PICK e \in Docs : ~Parses(Assemble(seed, e)) /\ n.failed = FingerprintOf(e)
    BY <1>1, <1>3 DEF Fit, ModelsFit
  <2>3. e = d
    BY <1>3, <2>2, FingerprintTells
  <2> HIDE DEF m
  <2> QED BY <1>3, <2>1, <2>2, <2>3 DEF m
<1>4. CASE ~Built(n, d) /\ n.failed # FingerprintOf(d) /\ ~Parses(Assemble(seed, d))
  <2>1. m = [n EXCEPT !.failed = FingerprintOf(d)]
    BY <1>4 DEF Strict, Built
  <2> HIDE DEF m
  <2>2. /\ Shaped(m) /\ m.failed = FingerprintOf(d) /\ m.session = n.session
        /\ m.tolerant = n.tolerant /\ m.verify = n.verify /\ m.lint = n.lint
        /\ m.split = n.split /\ m.rest = n.rest /\ m.symbols = n.symbols
        /\ m.hashes = n.hashes /\ m.members = n.members
    BY <2>1 DEF Fit, Shaped
  <2>3. ModelsFit(m, seed)
    BY <1>4, <2>2 DEF Fit, ModelsFit
  <2>4. DerivedFit(m, f) /\ TableFit(m, seed) /\ MembersFit(m)
    BY <2>2 DEF Fit, DerivedFit, TableFit, MembersFit
  <2>5. ~Built(m, d)
    BY <1>4, <2>2 DEF Built
  <2> QED BY <1>4, <2>2, <2>3, <2>4, <2>5 DEF Fit, m
<1>5. CASE ~Built(n, d) /\ n.failed # FingerprintOf(d) /\ Parses(Assemble(seed, d))
  <2>1. m = [n EXCEPT !.session = BuiltOf(seed, d), !.tolerant = None,
                      !.latest = "navigation", !.verify = None, !.lint = None, !.split = None]
    BY <1>5 DEF Strict, Built, BuiltOf
  <2> HIDE DEF m
  <2>2. /\ Shaped(m) /\ m.failed = n.failed /\ m.session = BuiltOf(seed, d)
        /\ m.tolerant = None /\ m.verify = None /\ m.lint = None
        /\ m.split = None /\ m.rest = n.rest /\ m.symbols = n.symbols
        /\ m.hashes = n.hashes /\ m.members = n.members
    BY <2>1 DEF Fit, Shaped
  <2>3. ModelsFit(m, seed)
    BY <1>5, <2>2 DEF Fit, ModelsFit
  <2>4. DerivedFit(m, f)
    BY <2>2, BuiltIs DEF DerivedFit
  <2>5. TableFit(m, seed) /\ MembersFit(m)
    BY <2>2 DEF Fit, TableFit, MembersFit
  <2>6. Built(m, d)
    BY <2>2, BuiltIs DEF Built
  <2> QED BY <1>5, <2>2, <2>3, <2>4, <2>5, <2>6 DEF Fit, m
<1> QED BY <1>2, <1>3, <1>4, <1>5

\* read_session: what is read is assembled of the texts now.
LEMMA ToleratedFits ==
  ASSUME NEW seed \in Seeded, NEW d \in Docs, NEW n, NEW f, Fit(n, seed, f)
  PROVE  /\ Fit(Tolerated(n, seed, d), seed, f)
         /\ Tolerated(n, seed, d).tolerant.units = Assemble(seed, d)
<1> DEFINE m == Tolerated(n, seed, d)
<1>1. CASE n.tolerant # None /\ n.tolerant.fp = FingerprintOf(d)
  <2>1. m = n
    BY <1>1 DEF Tolerated
  <2>2. PICK e \in Docs : n.tolerant = TolerantOf(seed, e)
    BY <1>1 DEF Fit, ModelsFit
  <2>3. n.tolerant.fp = FingerprintOf(e) /\ n.tolerant.units = Assemble(seed, e)
    BY <2>2 DEF TolerantOf
  <2>4. e = d
    BY <1>1, <2>3, FingerprintTells
  <2> HIDE DEF m
  <2> QED BY <2>1, <2>3, <2>4 DEF m
<1>2. CASE ~(n.tolerant # None /\ n.tolerant.fp = FingerprintOf(d))
  <2>1. m = [n EXCEPT !.session = None, !.verify = None, !.lint = None, !.split = None,
                      !.tolerant = TolerantOf(seed, d)]
    BY <1>2 DEF Tolerated, TolerantOf
  <2> HIDE DEF m
  <2>2. /\ Shaped(m) /\ m.failed = n.failed /\ m.session = None
        /\ m.tolerant = TolerantOf(seed, d) /\ m.verify = None /\ m.lint = None
        /\ m.split = None /\ m.rest = n.rest /\ m.symbols = n.symbols
        /\ m.hashes = n.hashes /\ m.members = n.members
    BY <2>1 DEF Fit, Shaped
  <2>3. ModelsFit(m, seed)
    BY <2>2 DEF Fit, ModelsFit
  <2>4. DerivedFit(m, f)
    BY <2>2 DEF DerivedFit
  <2>5. TableFit(m, seed) /\ MembersFit(m)
    BY <2>2 DEF Fit, TableFit, MembersFit
  <2>6. m.tolerant.units = Assemble(seed, d)
    BY <2>2 DEF TolerantOf
  <2> QED BY <2>2, <2>3, <2>4, <2>5, <2>6 DEF Fit, m
<1> QED BY <1>1, <1>2

\* completion_session: it is of no seed.
LEMMA CompletingFits ==
  ASSUME NEW n, NEW seed, NEW f, Fit(n, seed, f), NEW sources
  PROVE  /\ Fit(Completing(n, sources), seed, f)
         /\ Completing(n, sources).completion = sources
         /\ Completing(n, sources).members = n.members
<1> DEFINE m == Completing(n, sources)
<1>1. CASE n.completion = sources
  BY <1>1 DEF Completing
<1>2. CASE n.completion # sources
  <2>1. m = [n EXCEPT !.completion = sources, !.latest = "completion"]
    BY <1>2 DEF Completing
  <2> HIDE DEF m
  <2>2. /\ Shaped(m) /\ m.failed = n.failed /\ m.session = n.session
        /\ m.tolerant = n.tolerant /\ m.verify = n.verify /\ m.lint = n.lint
        /\ m.split = n.split /\ m.rest = n.rest /\ m.symbols = n.symbols
        /\ m.hashes = n.hashes /\ m.members = n.members /\ m.completion = sources
    BY <2>1 DEF Fit, Shaped
  <2>3. ModelsFit(m, seed) /\ DerivedFit(m, f) /\ TableFit(m, seed) /\ MembersFit(m)
    BY <2>2 DEF Fit, ModelsFit, DerivedFit, TableFit, MembersFit
  <2> QED BY <2>2, <2>3 DEF Fit, m
<1> QED BY <1>1, <1>2

\* What is derived from the session that stands.
LEMMA DerivingFits ==
  ASSUME NEW n, NEW seed, NEW f, Fit(n, seed, f), n.session # None, NEW m,
         \/ m = [n EXCEPT !.verify = [units |-> n.session.units, format |-> f]]
         \/ m = [n EXCEPT !.lint = n.session.units]
         \/ m = [n EXCEPT !.split = [fp |-> n.session.fp, units |-> n.session.units]]
  PROVE  Fit(m, seed, f) /\ m.session = n.session
<1>1. Shaped(n) /\ ModelsFit(n, seed) /\ DerivedFit(n, f) /\ TableFit(n, seed) /\ MembersFit(n)
  BY DEF Fit
<1>2. /\ Shaped(m) /\ m.failed = n.failed /\ m.session = n.session
      /\ m.tolerant = n.tolerant /\ m.rest = n.rest /\ m.symbols = n.symbols
      /\ m.hashes = n.hashes /\ m.members = n.members
      /\ m.verify \in {n.verify, [units |-> n.session.units, format |-> f]}
      /\ m.lint \in {n.lint, n.session.units}
      /\ m.split \in {n.split, [fp |-> n.session.fp, units |-> n.session.units]}
  BY <1>1 DEF Shaped
<1>3. ModelsFit(m, seed)
  BY <1>1, <1>2 DEF ModelsFit
<1>4. DerivedFit(m, f)
  BY <1>1, <1>2 DEF DerivedFit
<1>5. TableFit(m, seed) /\ MembersFit(m)
  BY <1>1, <1>2 DEF TableFit, MembersFit
<1> QED BY <1>2, <1>3, <1>4, <1>5 DEF Fit

\* invalidate: what a session is or is derived from does not matter.
LEMMA InvalidateFits ==
  ASSUME NEW n, NEW seed, NEW f, Shaped(n), TableFit(n, seed), MembersFit(n)
  PROVE  Fit(Invalidate(n), seed, f)
<1> DEFINE k == InvalidateNavigation(n)
           m == Invalidate(n)
<1>1. k = [n EXCEPT !.session = None, !.failed = None, !.tolerant = None,
                    !.verify = None, !.lint = None, !.split = None]
  BY DEF InvalidateNavigation
<1>2. m = [k EXCEPT !.completion = None]
  BY DEF Invalidate
<1> HIDE DEF k, m
<1>3. /\ Shaped(k) /\ k.failed = None /\ k.session = None
      /\ k.tolerant = None /\ k.verify = None /\ k.lint = None
      /\ k.split = None /\ k.rest = n.rest /\ k.symbols = n.symbols
      /\ k.hashes = n.hashes /\ k.members = n.members
  BY <1>1 DEF Shaped
<1>4. /\ Shaped(m) /\ m.failed = None /\ m.session = None
      /\ m.tolerant = None /\ m.verify = None /\ m.lint = None
      /\ m.split = None /\ m.rest = n.rest /\ m.symbols = n.symbols
      /\ m.hashes = n.hashes /\ m.members = n.members
  BY <1>2, <1>3 DEF Shaped
<1>5. ModelsFit(m, seed) /\ TableFit(m, seed) /\ MembersFit(m)
  BY <1>4 DEF ModelsFit, TableFit, MembersFit
<1>6. DerivedFit(m, f)
  BY <1>4 DEF DerivedFit
<1> QED BY <1>4, <1>5, <1>6 DEF Fit, m

\* set_number_format, and what is seeded where it may not stand.
LEMMA DroppedFits ==
  ASSUME NEW n, NEW seed, NEW f, Fit(n, seed, f), NEW f2
  PROVE  /\ Fit([n EXCEPT !.verify = None], seed, f2)
         /\ \A units \in Seeds :
              Fit([InvalidateNavigation(n) EXCEPT
                     !.symbols = None, !.rest = None, !.hashes = units], units, f2)
<1>1. Shaped(n) /\ ModelsFit(n, seed) /\ DerivedFit(n, f) /\ TableFit(n, seed) /\ MembersFit(n)
  BY DEF Fit
<1> DEFINE k == InvalidateNavigation(n)
<1>11. k = [n EXCEPT !.session = None, !.failed = None, !.tolerant = None,
                     !.verify = None, !.lint = None, !.split = None]
  BY DEF InvalidateNavigation
<1> HIDE DEF k
<1>13. /\ Shaped(k) /\ k.failed = None /\ k.session = None
       /\ k.tolerant = None /\ k.verify = None /\ k.lint = None
       /\ k.split = None /\ k.rest = n.rest /\ k.symbols = n.symbols
       /\ k.hashes = n.hashes /\ k.members = n.members
  BY <1>1, <1>11 DEF Shaped
<1>2. Fit([n EXCEPT !.verify = None], seed, f2)
  <2> DEFINE m == [n EXCEPT !.verify = None]
  <2>1. /\ Shaped(m) /\ m.failed = n.failed /\ m.session = n.session
        /\ m.tolerant = n.tolerant /\ m.verify = None /\ m.lint = n.lint
        /\ m.split = n.split /\ m.rest = n.rest /\ m.symbols = n.symbols
        /\ m.hashes = n.hashes /\ m.members = n.members
    BY <1>1 DEF Shaped
  <2> HIDE DEF m
  <2>2. ModelsFit(m, seed) /\ TableFit(m, seed) /\ MembersFit(m)
    BY <1>1, <2>1 DEF ModelsFit, TableFit, MembersFit
  <2>3. DerivedFit(m, f2)
    BY <1>1, <2>1 DEF DerivedFit
  <2> QED BY <2>1, <2>2, <2>3 DEF Fit, m
<1>4. ASSUME NEW units \in Seeds
      PROVE  Fit([InvalidateNavigation(n) EXCEPT
                    !.symbols = None, !.rest = None, !.hashes = units], units, f2)
  <2> DEFINE m == [k EXCEPT !.symbols = None, !.rest = None, !.hashes = units]
  <2>1. /\ Shaped(m) /\ m.failed = None /\ m.session = None
        /\ m.tolerant = None /\ m.verify = None /\ m.lint = None
        /\ m.split = None /\ m.rest = None /\ m.symbols = None
        /\ m.hashes = units /\ m.members = n.members
    <3>1. m = [k EXCEPT !.symbols = None, !.rest = None, !.hashes = units]
      OBVIOUS
    <3> HIDE DEF m
    <3> QED BY <1>13, <3>1 DEF Shaped
  <2> HIDE DEF m
  <2>2. ModelsFit(m, units) /\ MembersFit(m)
    BY <1>1, <2>1 DEF ModelsFit, MembersFit
  <2>3. DerivedFit(m, f2)
    BY <2>1 DEF DerivedFit
  <2>4. TableFit(m, units)
    BY <2>1, NoneAssumption DEF TableFit, First
  <2> QED BY <2>1, <2>2, <2>3, <2>4 DEF Fit, m, k
<1> QED BY <1>2, <1>4

\* all_workspace_symbols
LEMMA TableIs ==
  ASSUME NEW d, NEW u \in Open(d), NEW q
  PROVE  TableOf(RestKey(d, u), q) = RestTable(q, d, u)
<1>1. /\ RestKey(d, u).current = u /\ DOMAIN RestKey(d, u).others = Open(d) \ {u}
      /\ \A v \in Open(d) \ {u} : RestKey(d, u).others[v] = d[v].text
  BY DEF RestKey
<1>2. DOMAIN RestKey(d, u).others \cup {RestKey(d, u).current} = Open(d)
  BY <1>1
<1>3. {Source(v, RestKey(d, u).others[v]) : v \in DOMAIN RestKey(d, u).others}
        = {Source(v, d[v].text) : v \in Open(d) \ {u}}
  BY <1>1
<1> QED BY <1>2, <1>3 DEF TableOf, RestTable

\* Filling the table of resting members keeps everything held in step.
LEMMA RestingFits ==
  ASSUME NEW seed \in Seeded, NEW d, NEW u \in Open(d), NEW n, NEW f, Fit(n, seed, f)
  PROVE  /\ Fit(Resting(n, seed, d, u), seed, f)
         /\ Resting(n, seed, d, u).rest.table = RestTable(First(seed), d, u)
<1> DEFINE m == Resting(n, seed, d, u)
           key == RestKey(d, u)
<1>1. Shaped(n) /\ ModelsFit(n, seed) /\ DerivedFit(n, f) /\ TableFit(n, seed) /\ MembersFit(n)
  BY DEF Fit
<1>2. CASE n.rest # None /\ n.rest.key = key
  <2>1. m = n
    BY <1>2 DEF Resting
  <2>2. n.rest.table = RestTable(First(seed), d, u)
    BY <1>1, <1>2, TableIs DEF TableFit
  <2> HIDE DEF m
  <2> QED BY <2>1, <2>2 DEF m
<1>3. CASE ~(n.rest # None /\ n.rest.key = key)
  <2> DEFINE rest == [key |-> key, table |-> RestTable(First(seed), d, u)]
  <2>1. (IF n.symbols = None THEN seed ELSE n.symbols) = seed
    BY <1>1 DEF TableFit
  <2>2. m = IF seed = None THEN [n EXCEPT !.rest = rest]
            ELSE [n EXCEPT !.symbols = seed, !.rest = rest]
    BY <1>3, <2>1 DEF Resting, First
  <2>3. rest.key = key /\ rest.table = TableOf(key, First(seed))
    BY TableIs
  <2> HIDE DEF m, rest
  <2>4. /\ Shaped(m) /\ m.failed = n.failed /\ m.session = n.session
        /\ m.tolerant = n.tolerant /\ m.verify = n.verify /\ m.lint = n.lint
        /\ m.split = n.split /\ m.rest = rest /\ m.symbols \in {n.symbols, seed}
        /\ m.hashes = n.hashes /\ m.members = n.members
    BY <1>1, <2>2 DEF Shaped
  <2>5. ModelsFit(m, seed) /\ DerivedFit(m, f) /\ MembersFit(m)
    BY <1>1, <2>4 DEF ModelsFit, DerivedFit, MembersFit
  <2>6. TableFit(m, seed)
    BY <1>1, <2>3, <2>4 DEF TableFit
  <2>7. m.rest.table = RestTable(First(seed), d, u)
    BY <2>3, <2>4, TableIs
  <2> QED BY <2>4, <2>5, <2>6, <2>7 DEF Fit, m
<1> QED BY <1>2, <1>3

\* read_inherited: a member that is known, or read off a model of the same
\* texts outside the body, is what it would be found to be.
LEMMA FoundHas ==
  ASSUME NEW seed \in Seeded, NEW d \in Docs, NEW u \in Uris, d[u] # None
  PROVE  /\ [key |-> KeyOf(seed, d, u), found |-> FoundOf(seed, d, u)] \in Found
         /\ \A m \in Found : m.key = KeyOf(seed, d, u) => m.found = FoundOf(seed, d, u)
<1>1. <<seed, d, u>> \in Worked
  BY DEF Worked
<1>2. ASSUME NEW m \in Found, m.key = KeyOf(seed, d, u)
      PROVE  m.found = FoundOf(seed, d, u)
  <2>1. PICK x \in Worked :
          m = [key |-> KeyOf(x[1], x[2], x[3]), found |-> FoundOf(x[1], x[2], x[3])]
    BY DEF Found
  <2>2. x[1] \in Seeded /\ x[2] \in Docs /\ x[3] \in Uris /\ x[2][x[3]] # None
    BY DEF Worked
  <2>3. KeyOf(x[1], x[2], x[3]) = KeyOf(seed, d, u)
    BY <1>2, <2>1
  <2>4. FoundOf(x[1], x[2], x[3]) = FoundOf(seed, d, u)
    BY <2>2, <2>3, SameMembers
  <2> QED BY <2>1, <2>4
<1> QED BY <1>1, <1>2 DEF Found

\* Remembering what was found keeps everything held in step.
LEMMA RememberFits ==
  ASSUME NEW seed \in Seeded, NEW d \in Docs, NEW u \in Uris, d[u] # None,
         NEW n, NEW f, Fit(n, seed, f)
  PROVE  LET m == Remember(n, KeyOf(seed, d, u), FoundOf(seed, d, u))
         IN  Fit(m, seed, f) /\ m.members[1].found = FoundOf(seed, d, u)
<1> DEFINE key == KeyOf(seed, d, u)
           found == FoundOf(seed, d, u)
           x == [key |-> key, found |-> found]
           others == Only(n.members, {m \in Range(n.members) : m.key # key})
           all == <<x>> \o others
           len == IF Len(all) < Members THEN Len(all) ELSE Members
           kept == SubSeq(all, 1, len)
           m == Remember(n, key, found)
<1>1. Shaped(n) /\ ModelsFit(n, seed) /\ DerivedFit(n, f) /\ TableFit(n, seed) /\ MembersFit(n)
  BY DEF Fit
<1>2. m = [n EXCEPT !.members = kept]
  BY DEF Remember
<1>3. x \in Found /\ x.found = found
  BY FoundHas
<1>4. others \in Seq(Found)
  <2> DEFINE T == {y \in Range(n.members) : y.key # key}
  <2>1. n.members \in Seq(Found)
    BY <1>1 DEF MembersFit
  <2> HIDE DEF T
  <2>2. Only(n.members, T) \in Seq(Found)
    BY <2>1, OnlyRange
  <2> QED BY <2>2 DEF T
<1> HIDE DEF others, x, m, found
<1>5. all \in Seq(Found) /\ Len(all) \in Nat /\ Len(all) >= 1 /\ all[1] = x
  BY <1>3, <1>4
<1>6. len \in 1 .. Len(all) /\ len <= Members
  BY <1>5, NavAssumption
<1> HIDE DEF all, len
<1>7. kept \in Seq(Found) /\ Len(kept) = len /\ kept[1] = all[1]
  BY <1>5, <1>6
<1> HIDE DEF kept
<1>8. /\ Shaped(m) /\ m.failed = n.failed /\ m.session = n.session
      /\ m.tolerant = n.tolerant /\ m.verify = n.verify /\ m.lint = n.lint
      /\ m.split = n.split /\ m.rest = n.rest /\ m.symbols = n.symbols
      /\ m.hashes = n.hashes /\ m.members = kept
  BY <1>1, <1>2 DEF Shaped
<1>9. ModelsFit(m, seed) /\ DerivedFit(m, f) /\ TableFit(m, seed)
  BY <1>1, <1>8 DEF ModelsFit, DerivedFit, TableFit
<1>10. MembersFit(m)
  BY <1>6, <1>7, <1>8 DEF MembersFit
<1>11. m.members[1].found = found
  BY <1>3, <1>5, <1>7, <1>8
<1> QED BY <1>8, <1>9, <1>10, <1>11 DEF Fit, m, found

\* The first of what is left is in the set and in the sequence.
LEMMA FirstKept ==
  ASSUME NEW S, NEW q \in Seq(S), NEW T, Only(q, T) # <<>>
  PROVE  Only(q, T)[1] \in T /\ \E i \in 1 .. Len(q) : q[i] = Only(q, T)[1]
<1> DEFINE p == Only(q, T)
<1>1. p \in Seq(S) /\ {p[i] : i \in 1 .. Len(p)} = {q[i] : i \in 1 .. Len(q)} \cap T
  BY OnlyRange
<1> HIDE DEF p
<1>2. p # <<>>
  BY DEF p
<1>3. 1 \in 1 .. Len(p)
  BY <1>1, <1>2
<1>4. p[1] \in {q[i] : i \in 1 .. Len(q)} \cap T
  BY <1>1, <1>3
<1> QED BY <1>4 DEF p

\* outside_unchanged: of the same texts outside the body.
LEMMA ReadableIs ==
  ASSUME NEW n, NEW seed \in Seeded, ModelsFit(n, seed), NEW now, NEW u,
         Readable(n, now, u) # <<>>
  PROVE  Around(Readable(n, now, u)[1].units, u) = Around(now, u)
<1> DEFINE c == [units |-> n.completion, sources |-> n.completion]
           S == {b \in {n.session, c} : b.units = b.sources}
           navigation == IF n.session = None THEN <<>> ELSE <<n.session>>
           completion == IF n.completion = None THEN <<>> ELSE <<c>>
           built == IF n.latest = "navigation" THEN navigation \o completion
                                               ELSE completion \o navigation
           T == {b \in Range(built) : Around(b.sources, u) = Around(now, u)}
<1>1. n.session # None => n.session \in S
  <2>1. ASSUME n.session # None PROVE n.session.units = n.session.sources
    BY <2>1, BuiltIs DEF ModelsFit
  <2> QED BY <2>1
<1>2. c \in S
  OBVIOUS
<1>3. Readable(n, now, u) = Only(built, T)
  BY DEF Readable
<1> HIDE DEF S, c
<1>4. navigation \in Seq(S) /\ completion \in Seq(S)
  <2>1. <<>> \in Seq(S)
    OBVIOUS
  <2>2. \A x \in S : <<x>> \in Seq(S)
    OBVIOUS
  <2> QED BY <1>1, <1>2, <2>1, <2>2
<1> HIDE DEF navigation, completion
<1>5. built \in Seq(S)
  BY <1>4
<1> HIDE DEF built
<1>6. \A b \in T : Around(b.sources, u) = Around(now, u)
  OBVIOUS
<1> HIDE DEF T
<1> DEFINE r == Only(built, T)[1]
<1>7. r \in T /\ \E i \in 1 .. Len(built) : built[i] = r
  BY <1>3, <1>5, FirstKept
<1> HIDE DEF r
<1>8. r \in S
  BY <1>5, <1>7
<1>9. Around(r.sources, u) = Around(now, u) /\ r.units = r.sources
  BY <1>6, <1>7, <1>8 DEF S
<1> QED BY <1>3, <1>9 DEF r

\* Cutting the sources leaves those around the document.
LEMMA CutIs ==
  ASSUME NEW now \in Seq(Sources), NEW u
  PROVE  Around(CutSources(now, u), u) = Around(now, u)
<1> DEFINE cut == CutSources(now, u)
<1>1. DOMAIN cut = DOMAIN now /\ DOMAIN Around(cut, u) = DOMAIN now
      /\ DOMAIN Around(now, u) = DOMAIN now
  BY DEF CutSources, Around
<1>2. ASSUME NEW i \in DOMAIN now PROVE Around(cut, u)[i] = Around(now, u)[i]
  <2>1. cut[i] = IF now[i].name = u THEN Source(u, Text(now[i].text.header, "cut")) ELSE now[i]
    BY DEF CutSources
  <2>2. Source(u, Text(now[i].text.header, "cut")).name = u
        /\ Source(u, Text(now[i].text.header, "cut")).text.header = now[i].text.header
    BY DEF Source, Text
  <2>3. Around(cut, u)[i] = IF cut[i].name = u THEN Source(u, Text(cut[i].text.header, "any"))
                            ELSE cut[i]
    BY <1>1 DEF Around
  <2>4. Around(now, u)[i] = IF now[i].name = u THEN Source(u, Text(now[i].text.header, "any"))
                            ELSE now[i]
    BY DEF Around
  <2> HIDE DEF cut
  <2> QED BY <2>1, <2>2, <2>3, <2>4
<1>3. /\ Around(cut, u) = [i \in DOMAIN now |-> Around(cut, u)[i]]
      /\ Around(now, u) = [i \in DOMAIN now |-> Around(now, u)[i]]
  BY <1>1 DEF Around
<1>4. [i \in DOMAIN now |-> Around(cut, u)[i]] = [i \in DOMAIN now |-> Around(now, u)[i]]
  BY <1>2
<1> QED BY <1>3, <1>4

\* Asking for inherited members keeps everything held in step and remembers them.
LEMMA InheritedFits ==
  ASSUME NEW seed \in Seeded, NEW d \in Docs, NEW u \in Uris, d[u] # None,
         NEW n, NEW f, Fit(n, seed, f)
  PROVE  /\ Fit(Inherited(n, seed, d, u), seed, f)
         /\ Inherited(n, seed, d, u).members[1].found = FoundOf(seed, d, u)
<1> DEFINE key == MemberKey(n, d, u)
           now == Assemble(seed, d)
           T == {m \in Range(n.members) : m.key = key}
           known == Only(n.members, T)
           readable == Readable(n, now, u)
           cut == CutSources(now, u)
           found == FoundOf(seed, d, u)
           m == Inherited(n, seed, d, u)
<1>1. Shaped(n) /\ ModelsFit(n, seed) /\ DerivedFit(n, f) /\ TableFit(n, seed) /\ MembersFit(n)
  BY DEF Fit
<1>2. key = KeyOf(seed, d, u)
  BY <1>1 DEF TableFit, MemberKey, KeyOf, Unopened
<1>3. now \in Seq(Sources) /\ Range(Around(now, u)) = found
  BY AssembleTyped DEF FoundOf
<1>4. m = IF known # <<>> THEN Remember(n, key, known[1].found)
          ELSE IF readable # <<>> THEN Remember(n, key, Range(Around(readable[1].units, u)))
          ELSE Remember(Completing(n, cut), key, Range(Around(cut, u)))
  BY DEF Inherited
<1>5. known # <<>> => known[1].found = found
  <2> SUFFICES ASSUME known # <<>> PROVE known[1].found = found
    OBVIOUS
  <2>1. n.members \in Seq(Found)
    BY <1>1 DEF MembersFit
  <2>2. \A x \in T : x.key = key
    OBVIOUS
  <2> HIDE DEF T
  <2>3. known[1] \in T /\ \E i \in 1 .. Len(n.members) : n.members[i] = known[1]
    BY <2>1, FirstKept
  <2> HIDE DEF known, key, found
  <2>4. known[1] \in Found
    BY <2>1, <2>3
  <2> QED BY <1>2, <2>2, <2>3, <2>4, FoundHas DEF found
<1>6. readable # <<>> => Range(Around(readable[1].units, u)) = found
  BY <1>1, <1>3, ReadableIs
<1>7. Range(Around(cut, u)) = found
  BY <1>3, CutIs
<1>8. Fit(Completing(n, cut), seed, f)
  BY CompletingFits
<1> HIDE DEF key, known, readable, cut, m, found
<1>9. m = Remember(n, key, found) \/ m = Remember(Completing(n, cut), key, found)
  BY <1>4, <1>5, <1>6, <1>7
<1> QED BY <1>2, <1>8, <1>9, RememberFits DEF m, found

\* set_workspace_sources: what stands over the units that are seeded again is
\* what they assemble.
LEMMA ReseedFits ==
  ASSUME seeded \in Seeded, NEW f, Fit(nav, seeded, f), NEW units \in Seeds,
         SameNames(units), OverlaidWhereverHeld(Reseeded(units), units)
  PROVE  Fit(Reseed(units, Reseeded(units)), units, f)
<1> DEFINE m == Reseed(units, Reseeded(units))
           changed == Reseeded(units)
<1>1. Shaped(nav) /\ ModelsFit(nav, seeded) /\ DerivedFit(nav, f)
      /\ TableFit(nav, seeded) /\ MembersFit(nav)
  BY DEF Fit
<1>2. /\ seeded \in Seeds /\ seeded \in Seq(Sources) /\ units \in Seq(Sources)
      /\ First(seeded) = seeded /\ First(units) = units
  BY NavAssumption, NoneAssumption DEF SameNames, Seeded, First
<1>3. Alike(seeded, units)
  <2>1. [i \in DOMAIN units |-> units[i].name] = [i \in DOMAIN seeded |-> seeded[i].name]
    BY DEF SameNames
  <2>2. DOMAIN units = DOMAIN seeded /\ \A i \in DOMAIN units : units[i].name = seeded[i].name
    BY <2>1
  <2> QED BY <1>2, <2>2 DEF Alike
<1>4. \A i \in 1 .. Len(seeded) : units[i] # seeded[i] => i \in changed
  BY <1>2, <1>3 DEF Alike, Reseeded
<1>5. ASSUME NEW d \in Docs,
             \A i \in changed : OverlaidBy(Open(d), units, i)
      PROVE  Assemble(units, d) = Assemble(seeded, d)
  BY <1>2, <1>3, <1>4, <1>5, ReseedBeneath
<1>6. ModelsFit(nav, units)
  <2>1. ASSUME nav.session # None
        PROVE  \E d \in Docs : Parses(Assemble(units, d)) /\ nav.session = BuiltOf(units, d)
    <3>1. PICK d \in Docs : Parses(Assemble(seeded, d)) /\ nav.session = BuiltOf(seeded, d)
      BY <1>1, <2>1 DEF ModelsFit
    <3>2. DOMAIN nav.session.fp = Open(d)
      BY <3>1, FingerprintTells, BuiltIs
    <3>3. Assemble(units, d) = Assemble(seeded, d)
      BY <1>5, <2>1, <3>2 DEF OverlaidWhereverHeld
    <3> QED BY <3>1, <3>3 DEF BuiltOf
  <2>2. ASSUME nav.failed # None
        PROVE  \E d \in Docs : ~Parses(Assemble(units, d)) /\ nav.failed = FingerprintOf(d)
    <3>1. PICK d \in Docs : ~Parses(Assemble(seeded, d)) /\ nav.failed = FingerprintOf(d)
      BY <1>1, <2>2 DEF ModelsFit
    <3>2. DOMAIN nav.failed = Open(d)
      BY <3>1, FingerprintTells
    <3>3. Assemble(units, d) = Assemble(seeded, d)
      BY <1>5, <2>2, <3>2 DEF OverlaidWhereverHeld
    <3> QED BY <3>1, <3>3
  <2>3. ASSUME nav.tolerant # None
        PROVE  \E d \in Docs : nav.tolerant = TolerantOf(units, d)
    <3>1. PICK d \in Docs : nav.tolerant = TolerantOf(seeded, d)
      BY <1>1, <2>3 DEF ModelsFit
    <3>2. DOMAIN nav.tolerant.fp = Open(d)
      BY <3>1, FingerprintTells DEF TolerantOf
    <3>3. Assemble(units, d) = Assemble(seeded, d)
      BY <1>5, <2>3, <3>2 DEF OverlaidWhereverHeld
    <3> QED BY <3>1, <3>3 DEF TolerantOf
  <2> QED BY <1>1, <2>1, <2>2, <2>3 DEF ModelsFit
<1>7. CASE changed = {}
  <2>1. \A i \in 1 .. Len(seeded) : units[i] = seeded[i]
    BY <1>4, <1>7
  <2>2. units = seeded
    BY <1>2, <1>3, <2>1, SeqEqual DEF Alike
  <2>3. m = nav
    BY <1>7 DEF Reseed
  <2> HIDE DEF m
  <2> QED BY <2>2, <2>3 DEF m
<1>8. CASE changed # {}
  <2> DEFINE beneath == nav.rest # None /\ \A i \in changed :
               units[i].name \in {nav.rest.key.current} \cup DOMAIN nav.rest.key.others
             rest == IF beneath THEN nav.rest ELSE None
  <2>1. m = [nav EXCEPT !.symbols = None, !.hashes = units, !.rest = rest]
    BY <1>8 DEF Reseed
  <2>2. ASSUME beneath PROVE nav.rest.table = TableOf(nav.rest.key, units)
    <3> DEFINE held == DOMAIN nav.rest.key.others \cup {nav.rest.key.current}
    <3>1. nav.rest.table = TableOf(nav.rest.key, seeded)
      BY <1>1, <1>2, <2>2 DEF TableFit
    <3>2. \A i \in 1 .. Len(seeded) : /\ units[i].name = seeded[i].name
                                      /\ units[i].name \notin held => units[i] = seeded[i]
      BY <1>3, <1>4, <2>2 DEF Alike
    <3>3. DOMAIN units = 1 .. Len(seeded) /\ DOMAIN seeded = 1 .. Len(seeded)
      BY <1>2, <1>3 DEF Alike
    <3> HIDE DEF held
    <3>4. {s \in Range(units) : s.name \notin held} = {s \in Range(seeded) : s.name \notin held}
      BY <3>2, <3>3 DEF Range
    <3> QED BY <3>1, <3>4 DEF TableOf, held
  <2>3. rest # None => rest.table = TableOf(rest.key, units)
    BY <2>2
  <2> HIDE DEF m, rest
  <2>4. /\ Shaped(m) /\ m.failed = nav.failed /\ m.session = nav.session
        /\ m.tolerant = nav.tolerant /\ m.verify = nav.verify /\ m.lint = nav.lint
        /\ m.split = nav.split /\ m.rest = rest /\ m.symbols = None
        /\ m.hashes = units /\ m.members = nav.members
    BY <1>1, <2>1 DEF Shaped
  <2>5. ModelsFit(m, units) /\ DerivedFit(m, f) /\ MembersFit(m)
    BY <1>1, <1>6, <2>4 DEF ModelsFit, DerivedFit, MembersFit
  <2>6. TableFit(m, units)
    BY <1>2, <2>3, <2>4 DEF TableFit
  <2> QED BY <2>4, <2>5, <2>6 DEF Fit, m
<1> QED BY <1>7, <1>8

----------------------------------------------------------------------------
(****************************************************************************)
(* Every step keeps what is kept fit, and answers as a server would that    *)
(* keeps nothing.                                                           *)
(****************************************************************************)

FreshOf(to, u, seed, d, f) ==
  LET now    == Assemble(seed, d)
      parses == Parses(now) /\ u \in Named(now)
  IN  CASE to = "hints" -> IF parses
             THEN [units |-> now, ranges |-> [units |-> now, format |-> f]] ELSE None
        [] to \in {"lint", "split"} -> IF parses THEN now ELSE None
        [] to = "rename"    -> IF Parses(now) THEN now ELSE None
        [] to = "read"      -> now
        [] to = "statement" -> CutSources(now, u)
        [] to = "members"   -> FoundOf(seed, d, u)
        [] to = "symbols"   -> [own |-> d[u].text, rest |-> RestTable(First(seed), d, u)]

\* A fresh answer by the documents, seeds and format.
LEMMA FreshIs == \A to, u : Fresh(to, u) = FreshOf(to, u, seeded, docs, format)
BY DEF Fresh, FreshOf, FoundOf, First

\* The same after a step.
LEMMA FreshNext == \A to, u : Fresh(to, u)' = FreshOf(to, u, seeded', docs', format')
BY DEF Fresh, FreshOf, FoundOf, First

NavInv ==
  /\ docs \in Docs /\ seeded \in Seeded /\ format \in Formats /\ moved \in BOOLEAN
  /\ client = [held |-> client.held, asked |-> client.asked]
  /\ client.held = [u \in Uris |-> client.held[u]]
  /\ client.asked \subseteq Open(docs)
  /\ Fit(nav, seeded, format)

HintsOf(holds, seed, d, f) ==
  \A u \in Open(d) :
    holds.held[u] \in {<<>>, <<FreshOf("hints", u, seed, d, f)>>} \/ u \in holds.asked

\* The hints of the client by the documents, seeds and format.
LEMMA HintsAre ==
  /\ HintsCurrent <=> (~moved => HintsOf(client, seeded, docs, format))
  /\ HintsCurrent' <=> (~moved' => HintsOf(client', seeded', docs', format'))
<1>1. HintsCurrent <=> (~moved => HintsOf(client, seeded, docs, format))
  BY FreshIs DEF HintsCurrent, HintsOf
<1>2. HintsCurrent' <=> (~moved' => HintsOf(client', seeded', docs', format'))
  BY FreshNext DEF HintsCurrent, HintsOf
<1> QED BY <1>1, <1>2

\* A request that is answered as it should be leaves the rest as it is.
LEMMA AnsweredWell ==
  ASSUME NavInv, HintsCurrent, NEW u \in Opened, Asks(u), UNCHANGED client,
         Fit(nav', seeded, format), NEW to,
         answer' = [to |-> to, of |-> u, given |-> FreshOf(to, u, seeded, docs, format)]
  PROVE  NavInv' /\ AnswersCurrent' /\ HintsCurrent'
<1>1. docs' = docs /\ seeded' = seeded /\ format' = format /\ moved' = moved /\ client' = client
  BY DEF Asks, Message
<1>2. NavInv'
  BY <1>1 DEF NavInv
<1>3. AnswersCurrent'
  BY <1>1, FreshNext DEF AnswersCurrent
<1>4. HintsCurrent'
  BY <1>1, HintsAre
<1> QED BY <1>2, <1>3, <1>4

\* The strict session, when a request has asked for it.
LEMMA StrictNow ==
  ASSUME NavInv, NEW u
  PROVE  LET n == Strict(nav, seeded, docs)
             now == Assemble(seeded, docs)
         IN  /\ Fit(n, seeded, format)
             /\ Built(n, docs) <=> Parses(now)
             /\ Built(n, docs) => n.session # None /\ n.session.units = now
             /\ Holds(n, u) <=> Parses(now) /\ u \in Named(now)
<1> DEFINE n == Strict(nav, seeded, docs)
           now == Assemble(seeded, docs)
<1>1. docs \in Docs /\ seeded \in Seeded /\ Fit(nav, seeded, format)
  BY DEF NavInv
<1>2. /\ Fit(n, seeded, format)
      /\ Built(n, docs) <=> Parses(now)
      /\ Built(n, docs) => n.session = BuiltOf(seeded, docs)
  BY <1>1, StrictFits
<1> HIDE DEF n
<1>3. Built(n, docs) => n.session # None /\ n.session.units = now
  BY <1>1, <1>2, BuiltIs
<1>4. Holds(n, u) <=> Parses(now) /\ u \in Named(now)
  BY <1>2, <1>3 DEF Holds
<1> QED BY <1>2, <1>3, <1>4 DEF n

\* Inlay hints are answered from the documents as they are.
LEMMA HintsAnswered ==
  ASSUME NavInv, HintsCurrent, NEW u \in Opened, Hints(u)
  PROVE  NavInv' /\ AnswersCurrent' /\ HintsCurrent'
<1> DEFINE n == Strict(nav, seeded, docs)
           now == Assemble(seeded, docs)
           given == IF Holds(n, u)
                    THEN [units |-> n.session.units, ranges |-> Verified(n).verify] ELSE None
<1>1. /\ Asks(u) /\ nav' = (IF Holds(n, u) THEN Verified(n) ELSE n)
      /\ client' = [client EXCEPT !.held[u] = <<given>>, !.asked = @ \ {u}]
      /\ answer' = [to |-> "hints", of |-> u, given |-> given]
  BY DEF Hints, Answered
<1>2. /\ Fit(n, seeded, format)
      /\ Built(n, docs) => n.session # None /\ n.session.units = now
      /\ Holds(n, u) <=> Parses(now) /\ u \in Named(now)
  BY StrictNow
<1>3. /\ docs' = docs /\ seeded' = seeded /\ format' = format /\ moved' = moved
      /\ u \in Uris /\ docs[u] # None
  BY <1>1, NavAssumption DEF Asks, Message
<1> HIDE DEF n
<1>4. ASSUME Holds(n, u)
      PROVE  /\ Fit(Verified(n), seeded, format)
             /\ Verified(n).verify = [units |-> now, format |-> format]
             /\ n.session.units = now
  <2>1. n.session # None /\ n.session.units = now
    BY <1>2, <1>4 DEF Holds
  <2>2. CASE n.verify # None
    <3>1. Verified(n) = n
      BY <2>2 DEF Verified
    <3>2. n.verify = [units |-> now, format |-> format]
      BY <1>2, <2>1, <2>2 DEF Fit, DerivedFit
    <3> QED BY <1>2, <2>1, <3>1, <3>2
  <2>3. CASE n.verify = None
    <3>1. Verified(n) = [n EXCEPT !.verify = [units |-> n.session.units, format |-> format]]
      BY <2>3 DEF Verified
    <3>2. Fit(Verified(n), seeded, format)
      BY <1>2, <2>1, <3>1, DerivingFits
    <3>3. Verified(n).verify = [units |-> now, format |-> format]
      BY <1>2, <2>1, <3>1 DEF Fit, Shaped
    <3> QED BY <2>1, <3>2, <3>3
  <2> QED BY <2>2, <2>3
<1>5. Fit(nav', seeded, format)
  BY <1>1, <1>2, <1>4
<1>6. given = FreshOf("hints", u, seeded, docs, format)
  BY <1>2, <1>4 DEF FreshOf
<1> HIDE DEF given
<1>7. /\ client' = [held |-> client'.held, asked |-> client'.asked]
      /\ client'.held = [v \in Uris |-> client'.held[v]]
      /\ client'.asked = client.asked \ {u}
      /\ client'.held[u] = <<given>>
      /\ \A v \in Uris \ {u} : client'.held[v] = client.held[v]
  BY <1>1, <1>3 DEF NavInv
<1>8. NavInv'
  BY <1>3, <1>5, <1>7 DEF NavInv
<1>9. AnswersCurrent'
  BY <1>1, <1>3, <1>6, FreshNext DEF AnswersCurrent
<1>10. HintsCurrent'
  <2> SUFFICES ASSUME ~moved, HintsOf(client, seeded, docs, format)
               PROVE  HintsOf(client', seeded, docs, format)
    BY <1>3, HintsAre
  <2>1. Open(docs) \subseteq Uris
    BY DEF Open
  <2> QED BY <1>6, <1>7, <2>1 DEF HintsOf
<1> QED BY <1>8, <1>9, <1>10

\* So are fixes of lint findings.
LEMMA LintAnswered ==
  ASSUME NavInv, HintsCurrent, NEW u \in Opened, LintFixes(u)
  PROVE  NavInv' /\ AnswersCurrent' /\ HintsCurrent'
<1> DEFINE n == Strict(nav, seeded, docs)
           now == Assemble(seeded, docs)
           linted == IF n.lint = None THEN n.session.units ELSE n.lint
           given == IF Holds(n, u) THEN linted ELSE None
<1>1. /\ Asks(u) /\ nav' = (IF Built(n, docs) THEN [n EXCEPT !.lint = linted] ELSE n)
      /\ answer' = [to |-> "lint", of |-> u, given |-> given] /\ client' = client
  BY DEF LintFixes, Answered
<1>2. /\ Fit(n, seeded, format)
      /\ Built(n, docs) => n.session # None /\ n.session.units = now
      /\ Holds(n, u) <=> Parses(now) /\ u \in Named(now)
  BY StrictNow
<1> HIDE DEF n
<1>3. Built(n, docs) => linted = n.session.units
  BY <1>2 DEF Fit, DerivedFit
<1> HIDE DEF linted
<1>4. Fit(nav', seeded, format)
  BY <1>1, <1>2, <1>3, DerivingFits
<1>5. Holds(n, u) => linted = now
  BY <1>2, <1>3 DEF Holds
<1>6. given = FreshOf("lint", u, seeded, docs, format)
  BY <1>2, <1>5 DEF FreshOf
<1> HIDE DEF given
<1> QED BY <1>1, <1>4, <1>6, AnsweredWell

\* So are actions that split a document.
LEMMA SplitAnswered ==
  ASSUME NavInv, HintsCurrent, NEW u \in Opened, SplitActions(u)
  PROVE  NavInv' /\ AnswersCurrent' /\ HintsCurrent'
<1> DEFINE n == Strict(nav, seeded, docs)
           now == Assemble(seeded, docs)
           plan == IF n.split # None /\ n.split.fp = n.session.fp THEN n.split
                   ELSE [fp |-> n.session.fp, units |-> n.session.units]
           given == IF Holds(n, u) THEN plan.units ELSE None
<1>1. /\ Asks(u) /\ nav' = (IF Holds(n, u) THEN [n EXCEPT !.split = plan] ELSE n)
      /\ answer' = [to |-> "split", of |-> u, given |-> given] /\ client' = client
  BY DEF SplitActions, Answered
<1>2. /\ Fit(n, seeded, format)
      /\ Built(n, docs) => n.session # None /\ n.session.units = now
      /\ Holds(n, u) <=> Parses(now) /\ u \in Named(now)
  BY StrictNow
<1> HIDE DEF n
<1>3. plan = [fp |-> n.session.fp, units |-> n.session.units]
  BY <1>2 DEF Fit, DerivedFit
<1> HIDE DEF plan
<1>4. Fit(nav', seeded, format)
  BY <1>1, <1>2, <1>3, DerivingFits DEF Holds
<1>5. Holds(n, u) => plan.units = now
  BY <1>2, <1>3 DEF Holds
<1>6. given = FreshOf("split", u, seeded, docs, format)
  BY <1>2, <1>5 DEF FreshOf
<1> HIDE DEF given
<1> QED BY <1>1, <1>4, <1>6, AnsweredWell

\* So are reads of a strict or a tolerant model.
LEMMA ReadAnswered ==
  ASSUME NavInv, HintsCurrent, NEW u \in Opened, Read(u)
  PROVE  NavInv' /\ AnswersCurrent' /\ HintsCurrent'
<1> DEFINE n == Strict(nav, seeded, docs)
           t == Tolerated(n, seeded, docs)
           now == Assemble(seeded, docs)
           given == IF Built(n, docs) THEN n.session.units ELSE t.tolerant.units
<1>1. /\ Asks(u) /\ nav' = (IF Built(n, docs) THEN n ELSE t)
      /\ answer' = [to |-> "read", of |-> u, given |-> given] /\ client' = client
  BY DEF Read, Answered
<1>2. /\ Fit(n, seeded, format)
      /\ Built(n, docs) => n.session # None /\ n.session.units = now
  BY StrictNow
<1>3. Fit(t, seeded, format) /\ t.tolerant.units = now
  BY <1>2, ToleratedFits DEF NavInv
<1> HIDE DEF n, t
<1>4. Fit(nav', seeded, format)
  BY <1>1, <1>2, <1>3
<1>5. given = FreshOf("read", u, seeded, docs, format)
  BY <1>2, <1>3 DEF FreshOf
<1> HIDE DEF given
<1> QED BY <1>1, <1>4, <1>5, AnsweredWell

\* So are symbols.
LEMMA SymbolsAnswered ==
  ASSUME NavInv, HintsCurrent, NEW u \in Opened, Symbols(u)
  PROVE  NavInv' /\ AnswersCurrent' /\ HintsCurrent'
<1> DEFINE n == Resting(nav, seeded, docs, u)
           given == [own |-> docs[u].text, rest |-> n.rest.table]
<1>1. /\ Asks(u) /\ nav' = n
      /\ answer' = [to |-> "symbols", of |-> u, given |-> given] /\ client' = client
  BY DEF Symbols, Answered
<1>2. u \in Open(docs)
  BY <1>1, NavAssumption DEF Asks, Open
<1>3. Fit(n, seeded, format) /\ n.rest.table = RestTable(First(seeded), docs, u)
  BY <1>2, RestingFits DEF NavInv
<1> HIDE DEF n
<1>4. given = FreshOf("symbols", u, seeded, docs, format)
  BY <1>3 DEF FreshOf
<1> HIDE DEF given
<1> QED BY <1>1, <1>3, <1>4, AnsweredWell

\* So are inherited members.
LEMMA MembersAnswered ==
  ASSUME NavInv, HintsCurrent, NEW u \in Opened, InheritedMembers(u)
  PROVE  NavInv' /\ AnswersCurrent' /\ HintsCurrent'
<1> DEFINE n == Inherited(nav, seeded, docs, u)
           given == n.members[1].found
<1>1. /\ Asks(u) /\ nav' = n
      /\ answer' = [to |-> "members", of |-> u, given |-> given] /\ client' = client
  BY DEF InheritedMembers, Answered
<1>2. u \in Uris /\ docs[u] # None
  BY <1>1, NavAssumption DEF Asks
<1>3. Fit(n, seeded, format) /\ given = FoundOf(seeded, docs, u)
  BY <1>2, InheritedFits DEF NavInv
<1> HIDE DEF n, given
<1>4. given = FreshOf("members", u, seeded, docs, format)
  BY <1>3 DEF FreshOf
<1> QED BY <1>1, <1>3, <1>4, AnsweredWell

\* So is the statement at a position.
LEMMA StatementAnswered ==
  ASSUME NavInv, HintsCurrent, NEW u \in Opened, Statement(u)
  PROVE  NavInv' /\ AnswersCurrent' /\ HintsCurrent'
<1> DEFINE cut == CutSources(Assemble(seeded, docs), u)
           n == Completing(nav, cut)
<1>1. /\ Asks(u) /\ nav' = n /\ client' = client
      /\ answer' = [to |-> "statement", of |-> u, given |-> n.completion]
  BY DEF Statement, Answered
<1>2. Fit(n, seeded, format) /\ n.completion = cut
  BY CompletingFits DEF NavInv
<1> HIDE DEF n
<1>3. n.completion = FreshOf("statement", u, seeded, docs, format)
  BY <1>2 DEF FreshOf
<1> HIDE DEF cut
<1> QED BY <1>1, <1>2, <1>3, AnsweredWell

\* So are renames.
LEMMA RenameAnswered ==
  ASSUME NavInv, HintsCurrent, NEW u \in Opened, Rename(u)
  PROVE  NavInv' /\ AnswersCurrent' /\ HintsCurrent'
<1> DEFINE n == Strict(nav, seeded, docs)
           now == Assemble(seeded, docs)
           m == IF Built(n, docs)
                THEN [n EXCEPT !.session.units = Committed(n.session.units)] ELSE n
           given == IF Built(n, docs) THEN n.session.units ELSE None
<1>1. /\ Asks(u) /\ nav' = Invalidate(m) /\ client' = client
      /\ answer' = [to |-> "rename", of |-> u, given |-> given]
  BY DEF Rename, Answered
<1>2. /\ Fit(n, seeded, format)
      /\ Built(n, docs) <=> Parses(now)
      /\ Built(n, docs) => n.session # None /\ n.session.units = now
  BY StrictNow
<1> HIDE DEF n
<1>3. Shaped(n) /\ TableFit(n, seeded) /\ MembersFit(n)
  BY <1>2 DEF Fit
<1> DEFINE ahead == [n.session EXCEPT !.units = Committed(n.session.units)]
<1>4. m = IF Built(n, docs) THEN [n EXCEPT !.session = ahead] ELSE n
  OBVIOUS
<1> HIDE DEF m, ahead
<1>5. /\ Shaped(m) /\ m.rest = n.rest /\ m.symbols = n.symbols
      /\ m.hashes = n.hashes /\ m.members = n.members
  BY <1>3, <1>4 DEF Shaped
<1>6. TableFit(m, seeded) /\ MembersFit(m)
  BY <1>3, <1>5 DEF TableFit, MembersFit
<1>7. Fit(nav', seeded, format)
  BY <1>1, <1>5, <1>6, InvalidateFits
<1>8. given = FreshOf("rename", u, seeded, docs, format)
  BY <1>2 DEF FreshOf
<1> HIDE DEF given
<1> QED BY <1>1, <1>7, <1>8, AnsweredWell

\* The client is asked to pull its hints again.
LEMMA RefreshedHints ==
  ASSUME NavInv, client' = AskedToRefresh, docs' = docs
  PROVE  /\ client' = [held |-> client'.held, asked |-> client'.asked]
         /\ client'.held = [v \in Uris |-> client'.held[v]]
         /\ client'.asked \subseteq Open(docs')
         /\ HintsCurrent'
<1>1. client' = [held |-> client.held, asked |-> Open(docs)]
  BY DEF NavInv, AskedToRefresh
<1>2. HintsOf(client', seeded', docs', format')
  BY <1>1 DEF HintsOf
<1> QED BY <1>1, <1>2, HintsAre DEF NavInv

\* Seeding keeps the invariant, and hints that it leaves behind are asked for again.
LEMMA SeedsWell ==
  ASSUME NavInv, HintsCurrent, NEW units \in Seeds, SetWorkspaceSources(units)
  PROVE  NavInv' /\ AnswersCurrent' /\ HintsCurrent'
<1> DEFINE changed == Reseeded(units)
           current == SameNames(units) /\ OverlaidWhereverHeld(changed, units)
           told == moved \/ ~current \/ changed # {}
<1>1. /\ docs' = docs /\ format' = format /\ seeded' = units /\ answer' = None
      /\ nav' = IF current THEN Reseed(units, changed)
                ELSE [InvalidateNavigation(nav) EXCEPT
                        !.symbols = None, !.rest = None, !.hashes = units]
      /\ client' = IF told THEN AskedToRefresh ELSE client
      /\ moved' = IF told THEN FALSE ELSE moved
  BY DEF SetWorkspaceSources, Host
<1>2. Fit(nav', units, format)
  <2>1. CASE current
    BY <1>1, <2>1, ReseedFits DEF NavInv
  <2>2. CASE ~current
    BY <1>1, <2>2, DroppedFits DEF NavInv
  <2> QED BY <2>1, <2>2
<1>3. ASSUME ~told PROVE units = seeded
  <2>1. changed = {} /\ SameNames(units)
    BY <1>3
  <2>2. seeded # None /\ seeded \in Seq(Sources) /\ units \in Seq(Sources)
    BY <2>1, NavAssumption DEF SameNames, NavInv, Seeded
  <2>3. [i \in DOMAIN units |-> units[i].name] = [i \in DOMAIN seeded |-> seeded[i].name]
    BY <2>1 DEF SameNames
  <2>4. DOMAIN units = DOMAIN seeded
    BY <2>3
  <2>5. \A i \in DOMAIN units : units[i] = seeded[i]
    BY <2>1 DEF Reseeded
  <2>6. Len(units) = Len(seeded)
    BY <2>2, <2>4
  <2> QED BY <2>2, <2>4, <2>5, <2>6, SeqEqual
<1> HIDE DEF current, told
<1>4. units \in Seeded
  BY DEF Seeded
<1>5. /\ client' = [held |-> client'.held, asked |-> client'.asked]
      /\ client'.held = [v \in Uris |-> client'.held[v]]
      /\ client'.asked \subseteq Open(docs')
      /\ HintsCurrent'
  <2>1. CASE told
    BY <1>1, <2>1, RefreshedHints
  <2>2. CASE ~told
    BY <1>1, <1>3, <2>2, HintsAre DEF NavInv
  <2> QED BY <2>1, <2>2
<1>6. moved' \in BOOLEAN
  BY <1>1 DEF NavInv
<1>7. NavInv'
  BY <1>1, <1>2, <1>4, <1>5, <1>6 DEF NavInv
<1> QED BY <1>1, <1>5, <1>7 DEF AnswersCurrent

\* So does what the host drops or sets.
LEMMA HostWell ==
  ASSUME NavInv, HintsCurrent,
         InvalidateSessions \/ \E f \in Formats : SetNumberFormat(f)
  PROVE  NavInv' /\ AnswersCurrent' /\ HintsCurrent'
<1>1. Fit(nav, seeded, format) /\ docs' = docs /\ answer' = None /\ seeded' = seeded
      /\ client' = AskedToRefresh /\ moved' = FALSE
  BY DEF NavInv, InvalidateSessions, SetNumberFormat, Host
<1>2. format' \in Formats /\ Fit(nav', seeded, format')
  <2>1. CASE InvalidateSessions
    <3>1. Shaped(nav) /\ TableFit(nav, seeded) /\ MembersFit(nav)
      BY <1>1 DEF Fit
    <3>2. nav' = Invalidate(nav) /\ format' = format
      BY <2>1 DEF InvalidateSessions
    <3> QED BY <3>1, <3>2, InvalidateFits DEF NavInv
  <2>2. CASE \E f \in Formats : SetNumberFormat(f)
    <3>1. format' \in Formats /\ nav' = [nav EXCEPT !.verify = None]
      BY <2>2 DEF SetNumberFormat
    <3>2. Fit([nav EXCEPT !.verify = None], seeded, format')
      BY <1>1, DroppedFits
    <3> QED BY <3>1, <3>2
  <2> QED BY <2>1, <2>2
<1>3. NavInv' /\ HintsCurrent'
  BY <1>1, <1>2, RefreshedHints DEF NavInv
<1> QED BY <1>1, <1>3 DEF AnswersCurrent

\* A document that is opened, changed or closed.
LEMMA MovesWell ==
  ASSUME NavInv, HintsCurrent, NEW u \in Opened, NEW text \in Texts,
         DidOpen(u, text) \/ DidChange(u, text) \/ DidClose(u)
  PROVE  NavInv' /\ AnswersCurrent' /\ HintsCurrent'
<1>1. u \in Uris /\ docs \in Docs /\ 1 \in 1 .. MaxVersion
  BY NavAssumption DEF NavInv
<1>2. PICK document \in Document \cup {None} :
        /\ Moves(u, document)
        /\ \/ client' = client /\ document # None
           \/ /\ document = None
              /\ client' = [client EXCEPT !.held[u] = <<>>, !.asked = @ \ {u}]
  <2>1. CASE DidOpen(u, text)
    <3>1. [version |-> 1, text |-> text] \in Document
      BY <1>1 DEF Document
    <3> QED BY <2>1, <3>1, NoneAssumption DEF DidOpen
  <2>2. CASE DidChange(u, text)
    <3>1. docs[u] \in Document /\ docs[u].version < MaxVersion
      BY <1>1, <2>2 DEF Docs, DidChange
    <3>2. docs[u].version + 1 \in 1 .. MaxVersion
      BY <3>1, NavAssumption DEF Document
    <3>3. [version |-> docs[u].version + 1, text |-> text] \in Document
      BY <3>2 DEF Document
    <3> QED BY <2>2, <3>3, NoneAssumption DEF DidChange
  <2>3. CASE DidClose(u)
    BY <2>3 DEF DidClose
  <2> QED BY <2>1, <2>2, <2>3
<1>3. /\ docs' = [docs EXCEPT ![u] = document] /\ moved' = TRUE /\ answer' = None
      /\ nav' = nav /\ seeded' = seeded /\ format' = format
  BY <1>2 DEF Moves, Message
<1>4. docs' \in Docs
  BY <1>1, <1>3 DEF Docs
<1>5. docs'[u] = document /\ \A v \in Uris \ {u} : docs'[v] = docs[v]
  BY <1>1, <1>3 DEF Docs
<1>6. /\ client' = [held |-> client'.held, asked |-> client'.asked]
      /\ client'.held = [v \in Uris |-> client'.held[v]]
      /\ client'.asked \subseteq Open(docs')
  <2>1. CASE client' = client /\ document # None
    <3>1. Open(docs) \subseteq Open(docs')
      BY <1>5, <2>1 DEF Open
    <3> QED BY <2>1, <3>1 DEF NavInv
  <2>2. CASE document = None /\
               client' = [client EXCEPT !.held[u] = <<>>, !.asked = @ \ {u}]
    <3>1. Open(docs) \ {u} \subseteq Open(docs')
      BY <1>5 DEF Open
    <3>2. client'.asked = client.asked \ {u}
          /\ client' = [held |-> client'.held, asked |-> client'.asked]
          /\ client'.held = [v \in Uris |-> client'.held[v]]
      BY <2>2 DEF NavInv
    <3>3. client.asked \subseteq Open(docs)
      BY DEF NavInv
    <3> QED BY <3>1, <3>2, <3>3
  <2> QED BY <1>2, <2>1, <2>2
<1>7. NavInv'
  BY <1>3, <1>4, <1>6 DEF NavInv
<1> QED BY <1>3, <1>7 DEF AnswersCurrent, HintsCurrent

\* The invariant and the properties hold at first.
LEMMA NavInitWell == NavInit => NavInv /\ AnswersCurrent /\ HintsCurrent
<1> SUFFICES ASSUME NavInit PROVE NavInv /\ AnswersCurrent /\ HintsCurrent
  OBVIOUS
<1>1. docs \in Docs /\ Open(docs) = {} /\ seeded \in Seeded
  BY DEF NavInit, Docs, Open, Seeded
<1>2. /\ client = [held |-> client.held, asked |-> client.asked]
      /\ client.held = [u \in Uris |-> client.held[u]]
      /\ client.asked \subseteq Open(docs)
  BY DEF NavInit
<1>3. /\ Shaped(nav) /\ nav.session = None /\ nav.failed = None /\ nav.tolerant = None
      /\ nav.verify = None /\ nav.lint = None /\ nav.split = None /\ nav.rest = None
      /\ nav.symbols = None /\ nav.hashes = First(seeded) /\ nav.members = <<>>
  BY DEF NavInit, Empty, Shaped, First
<1>4. <<>> \in Seq(Found) /\ Len(<<>>) = 0
  OBVIOUS
<1>5. MembersFit(nav)
  BY <1>3, <1>4, NavAssumption DEF MembersFit
<1>6. Fit(nav, seeded, format)
  BY <1>3, <1>5 DEF Fit, ModelsFit, DerivedFit, TableFit
<1>7. NavInv
  BY <1>1, <1>2, <1>6 DEF NavInv, NavInit
<1> QED BY <1>1, <1>7 DEF NavInit, AnswersCurrent, HintsCurrent

\* Every step keeps them.
LEMMA NavNextWell ==
  NavInv /\ AnswersCurrent /\ HintsCurrent /\ [NavNext]_navVars
    => NavInv' /\ AnswersCurrent' /\ HintsCurrent'
<1> SUFFICES ASSUME NavInv, AnswersCurrent, HintsCurrent, [NavNext]_navVars
             PROVE  NavInv' /\ AnswersCurrent' /\ HintsCurrent'
  OBVIOUS
<1>1. CASE UNCHANGED navVars
  BY <1>1, HintsAre, FreshIs, FreshNext
     DEF navVars, NavInv, AnswersCurrent
<1>2. CASE \E units \in Seeds : SetWorkspaceSources(units)
  BY <1>2, SeedsWell
<1>3. CASE InvalidateSessions \/ \E f \in Formats : SetNumberFormat(f)
  BY <1>3, HostWell
<1>4. CASE \E u \in Opened, text \in Texts : DidOpen(u, text) \/ DidChange(u, text)
  BY <1>4, MovesWell
<1>5. ASSUME NEW u \in Opened, DidClose(u)
      PROVE  NavInv' /\ AnswersCurrent' /\ HintsCurrent'
  <2>1. PICK text : text \in Texts
    BY <1>5, NavAssumption DEF DidClose, NavInv, Docs, Document
  <2> QED BY <1>5, <2>1, MovesWell
<1>6. CASE \E u \in Opened : \/ Hints(u) \/ LintFixes(u) \/ SplitActions(u)
                             \/ Read(u) \/ Symbols(u) \/ InheritedMembers(u)
                             \/ Statement(u) \/ Rename(u)
  BY <1>6, HintsAnswered, LintAnswered, SplitAnswered, ReadAnswered,
     SymbolsAnswered, MembersAnswered, StatementAnswered, RenameAnswered
<1> QED BY <1>1, <1>2, <1>3, <1>4, <1>5, <1>6 DEF NavNext

\* Whatever is kept fits what is seeded, always.
THEOREM NavFits == NavSpec => [](NavInv /\ AnswersCurrent /\ HintsCurrent)
BY NavInitWell, NavNextWell, PTL DEF NavSpec

\* Two models are held and never three; what is derived from the navigation
\* session goes with it; the members remembered are MEMBER_CACHE at most.
THEOREM NavTyped == NavSpec => []NavTypeOK
<1>1. NavInv => NavTypeOK
  <2> SUFFICES ASSUME NavInv PROVE NavTypeOK
    OBVIOUS
  <2>1. \A u \in Uris : docs[u] # None =>
          docs[u].version \in 1 .. MaxVersion /\ docs[u].text \in Texts
    BY DEF NavInv, Docs, Document
  <2>2. /\ seeded \in Seeds \cup {None} /\ format \in Formats /\ moved \in BOOLEAN
        /\ client.asked \subseteq Open(docs)
    BY DEF NavInv, Seeded
  <2>3. /\ nav.session = None => nav.verify = None /\ nav.lint = None /\ nav.split = None
        /\ nav.session = None \/ nav.tolerant = None
        /\ Len(nav.members) <= Members
    BY DEF NavInv, Fit, ModelsFit, DerivedFit, MembersFit
  <2> QED BY <2>1, <2>2, <2>3 DEF NavTypeOK
<1> QED BY <1>1, NavFits, PTL

\* Every answer, over edits, re-seeds, formats and renames, is the one that a
\* server started now would give.
THEOREM AlwaysFresh == NavSpec => []AnswersCurrent
BY NavFits, PTL

\* The hints a client holds, when it has not been asked to pull them again
\* and no document has moved since, are those it would be given now.
THEOREM HintsFollowed == NavSpec => []HintsCurrent
BY NavFits, PTL
=============================================================================
