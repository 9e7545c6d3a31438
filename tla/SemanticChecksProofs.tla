------------------------ MODULE SemanticChecksProofs ------------------------
(***************************************************************************)
(* Proofs that a positional plan which is read is of the present rows, that *)
(* an attempt refused by memory would have failed, in the model and in      *)
(* every fork, and that threads find what a pass in line would, for any     *)
(* families, threads, prices and changes.                                   *)
(*                                                                          *)
(* The first two are properties of one builder, so most of their proof is   *)
(* about the operators on it: Good is kept by each. Good adds that nothing  *)
(* kept is of rows yet to come, which would become current one day, and     *)
(* states RefusalRight of every builder that remembers, whether it has a    *)
(* plan or not: the plan may be dropped and the memory stay. The rest is    *)
(* that a thread's tasks are tasks of the work, so that what it asks has a  *)
(* budget.                                                                  *)
(*                                                                          *)
(* The last part proves that a pass on threads finds what a pass in line    *)
(* would: each task is done once, by a thread that sees what the pass in    *)
(* line sees there, and the results are put back in the work's order.       *)
(***************************************************************************)
EXTENDS SemanticChecks, SequenceFacts, SequenceTheorems, FiniteSetTheorems, TLAPS

USE DEF Revisions

\* What is kept is of rows that were.
Behind(b) ==
  /\ b.authored <= b.revision
  /\ \A a \in Artefacts : b.made[a] # Nothing => b.made[a] <= b.revision
  /\ b.exhausted # Nothing => b.exhausted.revision <= b.revision

\* The memory speaks of the builder as it is, or says nothing of it.
Remembers(b) ==
  b.exhausted # Nothing /\ b.exhausted.revision = b.revision
    /\ b.exhausted.implied = b.made["implied"] /\ ~b.helped
  => ~Affords(b, b.exhausted.left)

Good(b) == b \in Builders /\ Behind(b) /\ PlanIsOf(b) /\ Remembers(b)

-----------------------------------------------------------------------------
\* The fields of a builder.
LEMMA BuilderFields ==
  ASSUME NEW b \in Builders
  PROVE  /\ b.revision \in Revisions /\ b.authored \in Revisions
         /\ b.made \in [Artefacts -> Revisions \cup {Nothing}]
         /\ b.plan \in Revisions \cup {Nothing}
         /\ b.exhausted \in Memory \cup {Nothing}
         /\ b.helped \in BOOLEAN
         /\ b.revision \in Nat /\ b.revision # Nothing
  BY NothingAssumption DEF Builders

\* A builder that was just made is good.
LEMMA NewIsGood == Good(NewBuilder)
  BY NothingAssumption
  DEF Good, NewBuilder, Builders, Behind, PlanIsOf, Effective, Remembers

\* Planning at any cost leaves a plan of the rows and no memory.
LEMMA PublishedIsGood ==
  ASSUME NEW b \in Builders, b.authored <= b.revision PROVE Good(Published(b))
<1>1. Published(b) \in Builders
  BY BuilderFields DEF Published, Builders
<1>2. /\ Published(b).made = [a \in Artefacts |-> b.revision]
      /\ Published(b).plan = b.authored /\ Published(b).exhausted = Nothing
      /\ Published(b).authored = b.authored /\ Published(b).revision = b.revision
  BY DEF Published, Builders
<1>3. Behind(Published(b))
  BY <1>2, BuilderFields DEF Behind
<1>4. PlanIsOf(Published(b)) /\ Remembers(Published(b))
  BY <1>2 DEF PlanIsOf, Remembers
<1> QED BY <1>1, <1>3, <1>4 DEF Good

\* A refresh drops what is stale: an artefact that is ready stays ready, and a
\* plan that stays is current.
LEMMA RefreshFields ==
  ASSUME NEW b \in Builders
  PROVE  /\ Refresh(b) \in Builders
         /\ Refresh(b).revision = b.revision /\ Refresh(b).authored = b.authored
         /\ Refresh(b).exhausted = b.exhausted /\ Refresh(b).helped = b.helped
         /\ \A a \in Artefacts : Refresh(b).made[a] \in {b.made[a], Nothing}
         /\ Ready(Refresh(b)) = Ready(b)
         /\ Refresh(b).plan = IF ImpliedCurrent(b) THEN b.plan ELSE Nothing
         /\ ImpliedCurrent(Refresh(b)) <=> ImpliedCurrent(b)
<1>1. CASE ImpliedCurrent(b)
  BY <1>1 DEF Refresh
<1>2. CASE ~ImpliedCurrent(b)
  <2> DEFINE r == Refresh(b)
  <2>1. r = [b EXCEPT !.made["implied"] = Nothing, !.plan = Nothing]
    BY <1>2 DEF Refresh
  <2>2. /\ r \in Builders /\ r.revision = b.revision /\ r.authored = b.authored
        /\ r.exhausted = b.exhausted /\ r.helped = b.helped /\ r.plan = Nothing
        /\ r.made = [b.made EXCEPT !["implied"] = Nothing]
    <3> DEFINE made == [b.made EXCEPT !["implied"] = Nothing]
    <3>1. made \in [Artefacts -> Revisions \cup {Nothing}]
      BY BuilderFields
    <3> HIDE DEF made
    <3>2. r = [b EXCEPT !.made = made, !.plan = Nothing]
      BY <2>1 DEF made
    <3> HIDE DEF r
    <3>3. /\ r \in Builders /\ r.revision = b.revision /\ r.authored = b.authored
          /\ r.exhausted = b.exhausted /\ r.helped = b.helped /\ r.plan = Nothing
          /\ r.made = made
      BY <3>1, <3>2 DEF Builders
    <3> QED BY <3>3 DEF made
  <2>3. \A a \in Artefacts : r.made[a] = IF a = "implied" THEN Nothing ELSE b.made[a]
    BY <2>2, BuilderFields DEF Artefacts
  <2>4. b.made["implied"] # b.revision /\ r.made["implied"] # r.revision
    BY <1>2, <2>2, <2>3, BuilderFields DEF ImpliedCurrent, Artefacts
  <2>5. Ready(r) = Ready(b)
    BY <2>2, <2>3, <2>4 DEF Ready
  <2>6. ~ImpliedCurrent(r)
    BY <2>4 DEF ImpliedCurrent
  <2> QED BY <1>2, <2>2, <2>3, <2>5, <2>6
<1> QED BY <1>1, <1>2

-----------------------------------------------------------------------------
\* Planning at any cost leaves a good builder.
LEMMA EnsureIsGood == ASSUME NEW b, Good(b) PROVE Good(Ensure(b))
  BY RefreshFields, PublishedIsGood DEF Ensure, Good, Behind

\* What can be afforded depends on what is ready only, and on how much is left.
LEMMA AffordsOfReady ==
  ASSUME NEW b, NEW c, Ready(b) = Ready(c), NEW left PROVE Affords(b, left) <=> Affords(c, left)
  BY DEF Affords, Paid

\* What can be afforded can be afforded with more left.
LEMMA AffordsMore ==
  ASSUME NEW b, NEW left \in Nat, NEW more \in Nat, left <= more, Affords(b, left)
  PROVE  Affords(b, more)
<1> SUFFICES ASSUME NEW i \in 1..4 PROVE Paid(b, i) <= more
  BY DEF Affords
<1>1. Paid(b, i) \in Nat
  BY PriceAssumption DEF Paid, Ready
<1>2. Paid(b, i) <= left
  BY DEF Affords
<1> QED BY <1>1, <1>2

\* An attempt that failed: what it made is of the rows, and it is remembered
\* only if it made nothing that would let a repeat go further.
LEMMA FailureIsGood ==
  ASSUME NEW b, Good(b), ~Effective(b), NEW left \in Nat, ~Affords(Refresh(b), left),
         NEW reached \in SUBSET Artefacts, NEW tried,
         tried = [Refresh(b) EXCEPT !.made = [a \in Artefacts |->
                    IF a \in reached THEN b.revision ELSE Refresh(b).made[a]]]
  PROVE  Good(RememberFailure(b, tried, left))
<1> DEFINE r == Refresh(b)
           f == RememberFailure(b, tried, left)
<1>1. b \in Builders /\ r \in Builders /\ r.revision = b.revision /\ r.authored = b.authored
  BY RefreshFields DEF Good
<1>2. /\ tried \in Builders /\ tried.revision = b.revision /\ tried.authored = b.authored
      /\ tried.plan = r.plan
      /\ tried.made = [a \in Artefacts |-> IF a \in reached THEN b.revision ELSE r.made[a]]
  BY <1>1, BuilderFields DEF Builders
<1>3. tried.plan = Nothing
  BY <1>1, <1>2, RefreshFields DEF Effective, ImpliedCurrent
<1>4. \A a \in Artefacts : tried.made[a] # Nothing => tried.made[a] <= b.revision
  <2> TAKE a \in Artefacts
  <2>1. tried.made[a] \in {b.revision, b.made[a], Nothing}
    BY <1>1, <1>2, RefreshFields
  <2> QED BY <1>1, <2>1, BuilderFields DEF Good, Behind
<1>5. CASE /\ b.plan = Nothing
           /\ tried.made["implied"] = b.made["implied"]
           /\ \A a \in Artefacts : (tried.made[a] = Nothing) <=> (b.made[a] = Nothing)
  <2> DEFINE memory == [revision |-> b.revision, left |-> left, implied |-> b.made["implied"]]
  <2>1. f = [tried EXCEPT !.exhausted = memory, !.helped = Ready(tried) # Ready(b)]
    BY <1>5 DEF RememberFailure
  <2>2. memory \in Memory
    BY <1>1, BuilderFields DEF Memory, Artefacts
  <2>3. /\ f \in Builders /\ f.made = tried.made /\ f.revision = b.revision
        /\ f.authored = b.authored
        /\ f.plan = Nothing /\ f.exhausted = memory /\ f.helped = (Ready(tried) # Ready(b))
    BY <1>2, <1>3, <2>1, <2>2, BuilderFields, ZenonT(30) DEF Builders
  <2>4. Behind(f)
    BY <1>1, <1>4, <2>3, BuilderFields DEF Good, Behind
  <2>5. PlanIsOf(f)
    BY <2>3 DEF PlanIsOf, Effective
  <2>6. ASSUME ~f.helped PROVE ~Affords(f, left)
    <3>1. Ready(f) = Ready(tried)
      BY <1>2, <2>3 DEF Ready
    <3>2. Ready(tried) = Ready(b)
      BY <2>3, <2>6
    <3>3. Ready(r) = Ready(b)
      BY <1>1, RefreshFields
    <3> QED BY <3>1, <3>2, <3>3, AffordsOfReady
  <2> QED BY <2>3, <2>4, <2>5, <2>6 DEF Good, Remembers
<1>6. CASE ~(/\ b.plan = Nothing
             /\ tried.made["implied"] = b.made["implied"]
             /\ \A a \in Artefacts : (tried.made[a] = Nothing) <=> (b.made[a] = Nothing))
  <2>1. f = [tried EXCEPT !.exhausted = Nothing, !.helped = FALSE]
    BY <1>6 DEF RememberFailure
  <2>2. /\ f \in Builders /\ f.made = tried.made /\ f.revision = b.revision
        /\ f.authored = b.authored /\ f.plan = Nothing /\ f.exhausted = Nothing
    BY <1>2, <1>3, <2>1, BuilderFields DEF Builders
  <2> QED BY <1>4, <2>2 DEF Good, Behind, PlanIsOf, Effective, Remembers
<1> QED BY <1>5, <1>6

\* Planning within a budget leaves a good builder.
LEMMA AskIsGood == ASSUME NEW b, Good(b), NEW left \in Nat PROVE Good(Ask(b, left))
<1> DEFINE r == Refresh(b)
<1>1. CASE Effective(b) \/ RefusedAsExhausted(b, left)
  BY <1>1 DEF Ask, Attempt
<1>2. CASE ~Effective(b) /\ ~RefusedAsExhausted(b, left) /\ Affords(r, left)
  BY <1>2, RefreshFields, PublishedIsGood DEF Ask, Attempt, Good, Behind
<1>3. CASE ~Effective(b) /\ ~RefusedAsExhausted(b, left) /\ ~Affords(r, left)
  <2> DEFINE reached == Reached(r, left)
             tried == [r EXCEPT !.made = [a \in Artefacts |->
                         IF a \in reached THEN b.revision ELSE r.made[a]]]
  <2>1. Ask(b, left) = RememberFailure(b, tried, left)
    BY <1>3 DEF Ask, Attempt
  <2>2. reached \cap Artefacts = reached
    BY DEF Reached, Order, Artefacts
  <2>3. reached \in SUBSET Artefacts
    BY <2>2
  <2> QED BY <1>3, <2>1, <2>3, FailureIsGood
<1> QED BY <1>1, <1>2, <1>3

\* A step of a family leaves a good builder.
LEMMA LookedIsGood == ASSUME NEW b, Good(b), NEW s \in Steps PROVE Good(Looked(b, s))
  BY AskIsGood, EnsureIsGood DEF Looked, Steps

\* An artefact made by another reader is ready, and the memory of a failed
\* attempt no longer says anything.
LEMMA MadeElsewhereIsGood ==
  ASSUME NEW b, Good(b), NEW a \in Artefacts PROVE Good(MadeElsewhere(b, a))
<1> DEFINE r == IF a = "implied" THEN Refresh(b) ELSE b
           m == MadeElsewhere(b, a)
<1>1. /\ b \in Builders /\ r \in Builders /\ r.revision = b.revision /\ r.authored = b.authored
      /\ r.exhausted = b.exhausted /\ \A c \in Artefacts : r.made[c] \in {b.made[c], Nothing}
  BY RefreshFields DEF Good
<1>2. CASE a \in Ready(r)
  <2>1. m = r
    BY <1>2 DEF MadeElsewhere
  <2>2. a = "implied" => ImpliedCurrent(b)
    BY <1>1, <1>2, RefreshFields DEF Ready, ImpliedCurrent
  <2>3. r = b
    BY <2>2 DEF Refresh
  <2> QED BY <2>1, <2>3
<1>3. CASE a \notin Ready(r)
  <2> DEFINE made == [r.made EXCEPT ![a] = b.revision]
  <2>0. made \in [Artefacts -> Revisions \cup {Nothing}] /\ (b.exhausted # Nothing) \in BOOLEAN
    BY <1>1, BuilderFields
  <2>1. m = [r EXCEPT !.made = made, !.helped = r.exhausted # Nothing]
    BY <1>3 DEF MadeElsewhere
  <2>2. /\ m \in Builders /\ m.revision = b.revision /\ m.authored = b.authored
        /\ m.plan = r.plan /\ m.exhausted = b.exhausted /\ m.helped = (b.exhausted # Nothing)
        /\ m.made = made
    BY <1>1, <2>0, <2>1, BuilderFields DEF Builders
  <2>3. \A c \in Artefacts : m.made[c] = IF c = a THEN b.revision ELSE r.made[c]
    BY <1>1, <2>2, BuilderFields
  <2>4. Behind(m)
    <3>1. \A c \in Artefacts : m.made[c] # Nothing => m.made[c] <= b.revision
      <4> TAKE c \in Artefacts
      <4>1. m.made[c] \in {b.revision, b.made[c], Nothing}
        BY <1>1, <2>3
      <4> QED BY <1>1, <4>1, BuilderFields DEF Good, Behind
    <3> QED BY <2>2, <3>1 DEF Good, Behind
  <2>5. PlanIsOf(m)
    \* Made anew, the implied plan is without a positional one.
    <3>1. CASE a = "implied"
      <4>1. ~ImpliedCurrent(b)
        BY <1>1, <1>3, <3>1, RefreshFields DEF Ready, ImpliedCurrent, Artefacts
      <4>2. m.plan = Nothing
        BY <1>1, <2>2, <3>1, <4>1, RefreshFields
      <4> QED BY <4>2 DEF PlanIsOf, Effective
    <3>2. CASE a # "implied"
      <4>1. m.made["implied"] = b.made["implied"] /\ m.plan = b.plan
        BY <2>2, <2>3, <3>2 DEF Artefacts
      <4> QED BY <2>2, <4>1 DEF Good, PlanIsOf, Effective, ImpliedCurrent
    <3> QED BY <3>1, <3>2
  <2>6. Remembers(m)
    BY <2>2 DEF Remembers
  <2> QED BY <2>2, <2>4, <2>5, <2>6 DEF Good
<1> QED BY <1>2, <1>3

\* A change: nothing that is kept is of the new rows, but for the index.
LEMMA ChangedIsGood ==
  ASSUME NEW b, Good(b), b.revision < MaxRevision,
         NEW kept \in SUBSET Artefacts, NEW planKept \in BOOLEAN
  PROVE  Good(Changed(b, kept, planKept))
<1> DEFINE c == Changed(b, kept, planKept)
           left == [a \in Artefacts |-> IF a \notin kept THEN Nothing
                      ELSE IF a = "index" /\ b.made[a] = b.revision THEN b.revision + 1
                      ELSE b.made[a]]
<1>1. b \in Builders /\ b.revision + 1 \in Revisions /\ b.authored + 1 \in Revisions
  BY BuilderFields, NothingAssumption DEF Good, Behind
<1>2. left \in [Artefacts -> Revisions \cup {Nothing}]
  BY <1>1, BuilderFields
<1>3. c = [b EXCEPT !.revision = @ + 1, !.authored = @ + 1, !.made = left,
                    !.plan = IF planKept THEN @ ELSE Nothing]
  BY DEF Changed
<1>4. /\ c \in Builders /\ c.revision = b.revision + 1 /\ c.authored = b.authored + 1
      /\ c.exhausted = b.exhausted /\ c.made = left
  BY <1>1, <1>2, <1>3, BuilderFields DEF Builders
<1>5. \A a \in Artefacts :
        /\ c.made[a] # Nothing => c.made[a] <= c.revision
        /\ a # "index" => c.made[a] \in {b.made[a], Nothing}
  <2> TAKE a \in Artefacts
  <2>1. c.made[a] \in {Nothing, b.revision + 1, b.made[a]}
    BY <1>4
  <2>2. b.made[a] # Nothing => b.made[a] \in Nat /\ b.made[a] <= b.revision
    BY <1>1, BuilderFields DEF Good, Behind
  <2> QED BY <1>1, <1>4, <2>1, <2>2, BuilderFields
<1>6. Behind(c)
  <2>1. b.exhausted # Nothing => b.exhausted.revision \in Nat /\ b.exhausted.revision <= b.revision
    BY <1>1, BuilderFields DEF Good, Behind, Memory
  <2> QED BY <1>1, <1>4, <1>5, <2>1, BuilderFields DEF Good, Behind
<1>7. PlanIsOf(c)
  <2>1. c.made["implied"] \in {b.made["implied"], Nothing}
    BY <1>5 DEF Artefacts
  <2>2. b.made["implied"] # Nothing => b.made["implied"] \in Nat /\ b.made["implied"] <= b.revision
    BY <1>1, BuilderFields DEF Good, Behind, Artefacts
  <2>3. ~ImpliedCurrent(c)
    BY <1>1, <1>4, <2>1, <2>2, BuilderFields, NothingAssumption DEF ImpliedCurrent
  <2> QED BY <2>3 DEF PlanIsOf, Effective
<1>8. Remembers(c)
  <2>1. c.exhausted # Nothing => c.exhausted.revision # c.revision
    BY <1>1, <1>4, BuilderFields DEF Good, Behind, Memory
  <2> QED BY <2>1 DEF Remembers
<1> QED BY <1>4, <1>6, <1>7, <1>8 DEF Good

\* Rows that are appended leave the authored ones and a current plan of them.
LEMMA AppendedIsGood ==
  ASSUME NEW b, Good(b), b.revision < MaxRevision PROVE Good(Appended(b))
<1> DEFINE c == Appended(b)
           implied == IF ImpliedCurrent(b) THEN b.revision + 1 ELSE b.made["implied"]
           made == [b.made EXCEPT !["implied"] = implied]
<1>1. b \in Builders /\ b.revision + 1 \in Revisions
  BY BuilderFields, NothingAssumption DEF Good
<1>2. made \in [Artefacts -> Revisions \cup {Nothing}]
  BY <1>1, BuilderFields DEF Artefacts
<1>3. c = [b EXCEPT !.revision = @ + 1, !.made = made]
  BY <1>1, BuilderFields DEF Appended, Artefacts
<1>4. /\ c \in Builders /\ c.revision = b.revision + 1 /\ c.authored = b.authored
      /\ c.plan = b.plan /\ c.exhausted = b.exhausted
      /\ c.made = made
  BY <1>1, <1>2, <1>3, BuilderFields DEF Builders
<1>5. \A a \in Artefacts : c.made[a] = IF a = "implied" THEN implied ELSE b.made[a]
  BY <1>1, <1>4, BuilderFields DEF Artefacts
<1>6. Behind(c)
  <2>1. \A a \in Artefacts : b.made[a] # Nothing => b.made[a] \in Nat /\ b.made[a] <= b.revision
    BY <1>1, BuilderFields DEF Good, Behind
  <2>2. b.exhausted # Nothing => b.exhausted.revision \in Nat /\ b.exhausted.revision <= b.revision
    BY <1>1, BuilderFields DEF Good, Behind, Memory
  <2>3. \A a \in Artefacts : c.made[a] # Nothing => c.made[a] <= c.revision
    BY <1>1, <1>4, <1>5, <2>1, BuilderFields DEF Artefacts
  <2> QED BY <1>1, <1>4, <2>2, <2>3, BuilderFields DEF Good, Behind
<1>7. ImpliedCurrent(c) => ImpliedCurrent(b)
  <2>1. b.made["implied"] # b.revision + 1
    BY <1>1, BuilderFields, NothingAssumption DEF Good, Behind, Artefacts
  <2> QED BY <1>4, <1>5, <2>1 DEF ImpliedCurrent, Artefacts
<1>8. PlanIsOf(c)
  BY <1>4, <1>7 DEF Good, PlanIsOf, Effective
<1>9. Remembers(c)
  <2>1. c.exhausted # Nothing => c.exhausted.revision # c.revision
    BY <1>1, <1>4, BuilderFields DEF Good, Behind, Memory
  <2> QED BY <2>1 DEF Remembers
<1> QED BY <1>4, <1>6, <1>8, <1>9 DEF Good

\* A materialization starts without a plan, which is as good as any.
LEMMA MaterializedIsGood ==
  ASSUME NEW b, Good(b), b.revision < MaxRevision PROVE Good(Materialized(b))
<1> DEFINE w == [b EXCEPT !.plan = Nothing]
<1>1. b \in Builders
  BY DEF Good
<1>2. /\ w \in Builders /\ w.revision = b.revision /\ w.plan = Nothing /\ w.made = b.made
      /\ w.exhausted = b.exhausted /\ w.helped = b.helped
  BY <1>1, BuilderFields DEF Builders
<1>3. Ready(w) = Ready(b)
  BY <1>2 DEF Ready
<1>4. Good(w)
  BY <1>2, <1>3, AffordsOfReady DEF Good, Behind, PlanIsOf, Effective, Remembers
<1>5. Good(Ensure(w))
  BY <1>4, EnsureIsGood
<1>6. Ensure(w).revision = b.revision
  <2>1. Ensure(w) = Published(Refresh(w))
    BY <1>2 DEF Ensure, Effective
  <2> QED BY <1>2, <2>1, RefreshFields DEF Published, Builders
<1> QED BY <1>5, <1>6, AppendedIsGood DEF Materialized

-----------------------------------------------------------------------------
Finding == [of : Nat, planned : BOOLEAN]

\* The threads at work.
Threads ==
  /\ pass \in {"idle", "inline", "threads", "done"}
  /\ pass \in {"inline", "threads"} => work \in Works
  /\ next \in Nat \ {0}
  /\ doing \in [Workers -> {"off", "free", "running", "ended", "panicked"}]
  /\ task \in [Workers -> Nat]
  /\ seen \in [Workers -> Seq(Finding)]
  /\ pass \in {"idle", "done"} => \A t \in Workers : doing[t] \notin {"free", "running"}
  /\ \A t \in Workers : doing[t] = "running" => task[t] \in 1..TaskCount

Builds == Good(graph) /\ \A t \in Workers : Good(forks[t])

ForksInv == forks = [t \in Workers |-> forks[t]]

IInv == Threads /\ Builds /\ ForksInv

-----------------------------------------------------------------------------
\* A slice has a row at least, and there are so many slices.
LEMMA Slicing ==
  ASSUME NEW k \in Nat PROVE StepSize(k) \in Nat \ {0} /\ CeilDiv(k, StepSize(k)) \in Int
<1>1. \A a \in Int, m \in Nat \ {0} : a \div m \in Int
  OBVIOUS
<1>2. Cardinality(Workers) * Share \in Nat \ {0}
  <2>1. Cardinality(Workers) \in Nat /\ Cardinality(Workers) # 0
    BY ChecksAssumption, FS_CardinalityType, FS_EmptySet
  <2> QED BY <2>1, ChecksAssumption
<1>3. CeilDiv(k, Cardinality(Workers) * Share) \in Int
  BY <1>1, <1>2 DEF CeilDiv
<1>4. StepSize(k) \in Nat \ {0}
  BY <1>3 DEF StepSize
<1> QED BY <1>1, <1>4 DEF CeilDiv

\* The work's steps and how it is cut in slices.
LEMMA WorkTypes ==
  ASSUME work \in Works
  PROVE  /\ work.families \in [1..Families -> Seq(Steps)] /\ work.rows \in Seq(Steps)
         /\ SliceCount \in Int /\ StepSize(Len(work.rows)) \in Nat \ {0}
<1>1. work.families \in [1..Families -> Seq(Steps)] /\ work.rows \in Seq(Steps)
  BY ChecksAssumption DEF Work
<1>2. Len(work.rows) \in Nat
  BY <1>1
<1> QED BY <1>1, <1>2, Slicing DEF SliceCount

\* Every task is a sequence of looks at the model.
LEMMA TasksAreLooks ==
  ASSUME work \in Works, NEW i \in 1..TaskCount PROVE StepsOf(KeyAt(i)) \in Seq(Steps)
<1>1. TaskCount \in Int /\ SliceCount \in Int /\ Families \in Nat
  BY WorkTypes, ChecksAssumption DEF TaskCount
<1>2. KeyAt(i) \in Nat \ {0}
  <2>1. CASE pass = "inline"
    BY <2>1 DEF KeyAt
  <2>2. CASE pass # "inline" /\ i > SliceCount
    <3>1. i - SliceCount \in 1..Families
      BY <1>1, <2>2 DEF TaskCount
    <3>2. LargestFirst[i - SliceCount] \in 1..Families
      BY <3>1, ChecksAssumption
    <3> QED BY <1>1, <2>2, <3>2 DEF KeyAt
  <2>3. CASE pass # "inline" /\ i <= SliceCount
    <3>1. (IF i <= 2 THEN i ELSE SliceCount + 3 - i) \in Nat \ {0}
      BY <1>1, <2>3
    <3>2. ~(i > SliceCount)
      BY <1>1, <2>3
    <3> QED BY <1>1, <2>3, <3>1, <3>2 DEF KeyAt
  <2> QED BY <1>1, <2>1, <2>2, <2>3
<1> DEFINE key == KeyAt(i)
<1>3. CASE key <= Families
  <2>1. key \in 1..Families
    BY <1>1, <1>2, <1>3
  <2> QED BY <1>3, <2>1, WorkTypes DEF StepsOf
<1>4. CASE ~(key <= Families)
  <2> DEFINE k == key - Families
             s == StepSize(Len(work.rows))
             last == IF k * s < Len(work.rows) THEN k * s ELSE Len(work.rows)
             first == (k - 1) * s + 1
  <2>1. k \in Nat \ {0} /\ s \in Nat \ {0} /\ Len(work.rows) \in Nat
    BY <1>1, <1>2, <1>4, WorkTypes
  <2>2. (k - 1) * s \in Nat /\ k * s \in Nat
    <3> HIDE DEF s, k
    <3> QED BY <2>1
  <2>3. first \in Nat \ {0} /\ last \in Nat /\ last <= Len(work.rows)
    <3> HIDE DEF s, k
    <3> QED BY <2>1, <2>2
  <2>4. \A j \in first..last : work.rows[j] \in Steps
    <3> HIDE DEF first, last, s, k
    <3> SUFFICES ASSUME NEW j \in first..last PROVE work.rows[j] \in Steps
      OBVIOUS
    <3>1. j \in 1..Len(work.rows)
      BY <2>1, <2>3
    <3> QED BY <3>1, WorkTypes, ElementOfSeq
  <2>5. SubSeq(work.rows, first, last) \in Seq(Steps)
    <3> HIDE DEF first, last, s, k
    <3> QED BY <2>3, <2>4, SubSeqProperties
  <2>6. StepsOf(key) = SubSeq(work.rows, first, last)
    BY <1>4 DEF StepsOf, SliceRows
  <2> QED BY <2>5, <2>6
<1> QED BY <1>3, <1>4

\* An answer is a finding.
LEMMA AnswerIsFinding ==
  ASSUME NEW s \in Steps, NEW b PROVE Answer(s, b) \in Finding
  BY DEF Answer, Finding, Effective, Steps

-----------------------------------------------------------------------------
\* The invariant holds at first.
LEMMA InitIInv == ChecksInit => IInv
<1> SUFFICES ASSUME ChecksInit PROVE IInv
  OBVIOUS
<1>1. <<>> \in Seq(Finding)
  OBVIOUS
<1>2. Threads
  BY <1>1 DEF ChecksInit, Threads
<1>3. Builds /\ ForksInv
  BY NewIsGood DEF ChecksInit, Builds, ForksInv
<1> QED BY <1>2, <1>3 DEF IInv

\* What the host reads between checks keeps the invariant.
LEMMA HostKeeps == ASSUME IInv, HostReads PROVE IInv'
<1>1. Threads' /\ ForksInv' /\ forks' = forks
  BY DEF IInv, Threads, ForksInv, HostReads, Unchecked, TaskCount, SliceCount, StepSize, CeilDiv
<1>2. Good(graph')
  <2>1. Good(graph)
    BY DEF IInv, Builds
  <2>2. CASE Evaluate
    BY <2>1, <2>2, AskIsGood, ChecksAssumption DEF Evaluate
  <2>3. CASE Enumerate
    BY <2>1, <2>3, EnsureIsGood DEF Enumerate
  <2>4. CASE ReadElsewhere
    BY <2>1, <2>4, MadeElsewhereIsGood DEF ReadElsewhere
  <2>5. CASE Change
    BY <2>1, <2>5, ChangedIsGood DEF Change
  <2>6. CASE Materialize
    BY <2>1, <2>6, MaterializedIsGood DEF Materialize
  <2>7. CASE AppendRows
    BY <2>1, <2>7, AppendedIsGood DEF AppendRows
  <2> QED BY <2>2, <2>3, <2>4, <2>5, <2>6, <2>7 DEF HostReads
<1> QED BY <1>1, <1>2 DEF IInv, Builds

\* Planning before the check starts leaves a good builder.
LEMMA PlanFirstIsGood == ASSUME NEW b, Good(b), NEW w PROVE Good(PlanFirst(b, w))
  BY EnsureIsGood DEF PlanFirst

\* Both passes begin with a plan, which every fork has.
LEMMA BeginKeeps == ASSUME IInv, CheckInLine \/ CheckOnThreads PROVE IInv'
<1>1. PICK w \in Works : Begin(w, PlanFirst(graph, w))
  BY DEF CheckInLine, CheckOnThreads
<1>2. pass = "idle" /\ pass' \in {"inline", "threads"}
  BY DEF CheckInLine, CheckOnThreads
<1>3. /\ doing' \in [Workers -> {"off", "free", "running", "ended", "panicked"}]
      /\ \A t \in Workers : doing'[t] # "running"
  BY <1>2 DEF CheckInLine, CheckOnThreads, IInv, Threads
<1>4. Threads'
  BY <1>1, <1>2, <1>3 DEF IInv, Threads, Begin
<1>5. Builds' /\ ForksInv'
  BY <1>1, PlanFirstIsGood DEF IInv, Builds, ForksInv, Begin
<1> QED BY <1>4, <1>5 DEF IInv

\* Taking a task keeps the invariant.
LEMMA ClaimKeeps == ASSUME IInv, NEW t \in Workers, Claim(t) PROVE IInv'
<1>1. /\ pass' = pass /\ work' = work /\ TaskCount' = TaskCount
  BY DEF Claim, TaskCount, SliceCount, StepSize, CeilDiv
<1>2. pass \in {"inline", "threads"} /\ work \in Works
  BY DEF IInv, Threads, Claim
<1>3. TaskCount \in Int
  BY <1>2, WorkTypes, ChecksAssumption DEF TaskCount
<1>4. doing'[t] = "running" => task'[t] \in 1..TaskCount
  BY <1>3 DEF IInv, Threads, Claim
<1>5. \A u \in Workers \ {t} : doing'[u] = doing[u] /\ task'[u] = task[u]
  BY DEF IInv, Threads, Claim
<1>6. <<>> \in Seq(Finding)
  OBVIOUS
<1>7. /\ doing' \in [Workers -> {"off", "free", "running", "ended", "panicked"}]
      /\ task' \in [Workers -> Nat] /\ seen' \in [Workers -> Seq(Finding)]
      /\ next' \in Nat \ {0}
  BY <1>6 DEF IInv, Threads, Claim
<1>8. \A u \in Workers : doing'[u] = "running" => task'[u] \in 1..TaskCount
  BY <1>4, <1>5 DEF IInv, Threads
<1>9. Threads'
  BY <1>1, <1>2, <1>7, <1>8 DEF IInv, Threads
<1> QED BY <1>9 DEF IInv, Builds, ForksInv, Claim

\* A step of a task keeps the invariant.
LEMMA LookKeeps == ASSUME IInv, NEW t \in Workers, Look(t) PROVE IInv'
<1> DEFINE steps == StepsOf(KeyAt(task[t]))
           s == steps[Len(seen[t]) + 1]
           after == Looked(ModelOf(t), s)
<1>1. pass \in {"inline", "threads"} /\ work \in Works /\ task[t] \in 1..TaskCount
  BY DEF IInv, Threads, Look
<1>2. steps \in Seq(Steps)
  BY <1>1, TasksAreLooks
<1>3. Len(seen[t]) \in Nat /\ Len(seen[t]) < Len(steps)
  BY DEF IInv, Threads, Look
<1>4. s \in Steps
  <2> HIDE DEF steps
  <2>1. Len(seen[t]) + 1 \in 1..Len(steps)
    BY <1>2, <1>3
  <2> QED BY <1>2, <2>1, ElementOfSeq
<1>5. Good(ModelOf(t))
  BY DEF IInv, Builds, ModelOf
<1>6. Good(after)
  <2> HIDE DEF s
  <2> QED BY <1>4, <1>5, LookedIsGood
<1>7. /\ seen' = [seen EXCEPT ![t] = Append(@, Answer(s, after))]
      /\ graph' = IF pass = "inline" THEN after ELSE graph
      /\ forks' = IF pass = "inline" THEN forks ELSE [forks EXCEPT ![t] = after]
      /\ UNCHANGED <<pass, work, next, doing, task>>
  BY DEF Look
<1>8. Answer(s, after) \in Finding
  <2> HIDE DEF s, after
  <2> QED BY <1>4, AnswerIsFinding
<1> HIDE DEF s, after
<1>9. seen' \in [Workers -> Seq(Finding)]
  BY <1>7, <1>8 DEF IInv, Threads
<1>10. Threads'
  BY <1>7, <1>9 DEF IInv, Threads, TaskCount, SliceCount, StepSize, CeilDiv
<1>11. Builds' /\ ForksInv'
  <2>1. Good(graph')
    BY <1>6, <1>7 DEF IInv, Builds
  <2>2. ForksInv' /\ \A u \in Workers : forks'[u] \in {forks[u], after} /\ (u # t => forks'[u] = forks[u])
    BY <1>7 DEF IInv, ForksInv
  <2>3. \A u \in Workers : Good(forks'[u])
    BY <1>6, <2>2 DEF IInv, Builds
  <2> QED BY <2>1, <2>2, <2>3 DEF Builds
<1> QED BY <1>10, <1>11 DEF IInv

\* A task that ends or panics, the joins and the return leave every model.
LEMMA EndsKeep ==
  ASSUME IInv, \/ \E t \in Workers : EndTask(t) \/ TaskPanics(t)
               \/ Gather \/ Return
  PROVE  IInv'
<1>1. CASE \E t \in Workers : EndTask(t) \/ TaskPanics(t)
  <2>1. PICK t \in Workers : EndTask(t) \/ TaskPanics(t)
    BY <1>1
  <2>2. /\ UNCHANGED <<graph, pass, work, next, task, seen, forks>>
        /\ \/ doing' = [doing EXCEPT ![t] = "free"]
           \/ doing' = [doing EXCEPT ![t] = "panicked"]
        /\ doing[t] = "running"
    BY <2>1 DEF EndTask, TaskPanics
  <2>3. Threads'
    BY <2>2 DEF IInv, Threads, TaskCount, SliceCount, StepSize, CeilDiv
  <2> QED BY <2>2, <2>3 DEF IInv, Builds, ForksInv
<1>2. CASE Gather
  <2>1. Threads'
    BY <1>2 DEF IInv, Threads, Gather
  <2> QED BY <1>2, <2>1 DEF IInv, Builds, ForksInv, Gather
<1>3. CASE Return
  <2>1. <<>> \in Seq(Finding)
    OBVIOUS
  <2>2. Threads'
    BY <1>3, <2>1 DEF IInv, Threads, Return
  <2>3. Builds' /\ ForksInv'
    BY <1>3, NewIsGood DEF IInv, Builds, ForksInv, Return
  <2> QED BY <2>2, <2>3 DEF IInv
<1> QED BY <1>1, <1>2, <1>3

\* Every step keeps the invariant.
LEMMA StepsKeep == IInv /\ [ChecksNext]_checkVars => IInv'
<1> SUFFICES ASSUME IInv, [ChecksNext]_checkVars PROVE IInv'
  OBVIOUS
<1>1. CASE UNCHANGED checkVars
  BY <1>1 DEF IInv, Threads, Builds, ForksInv, checkVars, TaskCount, SliceCount, StepSize, CeilDiv
<1>2. CASE ChecksNext
  BY <1>2, HostKeeps, BeginKeeps, ClaimKeeps, LookKeeps, EndsKeep DEF ChecksNext
<1> QED BY <1>1, <1>2

\* The invariant always holds.
LEMMA Invariance == ChecksSpec => []IInv
<1>1. ChecksInit => IInv
  BY InitIInv
<1>2. IInv /\ [ChecksNext]_checkVars => IInv'
  BY StepsKeep
<1> QED BY <1>1, <1>2, PTL DEF ChecksSpec

(***************************************************************************)
(* A positional plan that is read was made of the rows as they are, in the  *)
(* model and in every fork (refresh_supported_chain_evidence).              *)
(***************************************************************************)
THEOREM PlansAreCurrent == ChecksSpec => []PlansCurrent
<1>1. IInv => PlansCurrent
  BY DEF IInv, Builds, Good, PlansCurrent, Models
<1> QED BY <1>1, Invariance, PTL

(***************************************************************************)
(* What refused_as_exhausted refuses would have failed, in the model and in *)
(* every fork, unless an artefact was made that the memory does not see.    *)
(***************************************************************************)
THEOREM RefusalsAreRight == ChecksSpec => []RefusalsRight
<1>1. ASSUME NEW b, Good(b) PROVE RefusalRight(b)
  <2> SUFFICES ASSUME b.exhausted # Nothing, ~b.helped,
                      NEW left \in 0..b.exhausted.left, RefusedAsExhausted(b, left)
               PROVE  ~Affords(b, left)
    BY DEF RefusalRight
  <2>1. b \in Builders /\ Remembers(b)
    BY <1>1 DEF Good
  <2>2. b.exhausted.left \in Nat
    BY <2>1, BuilderFields DEF Memory
  <2>3. ~Affords(b, b.exhausted.left)
    BY <2>1 DEF Remembers, RefusedAsExhausted
  <2> QED BY <2>2, <2>3, AffordsMore
<1>2. IInv => RefusalsRight
  BY <1>1 DEF IInv, Builds, RefusalsRight, Models
<1> QED BY <1>2, Invariance, PTL

-----------------------------------------------------------------------------
(***************************************************************************)
(* What the in-line pass finds.  Every look of a check sees a plan, so a    *)
(* check changes no model and finds the same in any.                        *)
(***************************************************************************)
\* What looks find that all see a plan.
Says(steps) == [i \in 1..Len(steps) |-> [of |-> steps[i].of, planned |-> TRUE]]

Row(w, f) == IF f <= Families THEN w.families[f] ELSE w.rows

\* What a family says of its steps is one finding each.
LEMMA SaysType ==
  ASSUME NEW steps \in Seq(Steps)
  PROVE  /\ Says(steps) \in Seq(Finding) /\ Len(Says(steps)) = Len(steps)
         /\ \A i \in 1..Len(steps) :
              Says(steps)[i] = [of |-> steps[i].of, planned |-> TRUE]
<1>1. Len(steps) \in Nat
  OBVIOUS
<1>2. \A i \in 1..Len(steps) : steps[i] \in Steps
  BY ElementOfSeq
<1>3. \A i \in 1..Len(steps) : [of |-> steps[i].of, planned |-> TRUE] \in Finding
  BY <1>2 DEF Finding, Steps
<1>4. Says(steps) \in [1..Len(steps) -> Finding]
  BY <1>3 DEF Says
<1>5. Says(steps) \in Seq(Finding) /\ Len(Says(steps)) = Len(steps)
  BY <1>1, <1>4
<1> QED BY <1>5 DEF Says

\* With an effective plan a step is answered from the plan and changes nothing.
LEMMA LookedPlanned ==
  ASSUME NEW b, Effective(b), NEW s \in Steps
  PROVE  Looked(b, s) = b /\ Answer(s, b) = [of |-> s.of, planned |-> TRUE]
<1>1. Looked(b, s) = b
  BY DEF Looked, Ask, Ensure, Steps
<1>2. Effective(b) = TRUE
  BY DEF Effective
<1> QED BY <1>1, <1>2 DEF Answer

\* The checks so far.
IsRan(f, b, steps) ==
  f = [i \in 0..Len(steps) |->
        IF i = 0 THEN [b |-> b, found |-> <<>>]
        ELSE LET before == f[i - 1]
                 after == Looked(before.b, steps[i])
             IN  [b |-> after, found |-> Append(before.found, Answer(steps[i], after))]]

\* So is a family.
LEMMA RanPlanned ==
  ASSUME NEW b, NEW steps \in Seq(Steps), steps # <<>> => Effective(b)
  PROVE  Ran(b, steps) = [b |-> b, found |-> Says(steps)]
<1> DEFINE n == Len(steps)
           says == Says(steps)
           c == [i \in 0..n |-> [b |-> b, found |-> SubSeq(says, 1, i)]]
<1>1. n \in Nat /\ says \in Seq(Finding) /\ Len(says) = n
  BY SaysType
<1>2. \A i \in 1..n : /\ Looked(b, steps[i]) = b
                      /\ Answer(steps[i], b) = says[i]
  <2> SUFFICES ASSUME NEW i \in 1..n
               PROVE  Looked(b, steps[i]) = b /\ Answer(steps[i], b) = says[i]
    OBVIOUS
  <2>1. steps[i] \in Steps /\ steps # <<>>
    BY ElementOfSeq
  <2> QED BY <2>1, LookedPlanned, SaysType
<1>3. \A i \in 1..n : SubSeq(says, 1, i) = Append(SubSeq(says, 1, i - 1), says[i])
  <2> SUFFICES ASSUME NEW i \in 1..n
               PROVE  SubSeq(says, 1, i) = Append(SubSeq(says, 1, i - 1), says[i])
    OBVIOUS
  <2> HIDE DEF says, n
  <2>1. 1 \in 1..Len(says) /\ i \in 1..Len(says)
    BY <1>1
  <2>2. SubSeq(says, 1, i) = SubSeq(says, 1, i - 1) \o <<says[i]>>
    BY <1>1, <2>1, SubSeqRecursiveSecond
  <2>3. \A j \in 1..(i - 1) : says[j] \in Finding
    BY <1>1, <2>1, ElementOfSeq
  <2>4. SubSeq(says, 1, i - 1) \in Seq(Finding) /\ says[i] \in Finding
    BY <1>1, <2>1, <2>3, SubSeqProperties, ElementOfSeq
  <2> QED BY <2>2, <2>4, AppendIsConcat
<1>4. SubSeq(says, 1, 0) = <<>> /\ SubSeq(says, 1, n) = says
  <2> HIDE DEF says, n
  <2> QED BY <1>1, SubSeqFull, SubSeqEmpty
<1> DEFINE f == CHOOSE f : IsRan(f, b, steps)
           Next(p, i) == LET after == Looked(p.b, steps[i])
                         IN  [b |-> after, found |-> Append(p.found, Answer(steps[i], after))]
<1>5. \A i \in 1..n : Next([b |-> b, found |-> SubSeq(says, 1, i - 1)], i)
                        = [b |-> b, found |-> SubSeq(says, 1, i)]
  <2> SUFFICES ASSUME NEW i \in 1..n
               PROVE  Next([b |-> b, found |-> SubSeq(says, 1, i - 1)], i)
                        = [b |-> b, found |-> SubSeq(says, 1, i)]
    OBVIOUS
  <2> DEFINE p == [b |-> b, found |-> SubSeq(says, 1, i - 1)]
  <2>1. p.b = b /\ p.found = SubSeq(says, 1, i - 1)
    OBVIOUS
  <2> HIDE DEF says, p
  <2>2. Next(p, i) = [b |-> b, found |-> SubSeq(says, 1, i)]
    BY <1>2, <1>3, <2>1
  <2> QED BY <2>2 DEF p
<1> HIDE DEF says
<1>6. IsRan(c, b, steps)
  <2>1. c[0] = [b |-> b, found |-> <<>>]
    BY <1>1, <1>4
  <2>2. ASSUME NEW i \in 1..n PROVE c[i] = Next(c[i - 1], i)
    <3>1. i \in 0..n /\ i - 1 \in 0..n
      BY <1>1
    <3>2. /\ c[i] = [b |-> b, found |-> SubSeq(says, 1, i)]
          /\ c[i - 1] = [b |-> b, found |-> SubSeq(says, 1, i - 1)]
      BY <3>1
    <3> HIDE DEF c, Next
    <3> QED BY <1>5, <3>2
  <2>3. c = [i \in 0..n |-> c[i]]
    OBVIOUS
  <2> HIDE DEF c
  <2>4. \A i \in 0..n : c[i] = IF i = 0 THEN [b |-> b, found |-> <<>>] ELSE Next(c[i - 1], i)
    <3> HIDE DEF Next
    <3>1. \A i \in 0..n : i # 0 => i \in 1..n
      BY <1>1
    <3> QED BY <2>1, <2>2, <3>1
  <2> QED BY <2>3, <2>4 DEF IsRan
<1>7. IsRan(f, b, steps)
  BY <1>6
<1>8. Ran(b, steps) = f[n]
  BY DEF Ran, IsRan
<1> HIDE DEF f
<1>9. f[0] = [b |-> b, found |-> <<>>] /\ \A i \in 1..n : f[i] = Next(f[i - 1], i)
  <2>1. f = [i \in 0..n |-> IF i = 0 THEN [b |-> b, found |-> <<>>] ELSE Next(f[i - 1], i)]
    BY <1>7 DEF IsRan
  <2> HIDE DEF Next, n
  <2>2. 0 \in 0..n /\ \A i \in 1..n : i \in 0..n /\ i # 0
    BY <1>1
  <2> QED BY <2>1, <2>2
<1> DEFINE Done == {k \in Nat : k <= n => f[k] = [b |-> b, found |-> SubSeq(says, 1, k)]}
<1>10. 0 \in Done
  BY <1>4, <1>9
<1>11. ASSUME NEW k \in Nat, k \in Done PROVE k + 1 \in Done
  <2> HIDE DEF n, Next
  <2> SUFFICES ASSUME k + 1 <= n
               PROVE  f[k + 1] = [b |-> b, found |-> SubSeq(says, 1, k + 1)]
    OBVIOUS
  <2>1. k + 1 \in 1..n /\ (k + 1) - 1 = k /\ k <= n
    BY <1>1
  <2>2. f[k + 1] = Next(f[k], k + 1)
    BY <1>9, <2>1
  <2>3. f[k] = [b |-> b, found |-> SubSeq(says, 1, k)]
    BY <1>11, <2>1
  <2> QED BY <1>5, <2>1, <2>2, <2>3
<1> HIDE DEF Done
<1>12. n \in Done
  BY <1>1, <1>10, <1>11, SetInduction
<1> QED BY <1>1, <1>4, <1>8, <1>12 DEF Done, says

\* A builder that planned has a plan to read.
LEMMA PlanFirstPlans ==
  ASSUME NEW b \in Builders, NEW w
  PROVE  w.plans => Effective(PlanFirst(b, w))
<1> SUFFICES ASSUME w.plans, ~Effective(b) PROVE Effective(Published(Refresh(b)))
  BY DEF PlanFirst, Ensure
<1> DEFINE r == Refresh(b)
<1>1. r \in Builders
  BY RefreshFields
<1> HIDE DEF r
<1>2. /\ Published(r).made = [a \in Artefacts |-> r.revision]
      /\ Published(r).plan = r.authored /\ Published(r).revision = r.revision
  BY <1>1 DEF Published, Builders
<1>3. r.authored # Nothing
  BY <1>1, BuilderFields, NothingAssumption
<1>4. Effective(Published(r))
  BY <1>2, <1>3 DEF Effective, ImpliedCurrent, Artefacts
<1> QED BY <1>4 DEF r

\* A row of the work is a sequence of steps, empty unless the work plans.
LEMMA RowType ==
  ASSUME NEW w \in Works, NEW f \in 1..(Families + 1)
  PROVE  Row(w, f) \in Seq(Steps) /\ (~w.plans => Row(w, f) = <<>>)
<1>1. w \in Work /\ Families \in Nat
  BY ChecksAssumption
<1>2. w.families \in [1..Families -> Seq(Steps)] /\ w.rows \in Seq(Steps)
  BY <1>1 DEF Work
<1>3. f <= Families => f \in 1..Families
  BY <1>1
<1>4. Row(w, f) \in Seq(Steps)
  BY <1>2, <1>3 DEF Row
<1>5. ~w.plans => Row(w, f) = <<>>
  BY <1>3, ChecksAssumption DEF Row
<1> QED BY <1>4, <1>5

\* The pass so far.
IsInLine(u, b, w) ==
  u = [f \in 0..(Families + 1) |->
        IF f = 0 THEN [b |-> PlanFirst(b, w), found |-> <<>>]
        ELSE LET before == u[f - 1]
                 ran == Ran(before.b, IF f <= Families THEN w.families[f] ELSE w.rows)
             IN  [b |-> ran.b, found |-> Append(before.found, ran.found)]]

\* The in-line pass finds what each row says.
LEMMA InLinePlanned ==
  ASSUME NEW b \in Builders, NEW w \in Works
  PROVE  InLine(b, w) = [b     |-> PlanFirst(b, w),
                         found |-> [f \in 1..(Families + 1) |-> Says(Row(w, f))]]
<1> DEFINE n == Families + 1
           d == PlanFirst(b, w)
           whole == [f \in 1..n |-> Says(Row(w, f))]
           Parts == Seq(Finding)
           c == [f \in 0..n |-> [b |-> d, found |-> SubSeq(whole, 1, f)]]
           Next(p, f) == LET ran == Ran(p.b, Row(w, f))
                         IN  [b |-> ran.b, found |-> Append(p.found, ran.found)]
<1>1. n \in Nat
  BY ChecksAssumption
<1>2. whole \in Seq(Parts) /\ Len(whole) = n
  <2>1. \A f \in 1..n : Says(Row(w, f)) \in Parts
    BY RowType, SaysType
  <2>2. whole \in [1..n -> Parts]
    BY <2>1
  <2> HIDE DEF whole, Parts, n
  <2> QED BY <1>1, <2>2
<1>3. \A f \in 1..n : Ran(d, Row(w, f)) = [b |-> d, found |-> whole[f]]
  <2> SUFFICES ASSUME NEW f \in 1..n PROVE Ran(d, Row(w, f)) = [b |-> d, found |-> Says(Row(w, f))]
    OBVIOUS
  <2>1. Row(w, f) \in Seq(Steps) /\ (Row(w, f) # <<>> => Effective(d))
    BY RowType, PlanFirstPlans
  <2> HIDE DEF d
  <2> QED BY <2>1, RanPlanned
<1>4. \A f \in 1..n : SubSeq(whole, 1, f) = Append(SubSeq(whole, 1, f - 1), whole[f])
  <2> HIDE DEF whole, n, Parts
  <2> SUFFICES ASSUME NEW f \in 1..n
               PROVE  SubSeq(whole, 1, f) = Append(SubSeq(whole, 1, f - 1), whole[f])
    OBVIOUS
  <2>1. 1 \in 1..Len(whole) /\ f \in 1..Len(whole)
    BY <1>1, <1>2
  <2>2. SubSeq(whole, 1, f) = SubSeq(whole, 1, f - 1) \o <<whole[f]>>
    BY <1>2, <2>1, SubSeqRecursiveSecond
  <2>3. \A j \in 1..(f - 1) : whole[j] \in Parts
    BY <1>1, <1>2, <2>1, ElementOfSeq
  <2>4. SubSeq(whole, 1, f - 1) \in Seq(Parts) /\ whole[f] \in Parts
    BY <1>1, <1>2, <2>1, <2>3, SubSeqProperties, ElementOfSeq
  <2> QED BY <2>2, <2>4, AppendIsConcat
<1>5. SubSeq(whole, 1, 0) = <<>> /\ SubSeq(whole, 1, n) = whole
  <2> HIDE DEF whole, n, Parts
  <2> QED BY <1>1, <1>2, SubSeqFull, SubSeqEmpty
<1> HIDE DEF whole, d
<1>6. ASSUME NEW f \in 1..n
      PROVE  Next([b |-> d, found |-> SubSeq(whole, 1, f - 1)], f)
               = [b |-> d, found |-> SubSeq(whole, 1, f)]
  <2> DEFINE p == [b |-> d, found |-> SubSeq(whole, 1, f - 1)]
             ran == Ran(d, Row(w, f))
  <2>1. p.b = d /\ p.found = SubSeq(whole, 1, f - 1)
    OBVIOUS
  <2>2. ran.b = d /\ ran.found = whole[f]
    <3>1. ran = [b |-> d, found |-> whole[f]]
      BY <1>3
    <3> HIDE DEF ran
    <3> QED BY <3>1
  <2>3. Next(p, f) = [b |-> ran.b, found |-> Append(p.found, ran.found)]
    BY <2>1
  <2> HIDE DEF p, ran
  <2>4. Next(p, f) = [b |-> d, found |-> SubSeq(whole, 1, f)]
    BY <1>4, <2>1, <2>2, <2>3
  <2> QED BY <2>4 DEF p
<1>7. IsInLine(c, b, w)
  <2>1. c[0] = [b |-> d, found |-> <<>>]
    BY <1>1, <1>5
  <2>2. ASSUME NEW f \in 1..n PROVE c[f] = Next(c[f - 1], f)
    <3>1. f \in 0..n /\ f - 1 \in 0..n
      BY <1>1
    <3>2. /\ c[f] = [b |-> d, found |-> SubSeq(whole, 1, f)]
          /\ c[f - 1] = [b |-> d, found |-> SubSeq(whole, 1, f - 1)]
      BY <3>1
    <3> HIDE DEF c, Next
    <3> QED BY <1>6, <3>2
  <2>3. c = [f \in 0..n |-> c[f]]
    OBVIOUS
  <2> HIDE DEF c
  <2>4. \A f \in 0..n : c[f] = IF f = 0 THEN [b |-> d, found |-> <<>>] ELSE Next(c[f - 1], f)
    <3> HIDE DEF Next
    <3>1. \A f \in 0..n : f # 0 => f \in 1..n
      BY <1>1
    <3> QED BY <2>1, <2>2, <3>1
  <2> QED BY <2>3, <2>4 DEF IsInLine, d, Row
<1> DEFINE u == CHOOSE u : IsInLine(u, b, w)
<1>8. IsInLine(u, b, w)
  BY <1>7
<1>9. InLine(b, w) = u[n]
  BY DEF InLine, IsInLine
<1> HIDE DEF u
<1>10. u[0] = [b |-> d, found |-> <<>>] /\ \A f \in 1..n : u[f] = Next(u[f - 1], f)
  <2>1. u = [f \in 0..n |-> IF f = 0 THEN [b |-> d, found |-> <<>>] ELSE Next(u[f - 1], f)]
    BY <1>8 DEF IsInLine, d, Row
  <2> HIDE DEF Next, n
  <2>2. 0 \in 0..n /\ \A f \in 1..n : f \in 0..n /\ f # 0
    BY <1>1
  <2> QED BY <2>1, <2>2
<1> DEFINE Done == {k \in Nat : k <= n => u[k] = [b |-> d, found |-> SubSeq(whole, 1, k)]}
<1>11. 0 \in Done
  BY <1>5, <1>10
<1>12. ASSUME NEW k \in Nat, k \in Done PROVE k + 1 \in Done
  <2> HIDE DEF n, Next
  <2> SUFFICES ASSUME k + 1 <= n
               PROVE  u[k + 1] = [b |-> d, found |-> SubSeq(whole, 1, k + 1)]
    OBVIOUS
  <2>1. k + 1 \in 1..n /\ (k + 1) - 1 = k /\ k <= n
    BY <1>1
  <2>2. u[k + 1] = Next(u[k], k + 1)
    BY <1>10, <2>1
  <2>3. u[k] = [b |-> d, found |-> SubSeq(whole, 1, k)]
    BY <1>12, <2>1
  <2>4. Next([b |-> d, found |-> SubSeq(whole, 1, (k + 1) - 1)], k + 1)
          = [b |-> d, found |-> SubSeq(whole, 1, k + 1)]
    BY <1>6, <2>1
  <2> QED BY <2>1, <2>2, <2>3, <2>4
<1> HIDE DEF Done
<1>13. n \in Done
  BY <1>1, <1>11, <1>12, SetInduction
<1> QED BY <1>1, <1>5, <1>9, <1>13 DEF Done, whole, d

-----------------------------------------------------------------------------
(***************************************************************************)
(* The list of tasks has every family and every row once: its keys are a    *)
(* permutation, and what they find, put in order, is what the pass finds.   *)
(***************************************************************************)
Keys == [i \in 1..TaskCount |-> KeyAt(i)]
Due == [key \in 1..TaskCount |-> Says(StepsOf(key))]
Whole == [f \in 1..(Families + 1) |-> Says(Row(work, f))]

\* The row a slice ends with.
RowAt(k, s, n) == IF k * s < n THEN k * s ELSE n

\* The arithmetic of slices of s rows out of n.
LEMMA SliceEnds ==
  ASSUME NEW n \in Nat, NEW s \in Nat \ {0}
  PROVE  /\ CeilDiv(n, s) \in Nat /\ RowAt(CeilDiv(n, s), s, n) = n
         /\ \A k \in Nat : k * s \in Nat /\ RowAt(k, s, n) \in 0..n
         /\ \A k \in 1..CeilDiv(n, s) :
              (k - 1) * s < n /\ RowAt(k - 1, s, n) = (k - 1) * s /\ (k - 1) * s <= RowAt(k, s, n)
<1> DEFINE a == n + s - 1
           c == a \div s
<1>1. \A x \in Nat, y \in Nat \ {0} : /\ x \div y \in Nat /\ (x \div y) * y <= x
                                      /\ x < (x \div y) * y + y
  OBVIOUS
<1>2. a \in Nat /\ CeilDiv(n, s) = c
  BY DEF CeilDiv
<1>3. c \in Nat /\ c * s <= a /\ a < c * s + s
  <2> HIDE DEF a
  <2> QED BY <1>1, <1>2
<1> HIDE DEF c
<1>4. c * s \in Nat /\ n <= c * s
  <2>1. c * s \in Nat
    BY <1>3
  <2> QED BY <1>2, <1>3, <2>1
<1>5. RowAt(c, s, n) = n
  BY <1>4 DEF RowAt
<1>6. \A k \in Nat : k * s \in Nat /\ RowAt(k, s, n) \in 0..n
  <2> SUFFICES ASSUME NEW k \in Nat PROVE k * s \in Nat /\ RowAt(k, s, n) \in 0..n
    OBVIOUS
  <2>1. k * s \in Nat
    OBVIOUS
  <2> QED BY <2>1 DEF RowAt
<1>7. ASSUME NEW k \in 1..c
      PROVE  /\ (k - 1) * s < n /\ RowAt(k - 1, s, n) = (k - 1) * s
             /\ (k - 1) * s <= RowAt(k, s, n)
  <2>1. k \in Nat /\ k - 1 \in Nat /\ c - k \in Nat
    BY <1>3
  <2>2. c * s = k * s + (c - k) * s /\ (c - k) * s \in Nat
    BY <1>3, <2>1
  <2>3. k * s = (k - 1) * s + s /\ (k - 1) * s \in Nat /\ k * s \in Nat
    BY <2>1
  <2>4. (k - 1) * s < n
    BY <1>2, <1>3, <1>4, <2>2, <2>3
  <2> QED BY <2>3, <2>4 DEF RowAt
<1> QED BY <1>2, <1>3, <1>5, <1>6, <1>7

\* How many tasks there are.
LEMMA Counts ==
  ASSUME work \in Works
  PROVE  SliceCount \in Nat /\ Families \in Nat \ {0} /\ TaskCount = Families + SliceCount
<1>1. Len(work.rows) \in Nat
  BY WorkTypes
<1> QED BY <1>1, WorkTypes, SliceEnds, ChecksAssumption DEF TaskCount, SliceCount

\* Every family is among the largest first.
LEMMA LargestFirstHasAll ==
  ASSUME NEW f \in 1..Families PROVE \E i \in 1..Families : LargestFirst[i] = f
<1> DEFINE S == 1..Families
<1>1. S = 1..Families /\ IsFiniteSet(S) /\ LargestFirst \in [S -> S]
  <2>1. 1 \in Int /\ Families \in Int
    BY ChecksAssumption
  <2>2. IsFiniteSet(1..Families)
    BY <2>1, FS_Interval
  <2> QED BY <2>2, ChecksAssumption
<1>2. \A i, j \in S : LargestFirst[i] = LargestFirst[j] => i = j
  BY ChecksAssumption
<1>3. LargestFirst \in Injection(S, S)
  BY <1>1, <1>2 DEF Injection, IsInjective
<1>4. LargestFirst \in Surjection(S, S)
  BY <1>1, <1>3, FS_Injection
<1> QED BY <1>4 DEF Surjection

\* Each slice follows the largest families or precedes them, once.
LEMMA KeysPermute ==
  ASSUME work \in Works
  PROVE  /\ Keys \in [1..TaskCount -> 1..TaskCount]
         /\ \A i, j \in 1..TaskCount : Keys[i] = Keys[j] => i = j
         /\ \A key \in 1..TaskCount : \E i \in 1..TaskCount : Keys[i] = key
<1>1. SliceCount \in Nat /\ Families \in Nat \ {0} /\ TaskCount = Families + SliceCount
  BY Counts
<1>2. CASE pass = "inline"
  <2>1. \A i \in 1..TaskCount : Keys[i] = i
    BY <1>2 DEF Keys, KeyAt
  <2>2. Keys \in [1..TaskCount -> 1..TaskCount]
    BY <2>1 DEF Keys
  <2> QED BY <2>1, <2>2
<1>3. CASE pass # "inline"
  <2> DEFINE place(i) == IF i <= 2 THEN i ELSE SliceCount + 3 - i
  <2>1. \A i \in 1..SliceCount : i \in 1..TaskCount /\ Keys[i] = Families + place(i)
    <3> SUFFICES ASSUME NEW i \in 1..SliceCount
                 PROVE  i \in 1..TaskCount /\ Keys[i] = Families + place(i)
      OBVIOUS
    <3>1. i \in 1..TaskCount /\ i <= SliceCount /\ ~(i > SliceCount)
      BY <1>1
    <3>2. KeyAt(i) = Families + place(i)
      BY <1>3, <3>1 DEF KeyAt
    <3> QED BY <3>1, <3>2 DEF Keys
  <2>2. \A i \in (SliceCount + 1)..TaskCount :
           i \in 1..TaskCount /\ i - SliceCount \in 1..Families
             /\ Keys[i] = LargestFirst[i - SliceCount] /\ Keys[i] \in 1..Families
    <3> SUFFICES ASSUME NEW i \in (SliceCount + 1)..TaskCount
                 PROVE  i \in 1..TaskCount /\ i - SliceCount \in 1..Families
                          /\ Keys[i] = LargestFirst[i - SliceCount] /\ Keys[i] \in 1..Families
      OBVIOUS
    <3>1. i \in 1..TaskCount /\ i > SliceCount /\ ~(i <= SliceCount)
            /\ i - SliceCount \in 1..Families
      BY <1>1
    <3>2. KeyAt(i) = LargestFirst[i - SliceCount]
      BY <1>3, <3>1 DEF KeyAt
    <3>3. LargestFirst[i - SliceCount] \in 1..Families
      BY <3>1, ChecksAssumption
    <3> QED BY <3>1, <3>2, <3>3 DEF Keys
  <2>3. /\ \A i \in 1..SliceCount : place(i) \in 1..SliceCount
        /\ \A i, j \in 1..SliceCount : place(i) = place(j) => i = j
        /\ \A k \in 1..SliceCount : place(place(k)) = k
    BY <1>1
  <2>4. \A i \in 1..TaskCount : i \in 1..SliceCount \/ i \in (SliceCount + 1)..TaskCount
    BY <1>1
  <2> HIDE DEF place
  <2>5. \A i \in 1..TaskCount : Keys[i] \in 1..TaskCount
    <3> SUFFICES ASSUME NEW i \in 1..TaskCount PROVE Keys[i] \in 1..TaskCount
      OBVIOUS
    <3>1. CASE i \in 1..SliceCount
      BY <1>1, <2>1, <2>3, <3>1
    <3>2. CASE i \in (SliceCount + 1)..TaskCount
      BY <1>1, <2>2, <3>2
    <3> QED BY <2>4, <3>1, <3>2
  <2>6. Keys \in [1..TaskCount -> 1..TaskCount]
    BY <2>5 DEF Keys
  <2>7. ASSUME NEW i \in 1..TaskCount, NEW j \in 1..TaskCount, Keys[i] = Keys[j]
        PROVE  i = j
    <3>1. CASE i \in 1..SliceCount /\ j \in 1..SliceCount
      <4>1. place(i) \in Nat /\ place(j) \in Nat
        BY <1>1, <2>3, <3>1
      <4>2. place(i) = place(j)
        BY <1>1, <2>1, <2>7, <3>1, <4>1
      <4> QED BY <2>3, <3>1, <4>2
    <3>2. CASE i \in (SliceCount + 1)..TaskCount /\ j \in (SliceCount + 1)..TaskCount
      <4>1. LargestFirst[i - SliceCount] = LargestFirst[j - SliceCount]
        BY <2>2, <2>7, <3>2
      <4>2. i - SliceCount = j - SliceCount
        BY <2>2, <3>2, <4>1, ChecksAssumption
      <4> QED BY <1>1, <4>2
    <3>3. \A a \in 1..SliceCount : \A b \in (SliceCount + 1)..TaskCount : Keys[a] # Keys[b]
      <4> SUFFICES ASSUME NEW a \in 1..SliceCount, NEW b \in (SliceCount + 1)..TaskCount
                   PROVE  Keys[a] # Keys[b]
        OBVIOUS
      <4>1. Keys[a] = Families + place(a) /\ place(a) \in 1..SliceCount
        BY <2>1, <2>3
      <4>2. Keys[b] \in 1..Families
        BY <2>2
      <4> QED BY <1>1, <4>1, <4>2
    <3> QED BY <2>4, <2>7, <3>1, <3>2, <3>3
  <2>8. ASSUME NEW key \in 1..TaskCount PROVE \E i \in 1..TaskCount : Keys[i] = key
    <3>1. CASE key \in 1..Families
      <4>1. PICK f \in 1..Families : LargestFirst[f] = key
        BY <3>1, LargestFirstHasAll
      <4>2. f + SliceCount \in (SliceCount + 1)..TaskCount /\ (f + SliceCount) - SliceCount = f
        BY <1>1
      <4> QED BY <2>2, <4>1, <4>2
    <3>2. CASE key \notin 1..Families
      <4>1. key - Families \in 1..SliceCount /\ Families + (key - Families) = key
        BY <1>1, <3>2
      <4>2. place(key - Families) \in 1..SliceCount /\ place(place(key - Families)) = key - Families
        BY <2>3, <4>1
      <4> QED BY <2>1, <4>1, <4>2
    <3> QED BY <3>1, <3>2
  <2> QED BY <2>6, <2>7, <2>8
<1> QED BY <1>2, <1>3

\* A slice finds what the pass finds in its rows.
LEMMA SliceSays ==
  ASSUME work \in Works, NEW k \in 1..SliceCount
  PROVE  LET n == Len(work.rows)
             s == StepSize(n)
         IN  Says(StepsOf(Families + k))
               = SubSeq(Says(work.rows), (k - 1) * s + 1, RowAt(k, s, n))
<1> DEFINE n == Len(work.rows)
           s == StepSize(n)
           first == (k - 1) * s + 1
           last == RowAt(k, s, n)
           rows == work.rows
           slice == SubSeq(rows, first, last)
<1>1. rows \in Seq(Steps) /\ n \in Nat /\ s \in Nat \ {0} /\ SliceCount = CeilDiv(n, s)
  BY WorkTypes DEF SliceCount
<1>2. (k - 1) * s \in Nat /\ (k - 1) * s < n /\ (k - 1) * s <= last /\ last \in 0..n
  <2> HIDE DEF n, s
  <2>1. k \in Nat /\ k - 1 \in Nat /\ k \in 1..CeilDiv(n, s)
    BY <1>1, Counts
  <2> QED BY <1>1, <2>1, SliceEnds
<1>3. StepsOf(Families + k) = slice
  <2>1. Families + k \in Nat /\ ~(Families + k <= Families) /\ (Families + k) - Families = k
    BY Counts
  <2> QED BY <2>1 DEF StepsOf, SliceRows, RowAt
<1> HIDE DEF n, s, rows
<1>4. first \in 1..n /\ last \in 0..n
  BY <1>1, <1>2
<1> HIDE DEF first, last
<1>5. \A j \in first..last : j \in 1..n /\ rows[j] \in Steps
  BY <1>1, <1>4, ElementOfSeq DEF n, rows
<1>6. /\ slice \in Seq(Steps) /\ Len(slice) = (IF first <= last THEN last - first + 1 ELSE 0)
      /\ \A i \in 1..(last - first + 1) : slice[i] = rows[first + i - 1]
  BY <1>1, <1>4, <1>5, SubSeqProperties
<1> DEFINE whole == Says(rows)
           part == SubSeq(whole, first, last)
<1>7. /\ whole \in Seq(Finding) /\ Len(whole) = n
      /\ \A j \in 1..n : whole[j] = [of |-> rows[j].of, planned |-> TRUE]
  BY <1>1, SaysType DEF n, rows
<1>8. /\ Says(slice) \in Seq(Finding) /\ Len(Says(slice)) = Len(slice)
      /\ \A i \in 1..Len(slice) : Says(slice)[i] = [of |-> slice[i].of, planned |-> TRUE]
  BY <1>6, SaysType
<1> HIDE DEF slice, whole
<1>9. \A j \in first..last : whole[j] \in Finding
  BY <1>5, <1>7, ElementOfSeq
<1>10. /\ part \in Seq(Finding) /\ Len(part) = (IF first <= last THEN last - first + 1 ELSE 0)
       /\ \A i \in 1..(last - first + 1) : part[i] = whole[first + i - 1]
  BY <1>1, <1>4, <1>9, SubSeqProperties
<1> HIDE DEF part
<1>11. ASSUME NEW i \in 1..Len(slice) PROVE Says(slice)[i] = part[i]
  <2>1. i \in 1..(last - first + 1) /\ first + i - 1 \in first..last
    BY <1>1, <1>4, <1>6
  <2>2. slice[i] = rows[first + i - 1] /\ part[i] = whole[first + i - 1]
    BY <1>6, <1>10, <2>1
  <2>3. whole[first + i - 1] = [of |-> rows[first + i - 1].of, planned |-> TRUE]
    BY <1>5, <1>7, <2>1
  <2> QED BY <1>8, <2>2, <2>3
<1>12. Says(slice) = part
  BY <1>6, <1>8, <1>10, <1>11, SeqEqual
<1> QED BY <1>3, <1>12 DEF part, whole, first, last, n, s, rows

\* What is due of each task, and of each family as a whole.
LEMMA DueType ==
  ASSUME work \in Works
  PROVE  /\ Len(Due) = TaskCount /\ \A key \in 1..TaskCount : Due[key] \in Seq(Finding)
         /\ Len(Whole) = Families + 1 /\ \A f \in 1..(Families + 1) : Whole[f] \in Seq(Finding)
         /\ \A f \in 1..Families : Due[f] = Whole[f]
<1>1. SliceCount \in Nat /\ Families \in Nat \ {0} /\ TaskCount = Families + SliceCount
  BY Counts
<1>2. Len(Due) = TaskCount /\ Len(Whole) = Families + 1
  BY <1>1 DEF Due, Whole
<1>3. \A f \in 1..(Families + 1) : Whole[f] \in Seq(Finding)
  BY RowType, SaysType DEF Whole
<1>4. \A key \in 1..TaskCount : Due[key] \in Seq(Finding)
  <2> SUFFICES ASSUME NEW key \in 1..TaskCount PROVE Due[key] \in Seq(Finding)
    OBVIOUS
  <2>1. PICK i \in 1..TaskCount : Keys[i] = key
    BY KeysPermute
  <2>2. StepsOf(key) \in Seq(Steps)
    BY <2>1, TasksAreLooks DEF Keys
  <2> QED BY <2>2, SaysType DEF Due
<1>5. \A f \in 1..Families : Due[f] = Whole[f]
  <2> SUFFICES ASSUME NEW f \in 1..Families PROVE Due[f] = Whole[f]
    OBVIOUS
  <2>1. f \in 1..TaskCount /\ f \in 1..(Families + 1) /\ f <= Families
    BY <1>1
  <2> QED BY <2>1 DEF Due, Whole, StepsOf, Row
<1> QED BY <1>2, <1>3, <1>4, <1>5

\* All keys in order, the slices among them: what the pass finds.
LEMMA DueJoins ==
  ASSUME work \in Works PROVE Joined(Due) = Joined(Whole)
<1> DEFINE n == Len(work.rows)
           s == StepSize(n)
           R == Says(work.rows)
           At(m) == RowAt(m, s, n)
<1>1. SliceCount \in Nat /\ Families \in Nat \ {0} /\ TaskCount = Families + SliceCount
  BY Counts
<1>2. n \in Nat /\ s \in Nat \ {0} /\ R \in Seq(Finding) /\ Len(R) = n /\ SliceCount = CeilDiv(n, s)
  BY WorkTypes, SaysType DEF SliceCount
<1>3. PICK g : JoinedBy(g, Due, Finding)
  BY <1>1, DueType, JoinedStepwise
<1>4. PICK e : JoinedBy(e, Whole, Finding)
  BY <1>1, DueType, JoinedStepwise
<1>5. /\ g[0] = <<>> /\ e[0] = <<>>
      /\ g[TaskCount] = Joined(Due) /\ e[Families + 1] = Joined(Whole)
      /\ \A i \in 1..TaskCount : g[i] = g[i - 1] \o Due[i]
      /\ \A i \in 1..(Families + 1) : e[i] = e[i - 1] \o Whole[i]
      /\ \A i \in 0..(Families + 1) : e[i] \in Seq(Finding)
  BY <1>3, <1>4, DueType DEF JoinedBy
<1>6. g[Families] = e[Families]
  <2> DEFINE Done == {k \in Nat : k <= Families => g[k] = e[k]}
  <2>1. 0 \in Done
    BY <1>5
  <2>2. ASSUME NEW k \in Nat, k \in Done PROVE k + 1 \in Done
    <3> SUFFICES ASSUME k + 1 <= Families PROVE g[k + 1] = e[k + 1]
      OBVIOUS
    <3>1. /\ k + 1 \in 1..TaskCount /\ k + 1 \in 1..(Families + 1) /\ k + 1 \in 1..Families
          /\ (k + 1) - 1 = k /\ k <= Families
      BY <1>1
    <3>2. g[k] = e[k]
      BY <2>2, <3>1
    <3>3. Due[k + 1] = Whole[k + 1]
      BY <3>1, DueType
    <3>4. g[k + 1] = g[k] \o Due[k + 1] /\ e[k + 1] = e[k] \o Whole[k + 1]
      BY <1>5, <3>1
    <3> QED BY <3>2, <3>3, <3>4
  <2> HIDE DEF Done
  <2>3. Families \in Done
    BY <1>1, <2>1, <2>2, SetInduction
  <2> QED BY <1>1, <2>3 DEF Done
<1> DEFINE E == e[Families]
<1>7. E \in Seq(Finding) /\ e[Families + 1] = E \o R
  <2>1. /\ Families \in 0..(Families + 1) /\ Families + 1 \in 1..(Families + 1)
        /\ (Families + 1) - 1 = Families /\ ~(Families + 1 <= Families)
    BY <1>1
  <2>2. Whole[Families + 1] = R
    BY <2>1 DEF Whole, Row
  <2> QED BY <1>5, <2>1, <2>2
<1> HIDE DEF E
<1>8. \A k \in 1..SliceCount : Due[Families + k] = SubSeq(R, At(k - 1) + 1, At(k))
  <2> SUFFICES ASSUME NEW k \in 1..SliceCount
               PROVE  Due[Families + k] = SubSeq(R, At(k - 1) + 1, At(k))
    OBVIOUS
  <2>1. Families + k \in 1..TaskCount
    BY <1>1
  <2>2. Due[Families + k] = SubSeq(R, (k - 1) * s + 1, At(k))
    BY <2>1, SliceSays DEF Due
  <2>3. At(k - 1) = (k - 1) * s
    <3> HIDE DEF n, s
    <3> QED BY <1>2, SliceEnds
  <2> QED BY <2>2, <2>3
<1>9. /\ \A k \in Nat : At(k) \in 0..n
      /\ \A k \in 1..SliceCount : At(k - 1) <= At(k)
      /\ At(SliceCount) = n /\ At(0) = 0
  <2> HIDE DEF n, s
  <2>1. At(SliceCount) = n /\ \A k \in Nat : At(k) \in 0..n
    BY <1>2, SliceEnds
  <2>2. \A k \in 1..SliceCount : At(k - 1) <= At(k)
    BY <1>2, SliceEnds
  <2>3. 0 * s = 0
    BY <1>2
  <2>4. At(0) = 0
    BY <1>2, <2>3 DEF RowAt
  <2> QED BY <2>1, <2>2, <2>4
<1> HIDE DEF n, s, R, At
<1> DEFINE SoFar(m) == g[Families + m] = E \o SubSeq(R, 1, At(m))
           Done == {m \in Nat : m <= SliceCount => SoFar(m)}
<1>10. 0 \in Done
  <2>1. SubSeq(R, 1, At(0)) = <<>>
    BY <1>9, SubSeqEmpty
  <2>2. E \o <<>> = E
    BY <1>7, ConcatEmptySeq
  <2>3. Families + 0 = Families
    BY <1>1
  <2>4. SoFar(0)
    BY <1>6, <2>1, <2>2, <2>3 DEF E
  <2> HIDE DEF SoFar
  <2> QED BY <2>4
<1>11. ASSUME NEW m \in Nat, m \in Done PROVE m + 1 \in Done
  <2> HIDE DEF SoFar
  <2> SUFFICES ASSUME m + 1 <= SliceCount PROVE SoFar(m + 1)
    OBVIOUS
  <2>1. /\ m + 1 \in 1..SliceCount /\ (m + 1) - 1 = m /\ m <= SliceCount
        /\ Families + (m + 1) \in 1..TaskCount
        /\ (Families + (m + 1)) - 1 = Families + m
    BY <1>1
  <2>2. g[Families + m] = E \o SubSeq(R, 1, At(m))
    <3>1. SoFar(m)
      BY <1>11, <2>1
    <3> QED BY <3>1 DEF SoFar
  <2>3. g[Families + (m + 1)] = g[Families + m] \o Due[Families + (m + 1)]
    BY <1>5, <2>1
  <2>4. Due[Families + (m + 1)] = SubSeq(R, At(m) + 1, At(m + 1))
    BY <1>8, <2>1
  <2>5. At(m) \in 0..n /\ At(m + 1) \in 0..n /\ At(m) <= At(m + 1)
    BY <1>9, <2>1
  <2> DEFINE a == At(m)
             b == At(m + 1)
             A == SubSeq(R, 1, a)
             B == SubSeq(R, a + 1, b)
  <2>6. a \in 0..n /\ b \in 0..n /\ a <= b
    BY <2>5
  <2> HIDE DEF a, b
  <2>7. (\A j \in 1..a : R[j] \in Finding) /\ (\A j \in (a + 1)..b : R[j] \in Finding)
    <3>1. \A j \in 1..n : R[j] \in Finding
      BY <1>2, ElementOfSeq
    <3>2. (\A j \in 1..a : j \in 1..n) /\ (\A j \in (a + 1)..b : j \in 1..n)
      BY <1>2, <2>6
    <3> QED BY <3>1, <3>2
  <2>8. A \in Seq(Finding) /\ B \in Seq(Finding)
    BY <1>2, <2>6, <2>7, SubSeqProperties
  <2>9. A \o B = SubSeq(R, 1, b)
    <3>1. 1 \in 1..Len(R) + 1 /\ a \in 1 - 1..Len(R) /\ b \in a..Len(R)
      BY <1>2, <2>6
    <3> QED BY <1>2, <3>1, ConcatAdjacentSubSeq
  <2> HIDE DEF A, B
  <2>10. (E \o A) \o B = E \o (A \o B)
    BY <1>7, <2>8, ConcatAssociative
  <2>11. g[Families + (m + 1)] = (E \o A) \o B
    BY <2>2, <2>3, <2>4 DEF A, B, a, b
  <2> QED BY <2>9, <2>10, <2>11 DEF b, SoFar
<1> HIDE DEF Done
<1>12. SliceCount \in Done
  BY <1>1, <1>10, <1>11, SetInduction
<1>13. g[Families + SliceCount] = E \o SubSeq(R, 1, n)
  <2>1. SoFar(SliceCount)
    <3> HIDE DEF SoFar
    <3> QED BY <1>1, <1>12 DEF Done
  <2> QED BY <1>9, <2>1
<1>14. SubSeq(R, 1, n) = R
  BY <1>2, SubSeqFull
<1> QED BY <1>1, <1>5, <1>7, <1>13, <1>14

-----------------------------------------------------------------------------
(***************************************************************************)
(* The invariant of a check.                                                *)
(***************************************************************************)
Working == pass \in {"inline", "threads"}

\* A check changes no model: it has its plan, or never looks.
Planned ==
  Working => /\ work.plans => Effective(graph)
             /\ \A t \in Workers : forks[t] = graph
             /\ expected = [b |-> graph, found |-> Whole]

\* What a thread has seen of its task is what it should see.
Seeing ==
  Working => \A t \in Workers : doing[t] = "running" =>
    /\ Len(seen[t]) <= Len(Due[Keys[task[t]]])
    /\ \A i \in 1..Len(seen[t]) : seen[t][i] = Due[Keys[task[t]]][i]

\* Task i is at a thread, or was when the thread panicked.
HeldBy(i, t) == doing[t] \in {"running", "panicked"} /\ task[t] = i

\* What a finished task has left, which no thread holds any more.
Finished(j, i) ==
  /\ i < next /\ \A t \in Workers : ~HeldBy(i, t)
  /\ results[j] = [key |-> Keys[i], found |-> Due[Keys[i]]]

\* No task is at two threads, none is both at a thread and done, or done twice,
\* and every task that was taken is one or the other.
OneHolder ==
  /\ \A t \in Workers : doing[t] \in {"running", "panicked"} =>
       task[t] \in 1..TaskCount /\ task[t] < next
  /\ \A t, u \in Workers : \A i \in 1..TaskCount : HeldBy(i, t) /\ HeldBy(i, u) => t = u

OneResult ==
  /\ Len(results) \in Nat
  /\ \A j \in 1..Len(results) : \E i \in 1..TaskCount : Finished(j, i)
  /\ \A j, k \in 1..Len(results) : results[j].key = results[k].key => j = k

NoneLost ==
  \A i \in 1..TaskCount : i < next =>
    \/ \E j \in 1..Len(results) : results[j].key = Keys[i]
    \/ \E t \in Workers : HeldBy(i, t)

\* Who ends has seen that no task is left, and the caller is there.
Ending ==
  /\ doing[Caller] # "off"
  /\ \A t \in Workers : doing[t] = "ended" => next > TaskCount

Taken == Working => OneHolder /\ OneResult /\ NoneLost /\ Ending

AtRest ==
  /\ pass = "idle" => results = <<>> /\ \A t \in Workers : doing[t] = "off"
  /\ pass = "done" => FindingsInLine

LineInv == Planned /\ Seeing /\ Taken /\ AtRest

\* What each key finds comes from the one result it has.
LEMMA GatheredIsWhole ==
  ASSUME work \in Works, OneResult,
         \A key \in 1..TaskCount : \E j \in 1..Len(results) : results[j].key = key
  PROVE  Gathered = Joined(Whole)
<1>1. TaskCount \in Nat /\ Len(results) \in Nat
  BY Counts DEF OneResult
<1>2. ASSUME NEW key \in 1..TaskCount PROVE FoundUnder(key) = Due[key]
  <2> DEFINE q == [i \in 1..Len(results) |->
                     IF results[i].key = key THEN results[i].found ELSE <<>>]
  <2>1. PICK j \in 1..Len(results) : results[j].key = key
    OBVIOUS
  <2>2. PICK i \in 1..TaskCount : Finished(j, i)
    BY DEF OneResult
  <2>3. Keys[i] = key /\ results[j].found = Due[key]
    BY <2>1, <2>2 DEF Finished
  <2>4. /\ Len(q) = Len(results) /\ q[j] = Due[key]
        /\ \A k \in 1..Len(results) : k # j => q[k] = <<>>
    <3>1. \A k \in 1..Len(results) : k # j => results[k].key # key
      BY <2>1 DEF OneResult
    <3>2. Len(q) = Len(results)
      BY <1>1
    <3>3. q[j] = Due[key]
      BY <2>1, <2>3
    <3> QED BY <3>1, <3>2, <3>3
  <2>5. Due[key] \in Seq(Finding)
    BY DueType
  <2> HIDE DEF q
  <2>6. Joined(q) = q[j]
    BY <1>1, <2>1, <2>4, <2>5, JoinedOfOne
  <2> QED BY <2>4, <2>6 DEF FoundUnder, q
<1>3. [key \in 1..TaskCount |-> FoundUnder(key)] = Due
  BY <1>2 DEF Due
<1> QED BY <1>3, DueJoins DEF Gathered

\* While the pass and the work stay, so do the tasks and what they find.
LEMMA TasksStay ==
  ASSUME UNCHANGED <<pass, work>>
  PROVE  /\ TaskCount' = TaskCount /\ Keys' = Keys /\ Due' = Due /\ Whole' = Whole
         /\ Working' = Working
<1>1. SliceCount' = SliceCount /\ TaskCount' = TaskCount
  BY DEF TaskCount, SliceCount, StepSize, CeilDiv
<1>2. Keys' = Keys
  BY <1>1 DEF Keys, KeyAt
<1>3. Due' = Due
  BY <1>1 DEF Due, Says, StepsOf, SliceRows, StepSize, CeilDiv
<1> QED BY <1>1, <1>2, <1>3 DEF Whole, Says, Row, Working

\* Only a work that plans has a task that looks.
LEMMA LookingPlans ==
  ASSUME work \in Works, NEW i \in 1..TaskCount, StepsOf(KeyAt(i)) # <<>>
  PROVE  work.plans
<1> SUFFICES ASSUME ~work.plans PROVE StepsOf(KeyAt(i)) = <<>>
  OBVIOUS
<1>1. work.rows = <<>> /\ \A f \in 1..Families : work.families[f] = <<>>
  BY ChecksAssumption
<1>2. SliceCount = 0
  <2> DEFINE s == StepSize(Len(work.rows))
  <2>1. Len(work.rows) = 0 /\ s \in Nat \ {0} /\ SliceCount = CeilDiv(0, s) /\ SliceCount \in Nat
    BY <1>1, WorkTypes, Counts DEF SliceCount
  <2> HIDE DEF s
  <2>2. \A k \in 1..SliceCount : (k - 1) * s < 0
    BY <2>1, SliceEnds
  <2>3. (1 - 1) * s = 0
    BY <2>1
  <2>4. 1 \notin 1..SliceCount
    BY <2>2, <2>3
  <2> QED BY <2>1, <2>4
<1>3. KeyAt(i) \in 1..Families
  BY <1>2, Counts, KeysPermute DEF Keys
<1>4. KeyAt(i) <= Families
  BY <1>3, Counts
<1> QED BY <1>1, <1>3, <1>4 DEF StepsOf

\* Nothing is found at first.
LEMMA InitLine == ChecksInit => LineInv
  BY DEF ChecksInit, LineInv, Planned, Seeing, Taken, AtRest, Working

\* What the host reads between checks finds nothing.
LEMMA HostLine == ASSUME LineInv, HostReads PROVE LineInv'
<1>1. pass = "idle" /\ UNCHANGED <<pass, results, doing>>
  BY DEF HostReads, Unchecked
<1> QED BY <1>1 DEF LineInv, Planned, Seeing, Taken, AtRest, Working

\* A check that returns leaves nothing behind.
LEMMA ReturnLine == ASSUME Return PROVE LineInv'
<1>1. pass' = "idle" /\ results' = <<>> /\ doing' = [w \in Workers |-> "off"]
  BY DEF Return
<1> QED BY <1>1 DEF LineInv, Planned, Seeing, Taken, AtRest, Working

\* A check that begins has found nothing yet.
LEMMA BeginLine ==
  ASSUME IInv, LineInv, CheckInLine \/ CheckOnThreads PROVE LineInv'
<1>1. PICK w \in Works : Begin(w, PlanFirst(graph, w))
  BY DEF CheckInLine, CheckOnThreads
<1>2. pass = "idle" /\ pass' \in {"inline", "threads"} /\ Working'
  BY DEF CheckInLine, CheckOnThreads, Working
<1>3. results = <<>> /\ \A t \in Workers : doing[t] = "off"
  BY <1>2 DEF LineInv, AtRest
<1>4. doing'[Caller] = "free" /\ \A t \in Workers : doing'[t] \in {"off", "free"}
  BY <1>3, ChecksAssumption DEF CheckInLine, CheckOnThreads, IInv, Threads
<1>5. /\ work' = w /\ graph' = PlanFirst(graph, w) /\ results' = <<>> /\ next' = 1
      /\ \A t \in Workers : forks'[t] = graph'
      /\ expected' = InLine(graph, w)
  BY <1>1, <1>3 DEF Begin
<1>6. graph \in Builders
  BY DEF IInv, Builds, Good
<1>7. Planned'
  <2>1. expected' = [b |-> graph', found |-> [f \in 1..(Families + 1) |-> Says(Row(w, f))]]
    BY <1>5, <1>6, InLinePlanned
  <2>2. Whole' = [f \in 1..(Families + 1) |-> Says(Row(w, f))]
    BY <1>5 DEF Whole, Row, Says
  <2>3. w.plans => Effective(graph')
    BY <1>5, <1>6, PlanFirstPlans
  <2>4. work'.plans => Effective(graph)'
    BY <1>5, <2>3 DEF Effective, ImpliedCurrent
  <2> QED BY <1>5, <2>1, <2>2, <2>4 DEF Planned
<1>8. Seeing'
  BY <1>4 DEF Seeing
<1>9. Taken'
  <2>1. OneHolder'
    BY <1>4 DEF OneHolder, HeldBy
  <2>2. OneResult'
    BY <1>5 DEF OneResult
  <2>3. NoneLost'
    BY <1>5 DEF NoneLost
  <2>4. Ending'
    BY <1>4 DEF Ending
  <2> QED BY <2>1, <2>2, <2>3, <2>4 DEF Taken
<1>10. AtRest'
  BY <1>2 DEF AtRest
<1> QED BY <1>7, <1>8, <1>9, <1>10 DEF LineInv

\* A task that is taken has found nothing yet.
LEMMA ClaimLine == ASSUME IInv, LineInv, NEW t \in Workers, Claim(t) PROVE LineInv'
<1>1. /\ doing[t] = "free" /\ next \in Nat \ {0}
      /\ doing' = [doing EXCEPT ![t] = IF next <= TaskCount THEN "running" ELSE "ended"]
      /\ task' = [task EXCEPT ![t] = next] /\ seen' = [seen EXCEPT ![t] = <<>>]
      /\ next' = next + 1
      /\ UNCHANGED <<graph, pass, work, forks, results, out, expected>>
  BY DEF Claim, IInv, Threads
<1>2. Working /\ work \in Works
  BY <1>1 DEF IInv, Threads, Working
<1>3. TaskCount' = TaskCount /\ Keys' = Keys /\ Due' = Due /\ Whole' = Whole /\ Working'
  BY <1>1, <1>2, TasksStay
<1>4. /\ OneHolder /\ OneResult /\ NoneLost /\ Ending /\ Planned /\ Seeing
      /\ TaskCount \in Nat
  BY <1>2, Counts DEF LineInv, Taken
<1>5. /\ doing'[t] = IF next <= TaskCount THEN "running" ELSE "ended"
      /\ task'[t] = next /\ seen'[t] = <<>>
      /\ \A u \in Workers \ {t} : doing'[u] = doing[u] /\ task'[u] = task[u] /\ seen'[u] = seen[u]
  BY <1>1 DEF IInv, Threads
<1>6. Planned'
  BY <1>1, <1>2, <1>3, <1>4 DEF Planned, Effective, ImpliedCurrent
<1>7. Seeing'
  <2>1. ASSUME doing'[t] = "running"
        PROVE  /\ Len(seen'[t]) <= Len(Due[Keys[task'[t]]])
               /\ \A i \in 1..Len(seen'[t]) : seen'[t][i] = Due[Keys[task'[t]]][i]
    <3>1. next \in 1..TaskCount
      BY <1>1, <1>4, <1>5, <2>1
    <3>2. Keys[next] \in 1..TaskCount
      BY <1>2, <3>1, KeysPermute
    <3>3. Due[Keys[next]] \in Seq(Finding)
      BY <1>2, <3>2, DueType
    <3>4. Len(<<>>) = 0 /\ Len(Due[Keys[next]]) \in Nat
      BY <3>3
    <3> QED BY <1>5, <3>4
  <2>2. \A u \in Workers \ {t} : doing'[u] = "running" =>
          /\ Len(seen'[u]) <= Len(Due[Keys[task'[u]]])
          /\ \A i \in 1..Len(seen'[u]) : seen'[u][i] = Due[Keys[task'[u]]][i]
    BY <1>2, <1>4, <1>5 DEF Seeing
  <2> QED BY <1>3, <2>1, <2>2 DEF Seeing
<1>8. /\ \A i \in 1..TaskCount : HeldBy(i, t)' <=> i = next
      /\ \A u \in Workers \ {t}, i \in 1..TaskCount : HeldBy(i, u)' <=> HeldBy(i, u)
      /\ \A i \in 1..TaskCount : ~HeldBy(i, t)
      /\ \A u \in Workers, i \in 1..TaskCount : HeldBy(i, u) => i < next
  <2>1. \A i \in 1..TaskCount : i = next => next <= TaskCount
    BY <1>4
  <2> QED BY <1>1, <1>4, <1>5, <2>1 DEF HeldBy, OneHolder
<1>9. OneHolder'
  <2>1. ASSUME NEW u \in Workers, doing'[u] \in {"running", "panicked"}
        PROVE  task'[u] \in 1..TaskCount /\ task'[u] < next + 1
    <3>1. CASE u = t
      BY <1>1, <1>4, <1>5, <2>1, <3>1
    <3>2. CASE u # t
      BY <1>1, <1>4, <1>5, <2>1, <3>2 DEF OneHolder
    <3> QED BY <3>1, <3>2
  <2>2. ASSUME NEW u \in Workers, NEW v \in Workers, NEW i \in 1..TaskCount,
               HeldBy(i, u)', HeldBy(i, v)'
        PROVE  u = v
    <3>1. CASE i = next
      BY <1>1, <1>4, <1>8, <2>2, <3>1
    <3>2. CASE i # next
      <4>1. HeldBy(i, u) /\ HeldBy(i, v)
        BY <1>8, <2>2, <3>2
      <4> QED BY <1>4, <4>1 DEF OneHolder
    <3> QED BY <3>1, <3>2
  <2> QED BY <1>1, <1>3, <2>1, <2>2 DEF OneHolder
<1>10. OneResult'
  <2>1. ASSUME NEW j \in 1..Len(results), NEW i \in 1..TaskCount, Finished(j, i)
        PROVE  Finished(j, i)'
    <3>1. i < next /\ i < next' /\ i # next /\ \A u \in Workers : ~HeldBy(i, u)
      BY <1>1, <2>1 DEF Finished
    <3>2. \A u \in Workers : ~HeldBy(i, u)'
      BY <1>8, <3>1
    <3>3. results'[j] = [key |-> Keys'[i], found |-> Due'[Keys'[i]]]
      BY <1>1, <1>3, <2>1 DEF Finished
    <3> QED BY <3>1, <3>2, <3>3 DEF Finished
  <2>2. \A j \in 1..Len(results) : \E i \in 1..TaskCount : Finished(j, i)'
    BY <1>4, <2>1 DEF OneResult
  <2> QED BY <1>1, <1>3, <1>4, <2>2 DEF OneResult
<1>11. NoneLost'
  <2> SUFFICES ASSUME NEW i \in 1..TaskCount, i < next + 1
               PROVE  \/ \E j \in 1..Len(results) : results[j].key = Keys[i]
                      \/ \E u \in Workers : HeldBy(i, u)'
    BY <1>1, <1>3 DEF NoneLost
  <2>1. CASE i = next
    BY <1>8, <2>1
  <2>2. CASE i # next
    <3>1. i < next
      BY <1>1, <2>2
    <3>2. \/ \E j \in 1..Len(results) : results[j].key = Keys[i]
          \/ \E u \in Workers : HeldBy(i, u)
      BY <1>4, <3>1 DEF NoneLost
    <3> QED BY <1>8, <3>2
  <2> QED BY <2>1, <2>2
<1>12. Ending'
  <2>1. doing'[Caller] # "off"
    BY <1>4, <1>5, ChecksAssumption DEF Ending
  <2>2. ASSUME NEW u \in Workers, doing'[u] = "ended" PROVE next + 1 > TaskCount
    <3>1. next > TaskCount
      BY <1>1, <1>4, <1>5, <2>2 DEF Ending
    <3> QED BY <1>1, <1>4, <3>1
  <2> QED BY <1>1, <1>3, <2>1, <2>2 DEF Ending
<1>13. AtRest'
  BY <1>1, <1>2 DEF AtRest, Working
<1> QED BY <1>6, <1>7, <1>9, <1>10, <1>11, <1>12, <1>13 DEF LineInv, Taken

\* A step adds its finding to what its task has found.
LEMMA LookLine == ASSUME IInv, LineInv, NEW t \in Workers, Look(t) PROVE LineInv'
<1> DEFINE steps == StepsOf(KeyAt(task[t]))
           says == Due[Keys[task[t]]]
           k == Len(seen[t]) + 1
           s == steps[k]
           after == Looked(ModelOf(t), s)
<1>1. /\ doing[t] = "running" /\ Len(seen[t]) < Len(steps)
      /\ seen' = [seen EXCEPT ![t] = Append(@, Answer(s, after))]
      /\ graph' = IF pass = "inline" THEN after ELSE graph
      /\ forks' = IF pass = "inline" THEN forks ELSE [forks EXCEPT ![t] = after]
      /\ UNCHANGED <<pass, work, next, doing, task, results, out, expected>>
  BY DEF Look
<1>2. Working /\ work \in Works /\ task[t] \in 1..TaskCount /\ seen[t] \in Seq(Finding)
  BY <1>1 DEF IInv, Threads, Working
<1>3. TaskCount' = TaskCount /\ Keys' = Keys /\ Due' = Due /\ Whole' = Whole /\ Working'
  BY <1>1, <1>2, TasksStay
<1>4. /\ OneHolder /\ OneResult /\ NoneLost /\ Ending /\ Planned /\ Seeing
  BY <1>2 DEF LineInv, Taken
<1>5. steps \in Seq(Steps) /\ says = Says(steps) /\ Len(seen[t]) \in Nat
  <2>1. Keys[task[t]] \in 1..TaskCount /\ Keys[task[t]] = KeyAt(task[t])
    BY <1>2, KeysPermute DEF Keys
  <2> QED BY <1>2, <2>1, TasksAreLooks DEF Due
<1>6. k \in 1..Len(steps) /\ steps # <<>>
  <2> HIDE DEF steps
  <2> QED BY <1>1, <1>5
<1>7. s \in Steps
  <2> HIDE DEF steps, k
  <2> QED BY <1>5, <1>6, ElementOfSeq
<1>8. Effective(graph) /\ ModelOf(t) = graph
  BY <1>2, <1>4, <1>6, LookingPlans DEF Planned, ModelOf
<1>9. after = graph /\ Answer(s, after) = says[k]
  <2>1. Looked(graph, s) = graph /\ Answer(s, graph) = [of |-> s.of, planned |-> TRUE]
    <3> HIDE DEF s
    <3> QED BY <1>7, <1>8, LookedPlanned
  <2>2. says[k] = [of |-> s.of, planned |-> TRUE]
    <3> HIDE DEF steps, k, says
    <3> QED BY <1>5, <1>6, SaysType
  <2> QED BY <1>8, <2>1, <2>2
<1> HIDE DEF after, s, steps
<1>10. graph' = graph /\ \A u \in Workers : forks'[u] = graph'
  BY <1>1, <1>2, <1>4, <1>9 DEF Planned
<1>11. Planned'
  BY <1>1, <1>2, <1>3, <1>4, <1>10 DEF Planned, Effective, ImpliedCurrent
<1>12. Seeing'
  <2>1. /\ seen'[t] = Append(seen[t], says[k])
        /\ \A u \in Workers \ {t} : seen'[u] = seen[u]
    BY <1>1, <1>9 DEF IInv, Threads
  <2>2. says \in Seq(Finding) /\ Len(says) = Len(steps) /\ says[k] \in Finding
    BY <1>5, <1>6, SaysType, ElementOfSeq
  <2>3. Len(seen[t]) <= Len(says) /\ \A i \in 1..Len(seen[t]) : seen[t][i] = says[i]
    BY <1>1, <1>2, <1>4 DEF Seeing
  <2>4. Len(seen'[t]) <= Len(says) /\ \A i \in 1..Len(seen'[t]) : seen'[t][i] = says[i]
    <3> HIDE DEF says
    <3>1. /\ Len(seen'[t]) = k /\ seen'[t][k] = says[k]
          /\ \A i \in 1..Len(seen[t]) : seen'[t][i] = seen[t][i]
      BY <1>2, <2>1, <2>2, AppendProperties
    <3>2. \A i \in 1..k : i = k \/ i \in 1..Len(seen[t])
      BY <1>5
    <3> QED BY <1>6, <2>2, <2>3, <3>1, <3>2
  <2> QED BY <1>1, <1>2, <1>3, <1>4, <2>1, <2>4 DEF Seeing
<1>13. Taken'
  BY <1>1, <1>3, <1>4, SMTT(30)
     DEF Taken, OneHolder, OneResult, NoneLost, Ending, HeldBy, Finished
<1>14. AtRest'
  BY <1>1, <1>2 DEF AtRest, Working
<1> QED BY <1>11, <1>12, <1>13, <1>14 DEF LineInv

\* A task that panics finds nothing that is kept.
LEMMA PanicLine == ASSUME IInv, LineInv, NEW t \in Workers, TaskPanics(t) PROVE LineInv'
<1>1. /\ doing[t] = "running" /\ doing' = [doing EXCEPT ![t] = "panicked"]
      /\ UNCHANGED <<graph, pass, work, next, task, seen, forks, results, out, expected>>
  BY DEF TaskPanics
<1>2. Working /\ work \in Works
  BY <1>1 DEF IInv, Threads, Working
<1>3. TaskCount' = TaskCount /\ Keys' = Keys /\ Due' = Due /\ Whole' = Whole /\ Working'
  BY <1>1, <1>2, TasksStay
<1>4. /\ OneHolder /\ OneResult /\ NoneLost /\ Ending /\ Planned /\ Seeing
  BY <1>2 DEF LineInv, Taken
<1>5. doing'[t] = "panicked" /\ \A u \in Workers \ {t} : doing'[u] = doing[u]
  BY <1>1 DEF IInv, Threads
<1>6. \A u \in Workers : /\ doing'[u] \in {"running", "panicked"}
                             <=> doing[u] \in {"running", "panicked"}
                         /\ doing'[u] = "running" => doing[u] = "running"
                         /\ doing'[u] = "ended" => doing[u] = "ended"
                         /\ doing'[u] = "off" => doing[u] = "off"
  BY <1>1, <1>5
<1>7. Planned' /\ Seeing'
  BY <1>1, <1>2, <1>3, <1>4, <1>6 DEF Planned, Seeing, Effective, ImpliedCurrent
<1>8. \A u \in Workers, i \in 1..TaskCount : HeldBy(i, u)' <=> HeldBy(i, u)
  BY <1>1, <1>6 DEF HeldBy
<1>9. OneHolder' /\ NoneLost'
  BY <1>1, <1>3, <1>4, <1>6, <1>8 DEF OneHolder, NoneLost
<1>10. OneResult'
  <2>1. \A j \in 1..Len(results), i \in 1..TaskCount : Finished(j, i) => Finished(j, i)'
    BY <1>1, <1>3, <1>8 DEF Finished
  <2> QED BY <1>1, <1>3, <1>4, <2>1 DEF OneResult
<1>11. Ending'
  BY <1>1, <1>3, <1>4, <1>6, ChecksAssumption DEF Ending
<1>12. AtRest'
  BY <1>1, <1>2 DEF AtRest, Working
<1> QED BY <1>7, <1>9, <1>10, <1>11, <1>12 DEF LineInv, Taken

\* A task that ends has found what is due of it.
LEMMA EndLine == ASSUME IInv, LineInv, NEW t \in Workers, EndTask(t) PROVE LineInv'
<1>1. /\ doing[t] = "running" /\ doing' = [doing EXCEPT ![t] = "free"]
      /\ Len(seen[t]) = Len(StepsOf(KeyAt(task[t])))
      /\ results' = Append(results, [key |-> KeyAt(task[t]), found |-> seen[t]])
      /\ UNCHANGED <<graph, pass, work, next, task, seen, forks, out, expected>>
  BY DEF EndTask
<1>2. Working /\ work \in Works /\ task[t] \in 1..TaskCount /\ seen[t] \in Seq(Finding)
  BY <1>1 DEF IInv, Threads, Working
<1>3. TaskCount' = TaskCount /\ Keys' = Keys /\ Due' = Due /\ Whole' = Whole /\ Working'
  BY <1>1, <1>2, TasksStay
<1>4. /\ OneHolder /\ OneResult /\ NoneLost /\ Ending /\ Planned /\ Seeing
  BY <1>2 DEF LineInv, Taken
<1>a. PICK i0 \in 1..TaskCount : i0 = task[t]
  BY <1>2
<1>b. PICK n \in Nat : n = Len(results)
  BY <1>4 DEF OneResult
<1> DEFINE new == [key |-> Keys[i0], found |-> Due[Keys[i0]]]
<1>5. Keys[i0] = KeyAt(i0) /\ seen[t] = Due[Keys[i0]]
  <2>1. Keys[i0] \in 1..TaskCount /\ Keys[i0] = KeyAt(i0)
    BY <1>2, KeysPermute DEF Keys
  <2>2. Due[Keys[i0]] = Says(StepsOf(KeyAt(i0))) /\ StepsOf(KeyAt(i0)) \in Seq(Steps)
    BY <1>2, <2>1, TasksAreLooks DEF Due
  <2>3. Due[Keys[i0]] \in Seq(Finding) /\ Len(Due[Keys[i0]]) = Len(seen[t])
    BY <1>1, <1>a, <2>2, SaysType
  <2>4. \A i \in 1..Len(seen[t]) : seen[t][i] = Due[Keys[i0]][i]
    BY <1>1, <1>2, <1>4, <1>a DEF Seeing
  <2>5. seen[t] = Due[Keys[i0]]
    BY <1>2, <2>3, <2>4, SeqEqual
  <2> QED BY <2>1, <2>5
<1>6. doing'[t] = "free" /\ \A u \in Workers \ {t} : doing'[u] = doing[u]
  BY <1>1 DEF IInv, Threads
<1>7. results' = Append(results, new) /\ n \in Nat
  BY <1>1, <1>a, <1>5
<1> HIDE DEF new
<1>8. Len(results') = n + 1 /\ results'[n + 1] = new /\ \A j \in 1..n : results'[j] = results[j]
  BY <1>b, <1>7
<1>9. new.key = Keys[i0]
  BY DEF new
<1>10. /\ \A i \in 1..TaskCount : ~HeldBy(i, t)'
       /\ \A u \in Workers \ {t}, i \in 1..TaskCount : HeldBy(i, u)' <=> HeldBy(i, u)
       /\ HeldBy(i0, t) /\ i0 < next /\ \A i \in 1..TaskCount : HeldBy(i, t) => i = i0
  BY <1>1, <1>4, <1>6, <1>a DEF HeldBy, OneHolder
<1>11. \A j \in 1..n : results[j].key # Keys[i0]
  <2> SUFFICES ASSUME NEW j \in 1..n PROVE results[j].key # Keys[i0]
    OBVIOUS
  <2>1. PICK i \in 1..TaskCount : Finished(j, i)
    BY <1>4, <1>b DEF OneResult
  <2>2. results[j].key = Keys[i] /\ ~HeldBy(i, t)
    BY <2>1 DEF Finished
  <2>3. i # i0
    BY <1>10, <2>2
  <2> QED BY <1>2, <2>2, <2>3, KeysPermute
<1>12. Planned' /\ Seeing'
  <2>1. \A u \in Workers : doing'[u] = "running" => u # t /\ doing[u] = "running"
    BY <1>6
  <2> QED BY <1>1, <1>2, <1>3, <1>4, <2>1 DEF Planned, Seeing, Effective, ImpliedCurrent
<1>13. OneHolder'
  <2>1. \A u \in Workers : doing'[u] \in {"running", "panicked"} => u # t /\ doing'[u] = doing[u]
    BY <1>6
  <2>2. \A u, v \in Workers : \A i \in 1..TaskCount : HeldBy(i, u)' /\ HeldBy(i, v)' => u = v
    BY <1>4, <1>10 DEF OneHolder
  <2> QED BY <1>1, <1>3, <1>4, <2>1, <2>2 DEF OneHolder
<1>14. OneResult'
  <2>1. ASSUME NEW j \in 1..n, NEW i \in 1..TaskCount, Finished(j, i)
        PROVE  Finished(j, i)'
    <3>1. i < next /\ \A u \in Workers : ~HeldBy(i, u)
      BY <2>1 DEF Finished
    <3>2. \A u \in Workers : ~HeldBy(i, u)'
      BY <1>10, <3>1
    <3>3. results'[j] = [key |-> Keys'[i], found |-> Due'[Keys'[i]]]
      BY <1>3, <1>8, <2>1 DEF Finished
    <3> QED BY <1>1, <3>1, <3>2, <3>3 DEF Finished
  <2>2. \A j \in 1..n : \E i \in 1..TaskCount : Finished(j, i)'
    BY <1>4, <1>b, <2>1 DEF OneResult
  <2>3. Finished(n + 1, i0)'
    <3>1. \A u \in Workers : ~HeldBy(i0, u)'
      <4> SUFFICES ASSUME NEW u \in Workers, HeldBy(i0, u)' PROVE FALSE
        OBVIOUS
      <4>1. u # t /\ HeldBy(i0, u)
        BY <1>2, <1>10
      <4> QED BY <1>2, <1>4, <1>10, <4>1 DEF OneHolder
    <3>2. results'[n + 1] = [key |-> Keys'[i0], found |-> Due'[Keys'[i0]]]
      BY <1>3, <1>8 DEF new
    <3> QED BY <1>1, <1>10, <3>1, <3>2 DEF Finished
  <2>4. \A j \in 1..(n + 1) : j \in 1..n \/ j = n + 1
    BY <1>7
  <2>5. \A j \in 1..Len(results') : \E i \in 1..TaskCount' : Finished(j, i)'
    BY <1>2, <1>3, <1>8, <2>2, <2>3, <2>4
  <2>6. ASSUME NEW j \in 1..(n + 1), NEW m \in 1..(n + 1), results'[j].key = results'[m].key
        PROVE  j = m
    <3>1. CASE j \in 1..n /\ m \in 1..n
      BY <1>4, <1>8, <1>b, <2>6, <3>1 DEF OneResult
    <3>2. CASE j \in 1..n /\ m = n + 1
      BY <1>8, <1>9, <1>11, <2>6, <3>2
    <3>3. CASE j = n + 1 /\ m \in 1..n
      BY <1>8, <1>9, <1>11, <2>6, <3>3
    <3> QED BY <2>4, <3>1, <3>2, <3>3
  <2>7. Len(results') \in Nat
    BY <1>7, <1>8
  <2> QED BY <1>8, <2>5, <2>6, <2>7 DEF OneResult
<1>15. NoneLost'
  <2> SUFFICES ASSUME NEW i \in 1..TaskCount, i < next
               PROVE  \/ \E j \in 1..(n + 1) : results'[j].key = Keys[i]
                      \/ \E u \in Workers : HeldBy(i, u)'
    BY <1>1, <1>3, <1>8 DEF NoneLost
  <2>1. \/ \E j \in 1..n : results[j].key = Keys[i]
        \/ \E u \in Workers : HeldBy(i, u)
    BY <1>4, <1>b DEF NoneLost
  <2>2. CASE \E j \in 1..n : results[j].key = Keys[i]
    <3>1. PICK j \in 1..n : results[j].key = Keys[i]
      BY <2>2
    <3>2. j \in 1..(n + 1) /\ results'[j].key = Keys[i]
      BY <1>7, <1>8, <3>1
    <3> QED BY <3>2
  <2>3. CASE \E u \in Workers : HeldBy(i, u)
    <3>1. PICK u \in Workers : HeldBy(i, u)
      BY <2>3
    <3>2. CASE u = t
      <4>1. i = i0 /\ n + 1 \in 1..(n + 1)
        BY <1>7, <1>10, <3>1, <3>2
      <4> QED BY <1>8, <1>9, <4>1
    <3>3. CASE u # t
      BY <1>10, <3>1, <3>3
    <3> QED BY <3>2, <3>3
  <2> QED BY <2>1, <2>2, <2>3
<1>16. Ending'
  BY <1>1, <1>3, <1>4, <1>6, ChecksAssumption DEF Ending
<1>17. AtRest'
  BY <1>1, <1>2 DEF AtRest, Working
<1> QED BY <1>12, <1>13, <1>14, <1>15, <1>16, <1>17 DEF LineInv, Taken

\* In a check that goes on each result is the one that is due.
LEMMA ResultsAreDue ==
  ASSUME IInv, LineInv, Working, NEW j \in 1..Len(results), results[j].key <= Families
  PROVE  results[j].found = expected.found[results[j].key]
<1>1. work \in Works /\ OneResult /\ expected.found = Whole
  BY DEF IInv, Threads, Working, LineInv, Taken, Planned
<1>2. PICK i \in 1..TaskCount : Finished(j, i)
  BY <1>1 DEF OneResult
<1>3. results[j].key = Keys[i] /\ results[j].found = Due[Keys[i]]
  BY <1>2 DEF Finished
<1>4. Keys[i] \in 1..Families
  BY <1>1, <1>3, Counts, KeysPermute, SMTT(30)
<1> QED BY <1>1, <1>3, <1>4, DueType

\* What is gathered is what is due of every task, in the order of the tasks.
LEMMA GatherLine == ASSUME IInv, LineInv, Gather PROVE LineInv'
<1>1. /\ pass \in {"inline", "threads"} /\ pass' = "done"
      /\ \A t \in Workers : doing[t] \in {"off", "ended", "panicked"}
      /\ out' = IF \E t \in Workers : doing[t] = "panicked" THEN Panic ELSE Gathered
      /\ UNCHANGED <<graph, work, next, doing, task, seen, forks, results, expected>>
  BY DEF Gather
<1>2. Working /\ work \in Works
  BY <1>1 DEF IInv, Threads, Working
<1>3. OneHolder /\ OneResult /\ NoneLost /\ Ending
      /\ expected = [b |-> graph, found |-> Whole]
  BY <1>2 DEF LineInv, Taken, Planned
<1>4. ASSUME out' # Panic PROVE out' = Joined(Whole)
  <2>1. \A t \in Workers : doing[t] \in {"off", "ended"}
    BY <1>1, <1>4
  <2>2. next > TaskCount
    BY <1>3, <2>1, ChecksAssumption DEF Ending
  <2>3. \A key \in 1..TaskCount : \E j \in 1..Len(results) : results[j].key = key
    <3> SUFFICES ASSUME NEW key \in 1..TaskCount
                 PROVE  \E j \in 1..Len(results) : results[j].key = key
      OBVIOUS
    <3>1. PICK i \in 1..TaskCount : Keys[i] = key
      BY <1>2, KeysPermute
    <3>2. i < next
      BY <1>2, <2>2, Counts DEF IInv, Threads
    <3>3. ~ \E t \in Workers : HeldBy(i, t)
      BY <2>1 DEF HeldBy
    <3> QED BY <1>3, <3>1, <3>2, <3>3 DEF NoneLost
  <2>4. out' = Gathered
    BY <1>1, <1>4
  <2> QED BY <1>2, <1>3, <2>3, <2>4, GatheredIsWhole
<1>5. \A j \in 1..Len(results) :
         results[j].key <= Families => results[j].found = expected.found[results[j].key]
  BY <1>2, ResultsAreDue
<1>6. FindingsInLine'
  BY <1>1, <1>3, <1>4, <1>5 DEF FindingsInLine
<1>7. ~Working'
  BY <1>1 DEF Working
<1> QED BY <1>1, <1>6, <1>7 DEF LineInv, Planned, Seeing, Taken, AtRest

\* Every step keeps what is found in line.
LEMMA LineKeeps == IInv /\ LineInv /\ [ChecksNext]_checkVars => LineInv'
<1> SUFFICES ASSUME IInv, LineInv, [ChecksNext]_checkVars PROVE LineInv'
  OBVIOUS
<1>1. CASE UNCHANGED checkVars
  <2>1. /\ TaskCount' = TaskCount /\ Keys' = Keys /\ Due' = Due /\ Whole' = Whole
        /\ Working' = Working
    BY <1>1, TasksStay DEF checkVars
  <2>2. Planned' /\ Seeing' /\ AtRest'
    BY <1>1, <2>1
       DEF checkVars, LineInv, Planned, Seeing, AtRest, FindingsInLine, Effective, ImpliedCurrent
  <2>3. Taken'
    BY <1>1, <2>1
       DEF checkVars, LineInv, Taken, OneHolder, OneResult, NoneLost, Ending, HeldBy, Finished
  <2> QED BY <2>2, <2>3 DEF LineInv
<1>2. CASE ChecksNext
  BY <1>2, HostLine, BeginLine, ClaimLine, LookLine, EndLine, PanicLine, GatherLine, ReturnLine
     DEF ChecksNext
<1> QED BY <1>1, <1>2

(***************************************************************************)
(* Whoever runs a task, in whatever order, and whatever was evaluated       *)
(* before, each family finds what it finds in line, the findings come in    *)
(* that order, and the model is left as that pass leaves it                 *)
(* (families_on_threads).                                                   *)
(***************************************************************************)
THEOREM FindingsAreInLine == ChecksSpec => []FindingsInLine
<1>1. ChecksInit => LineInv
  BY InitLine
<1>2. IInv /\ LineInv /\ [ChecksNext]_checkVars => LineInv'
  BY LineKeeps
<1>3. IInv /\ LineInv => FindingsInLine
  <2> SUFFICES ASSUME IInv, LineInv PROVE FindingsInLine
    OBVIOUS
  <2>1. CASE pass = "idle"
    <3>1. Len(results) = 0
      BY <2>1 DEF LineInv, AtRest
    <3> QED BY <2>1, <3>1 DEF FindingsInLine
  <2>2. CASE pass = "done"
    BY <2>2 DEF LineInv, AtRest
  <2>3. CASE Working
    BY <2>3, ResultsAreDue DEF FindingsInLine, Working
  <2> QED BY <2>1, <2>2, <2>3 DEF IInv, Threads, Working
<1> QED BY <1>1, <1>2, <1>3, Invariance, PTL DEF ChecksSpec
=============================================================================
