------------------------- MODULE PositionalPlanning -------------------------
(***************************************************************************)
(* The plan of positional redefinitions that a resolved model keeps         *)
(* (sysmlv2-model/src/json/positional.rs, json/implied.rs), and what an     *)
(* attempt to make it within a budget leaves behind.                        *)
(*                                                                          *)
(* The plan is made on first use: at any cost where members are enumerated, *)
(* within the evaluator's steps where a multiplicity is asked for.  An      *)
(* attempt makes three artefacts on its way and each stays when the budget  *)
(* runs out.  An attempt that made none is remembered with its budget, so   *)
(* that the next one need not fail again.                                   *)
(*                                                                          *)
(* A builder is a record.  An artefact stands as the revision of the rows   *)
(* it was made for.  The plan stands as the authored rows it was made of,   *)
(* which the code does not keep and PlanIsOf reads.  Planning is one step:  *)
(* it runs on one thread, and a nested question during it is declined.      *)
(* `helped' (history) says that an artefact was made which the memory of    *)
(* the failed attempt does not see.                                         *)
(***************************************************************************)
EXTENDS Integers

CONSTANTS
  Nothing,
  MaxRevision, \* how often the rows change
  Price        \* what an attempt has paid once it has made the i-th artefact,
               \* the plan being the last, by what it found made

\* In the order in which an attempt makes them: whether the library's plans are
\* extended, the identity index, the implied specializations.
Artefacts == {"decided", "index", "implied"}
Order == <<"decided", "index", "implied">>

ASSUME PriceAssumption == Price \in [SUBSET Artefacts -> [1..4 -> Nat]]
ASSUME NothingAssumption == Nothing \notin Nat /\ MaxRevision \in Nat

Revisions == 0..MaxRevision
Memory == [revision : Revisions, implied : Revisions \cup {Nothing}, left : Nat]

Builders ==
  [revision : Revisions, authored : Revisions,
   made : [Artefacts -> Revisions \cup {Nothing}], plan : Revisions \cup {Nothing},
   exhausted : Memory \cup {Nothing}, helped : BOOLEAN]

NewBuilder ==
  [revision |-> 0, authored |-> 0, made |-> [a \in Artefacts |-> Nothing],
   plan |-> Nothing, exhausted |-> Nothing, helped |-> FALSE]

Ready(b) == {a \in Artefacts : b.made[a] = b.revision}
ImpliedCurrent(b) == b.made["implied"] = b.revision
Effective(b) == b.plan # Nothing /\ ImpliedCurrent(b)

\* refresh_supported_chain_evidence: an implied plan of other rows goes, and
\* a positional plan never outlives it.
Refresh(b) ==
  IF ImpliedCurrent(b) THEN b
  ELSE [b EXCEPT !.made["implied"] = Nothing, !.plan = Nothing]

Published(b) ==
  [b EXCEPT !.made = [a \in Artefacts |-> b.revision], !.plan = b.authored,
            !.exhausted = Nothing, !.helped = FALSE]

\* ensure_positional_redefinitions
Ensure(b) == IF Effective(b) THEN b ELSE Published(Refresh(b))

RefusedAsExhausted(b, left) ==
  /\ b.plan = Nothing
  /\ b.exhausted # Nothing
  /\ left <= b.exhausted.left
  /\ b.exhausted.revision = b.revision
  /\ b.exhausted.implied = b.made["implied"]

Paid(b, i) == Price[Ready(b)][i]
Affords(b, left) == \A i \in 1..4 : Paid(b, i) <= left

\* What an attempt makes before its budget runs out.
Reached(b, left) ==
  {Order[i] : i \in {i \in 1..3 : \A j \in 1..i : Paid(b, j) <= left}}

\* Defect: what the attempt made on its way is not looked at.
RememberAlways(b, tried, left) ==
  [tried EXCEPT !.exhausted = [revision |-> b.revision, left |-> left,
                               implied |-> b.made["implied"]],
                !.helped = FALSE]

\* An attempt that made nothing is remembered.  Of an implied plan its identity
\* is compared, of the others only whether they are there: a stale one made anew
\* counts for nothing.
RememberFailure(b, tried, left) ==
  IF /\ b.plan = Nothing
     /\ tried.made["implied"] = b.made["implied"]
     /\ \A a \in Artefacts : (tried.made[a] = Nothing) <=> (b.made[a] = Nothing)
  THEN [tried EXCEPT !.exhausted = [revision |-> b.revision, left |-> left,
                                    implied |-> b.made["implied"]],
                     !.helped = Ready(tried) # Ready(b)]
  ELSE [tried EXCEPT !.exhausted = Nothing, !.helped = FALSE]

\* ensure_positional_redefinitions_with_budget
Attempt(b, left) ==
  LET r == Refresh(b)
      tried == [r EXCEPT !.made = [a \in Artefacts |->
                  IF a \in Reached(r, left) THEN b.revision ELSE r.made[a]]]
  IN IF RefusedAsExhausted(b, left) THEN b
     ELSE IF Affords(r, left) THEN Published(r)
     ELSE RememberFailure(b, tried, left)

\* cardinality_positional_targets, with so much of the budget left
Ask(b, left) == IF Effective(b) THEN b ELSE Attempt(b, left)

\* Defect: the implied plan is made again over a plan of other rows.
MadeUnrefreshed(b, a) ==
  IF a \in Ready(b) THEN b
  ELSE [b EXCEPT !.made[a] = b.revision, !.helped = b.exhausted # Nothing]

\* An artefact made by another reader, at its own cost.
MadeElsewhere(b, a) ==
  LET r == IF a = "implied" THEN Refresh(b) ELSE b IN
  IF a \in Ready(r) THEN r
  ELSE [r EXCEPT !.made[a] = b.revision, !.helped = r.exhausted # Nothing]

\* The authored rows change, by an identity or a binding: of what is kept some
\* is dropped on the spot and some when it is next looked at.  The index covers
\* whatever rows it was made for, as long as none is added.
Changed(b, kept, planKept) ==
  [b EXCEPT !.revision = @ + 1, !.authored = @ + 1,
            !.made = [a \in Artefacts |->
              IF a \notin kept THEN Nothing
              ELSE IF a = "index" /\ b.made[a] = b.revision THEN b.revision + 1
              ELSE b.made[a]],
            !.plan = IF planKept THEN @ ELSE Nothing]

\* Materialized rows are appended; the planners never read them, so an implied
\* plan that was current stays so.
Appended(b) ==
  [b EXCEPT !.revision = @ + 1,
            !.made["implied"] = IF ImpliedCurrent(b) THEN b.revision + 1 ELSE @]

\* materialize_semantic_graph starts from a plan of its own.
Materialized(b) == Appended(Ensure([b EXCEPT !.plan = Nothing]))

-----------------------------------------------------------------------------
(***************************************************************************)
(* "A positional cache cannot outlive its required-base authority": a plan  *)
(* that is read was made of the authored rows as they are, although it is   *)
(* dropped late and the authority may be made again by others in between.   *)
(***************************************************************************)
PlanIsOf(b) == Effective(b) => b.plan = b.authored

(***************************************************************************)
(* "an attempt over the same inputs with no more budget fails the same      *)
(* way": what is refused would have failed, unless an artefact was made     *)
(* since that the memory does not see.                                      *)
(***************************************************************************)
RefusalRight(b) ==
  b.plan = Nothing /\ b.exhausted # Nothing /\ ~b.helped =>
    \A left \in 0..b.exhausted.left :
      RefusedAsExhausted(b, left) => ~Affords(b, left)
=============================================================================
