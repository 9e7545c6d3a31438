---------------------------- MODULE SessionHandles ----------------------------
(***************************************************************************)
(* Handles of the language bindings: Session, Element and EditBatch of      *)
(* crates/sysmlv2-py/src/lib.rs, Session and Element of                     *)
(* crates/sysmlv2-wasm/src/lib.rs.                                          *)
(*                                                                          *)
(* A handle is an index into the model a session holds and the session's    *)
(* generation when it was minted.  Nothing else tells which model it is an  *)
(* index into: `build` counts the models the session has held, and only the *)
(* properties read it.  A handle or batch is used with the session it came  *)
(* from.                                                                    *)
(***************************************************************************)
EXTENDS Naturals

CONSTANTS
  Batches,  \* the edit batches a Python caller may make
  NoBatch,  \* a batch that is not made yet
  Consumed, \* the generation of a batch that was given to commit: u64::MAX
  MaxGen    \* bound on the generations of a run

ASSUME ConsumedIsNone == Consumed \notin Nat
ASSUME NoBatchIsNone == NoBatch \notin [gen : Nat \cup {Consumed}, build : Nat,
                                        ops : SUBSET [gen : Nat, build : Nat], tries : Nat]

VARIABLES
  binding, \* "py" or "wasm": fixed
  gen,     \* Session::gen
  build,   \* which model the session holds
  handles, \* the handles minted so far
  batches  \* the edit batches: generation, staged handles, and how often
           \* commit took the operations

vars == <<binding, gen, build, handles, batches>>

Init == /\ binding \in {"py", "wasm"}
        /\ gen = 0
        /\ build = 0
        /\ handles = {}
        /\ batches = [b \in Batches |-> NoBatch]

\* Session::guard: what makes a method take a handle.
Guard(h) == h.gen = gen

\* resolve, roots, owner, elementById, ...: a handle to an element.
Mint == /\ handles' = handles \cup {[gen |-> gen, build |-> build]}
        /\ UNCHANGED <<binding, gen, build, batches>>

\* The session replaces its model and starts a generation.
Rebuilt == /\ gen < MaxGen
           /\ gen' = gen + 1
           /\ build' = build + 1

Untouched == UNCHANGED <<gen, build>>

\* load_library, loadLibrarySources, loadPreparedLibrary.
LoadLibrary(loads) ==
  /\ IF loads THEN Rebuilt ELSE Untouched
  /\ UNCHANGED <<binding, handles, batches>>

\* The generation starts although the session still holds the same model.
Renumbered == /\ gen < MaxGen
              /\ gen' = gen + 1
              /\ UNCHANGED build

\* A wrong one: respelling changes no id, so the generation stays.
MinimizeInPlace(outcome) ==
  /\ IF outcome = "respelled"
     THEN build < MaxGen /\ build' = build + 1 /\ UNCHANGED gen
     ELSE Untouched
  /\ UNCHANGED <<binding, handles, batches>>

\* minimize_qualifications: with nothing to respell the session keeps its
\* model; Python then keeps the generation, WASM does not.
MinimizeQualifications(outcome) ==
  /\ CASE outcome = "respelled" -> Rebuilt
       [] outcome = "nothing"   -> IF binding = "py" THEN Untouched ELSE Renumbered
       [] outcome = "refused"   -> Untouched
  /\ UNCHANGED <<binding, handles, batches>>

(***************************************************************************)
(* Python: a batch is recorded first and committed later.                   *)
(***************************************************************************)
\* Session::edit.
NewBatch(b) ==
  /\ binding = "py"
  /\ batches[b] = NoBatch
  /\ batches' = [batches EXCEPT ![b] =
                   [gen |-> gen, build |-> build, ops |-> {}, tries |-> 0]]
  /\ UNCHANGED <<binding, gen, build, handles>>

\* A wrong one: any handle of the session is taken.
StageAny(b, h) ==
  /\ batches[b] # NoBatch
  /\ batches' = [batches EXCEPT ![b].ops = @ \cup {h}]
  /\ UNCHANGED <<binding, gen, build, handles>>

\* rename, remove, retarget, ...: EditBatch::guard compares the handle with
\* the batch, which may be behind the session.  insert_top_level, which takes
\* no handle, is not compared with anything and is left out.
Stage(b, h) ==
  /\ batches[b] # NoBatch
  /\ h.gen = batches[b].gen
  /\ batches' = [batches EXCEPT ![b].ops = @ \cup {h}]
  /\ UNCHANGED <<binding, gen, build, handles>>

\* A wrong one: the operations are taken, the batch stays as good as new.
SpendOps(b) ==
  batches' = [batches EXCEPT ![b] =
                [gen |-> @.gen, build |-> @.build, ops |-> {}, tries |-> @.tries + 1]]

\* commit takes the operations and spends the batch before anything can
\* refuse it.
Spend(b) ==
  batches' = [batches EXCEPT ![b] =
                [gen |-> Consumed, build |-> @.build, ops |-> {}, tries |-> @.tries + 1]]

\* A wrong one: the generation starts before the outcome is known.
CommitRenumbering(b, commits) ==
  /\ batches[b] # NoBatch
  /\ Guard(batches[b])
  /\ Spend(b)
  /\ IF commits THEN Rebuilt ELSE Renumbered
  /\ UNCHANGED <<binding, handles>>

\* Session::commit.
Commit(b, commits) ==
  /\ batches[b] # NoBatch
  /\ Guard(batches[b])
  /\ Spend(b)
  /\ IF commits THEN Rebuilt ELSE Untouched
  /\ UNCHANGED <<binding, handles>>

(***************************************************************************)
(* WASM: edit stages and commits in one call, and names its targets.  A     *)
(* batch of colliding renames alone is dropped and reported as a success.   *)
(***************************************************************************)
EditNow(outcome) ==
  /\ binding = "wasm"
  /\ CASE outcome = "committed" -> Rebuilt
       [] outcome = "dropped"   -> Renumbered
       [] outcome = "refused"   -> Untouched
  /\ UNCHANGED <<binding, handles, batches>>

Next ==
  \/ Mint
  \/ \E loads \in BOOLEAN : LoadLibrary(loads)
  \/ \E outcome \in {"respelled", "nothing", "refused"} : MinimizeQualifications(outcome)
  \/ \E b \in Batches : NewBatch(b)
  \/ \E b \in Batches, h \in handles : Stage(b, h)
  \/ \E b \in Batches, commits \in BOOLEAN : Commit(b, commits)
  \/ \E outcome \in {"committed", "dropped", "refused"} : EditNow(outcome)

Spec == Init /\ [][Next]_vars

(***************************************************************************)
(* Properties.                                                              *)
(***************************************************************************)
Handle == [gen : Nat, build : Nat]
Batch  == [gen : Nat \cup {Consumed}, build : Nat, ops : SUBSET Handle, tries : Nat]

\* A generation starts with every model.
TypeOK == /\ binding \in {"py", "wasm"}
          /\ gen \in Nat
          /\ build \in 0 .. gen
          /\ handles \in SUBSET Handle
          /\ batches \in [Batches -> Batch \cup {NoBatch}]

\* A handle that a session takes was minted against the model the session
\* holds: it never denotes an element of another one.
NeverAnotherElement == \A h \in handles : Guard(h) => h.build = build

\* What a batch that can still commit has staged, it has staged against the
\* model the commit plans on, however many batches and commits there were.
StagedForThisModel ==
  \A b \in Batches :
    batches[b] # NoBatch /\ Guard(batches[b]) =>
      /\ batches[b].build = build
      /\ \A h \in batches[b].ops : h.build = build

\* A batch is given to the edit engine once.  A second commit would find it
\* empty and report that it succeeded.
TakenOnce == \A b \in Batches : batches[b] # NoBatch => batches[b].tries <= 1

\* In Python a call that leaves the model as it was, whether it was refused or
\* had nothing to do, leaves every handle as good as it was.
KeptWhileUnchanged ==
  [][binding = "py" /\ build' = build => \A h \in handles : Guard(h) => Guard(h)']_vars
=============================================================================
