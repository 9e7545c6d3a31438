------------------------------ MODULE ModelEdits ------------------------------
(***************************************************************************)
(* What a batch of edits promises its host, in terms of elements and not of *)
(* text: the operations documented on EditBuilder of                        *)
(* crates/sysmlv2-transform/src/lib.rs take effect together, on exactly the *)
(* elements they name, and every reference the batch does not rewrite goes  *)
(* on denoting the element it denoted; or nothing happens at all.           *)
(***************************************************************************)
EXTENDS Naturals, Sequences, FiniteSets

CONSTANTS
  Root,      \* the namespace above every element
  Nothing    \* what an unresolved reference denotes

VARIABLES
  elements,  \* [element -> its name and its owner], of the elements there are
  homes,     \* [reference -> the element it is written in]
  denotes,   \* [reference -> the element it resolves to, or Nothing]
  batch      \* the operations staged so far

vars == <<elements, homes, denotes, batch>>

Staged(kind) == {batch[i] : i \in {j \in DOMAIN batch : batch[j].op = kind}}

\* e and what it owns, directly or not.
Above ==
  LET above[e \in DOMAIN elements \cup {Root}] ==
        IF e = Root THEN {Root} ELSE {e} \cup above[elements[e].owner]
  IN  above

Subtree(e) == {c \in DOMAIN elements : e \in Above[c]}

\* A removed element goes with all it owns, a replaced one loses what it owned.
Gone ==
  UNION {Subtree(o.of) : o \in Staged("remove")}
    \cup UNION {Subtree(o.of) \ {o.of} : o \in Staged("replace")}

Inserted == {o.id : o \in Staged("insert")}

NameAfter(e) ==
  LET new == {o.name : o \in {o \in Staged("rename") \cup Staged("replace") : o.of = e}
                              \cup {o \in Staged("insert") : o.id = e}}
  IN  IF new = {} THEN elements[e].name ELSE CHOOSE n \in new : TRUE

OwnerAfter(e) ==
  LET new == {o.to : o \in {o \in Staged("move") : o.of = e}
                            \cup {o \in Staged("insert") : o.id = e}}
  IN  IF new = {} THEN elements[e].owner ELSE CHOOSE p \in new : TRUE

\* The references left: those not written in an element that goes, nor in
\* the old text of a replaced one.
Left ==
  {r \in DOMAIN homes :
     homes[r] \notin Gone \cup {o.of : o \in Staged("replace")}}

Retargeted(r) == \E o \in Staged("retarget") : o.of = r

Takes ==
  /\ elements' = [e \in (DOMAIN elements \ Gone) \cup Inserted |->
                    [name |-> NameAfter(e), owner |-> OwnerAfter(e)]]
  /\ homes' = [r \in Left |-> homes[r]]
  /\ DOMAIN denotes' = Left
  /\ \A r \in Left :
       IF Retargeted(r)
       THEN \E o \in Staged("retarget") : o.of = r /\ denotes'[r] = o.to
       ELSE denotes[r] # Nothing => denotes'[r] = denotes[r]

Init == batch = <<>>

Stage ==
  /\ Len(batch') = Len(batch) + 1
  /\ SubSeq(batch', 1, Len(batch)) = batch
  /\ UNCHANGED <<elements, homes, denotes>>

Commit ==
  /\ batch' = <<>>
  /\ \/ Takes
     \/ UNCHANGED <<elements, homes, denotes>>

Next == Stage \/ Commit

Spec == Init /\ [][Next]_vars
=============================================================================
