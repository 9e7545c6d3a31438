------------------------------ MODULE MCBindings ------------------------------
(***************************************************************************)
(* What the language bindings export, for TLC: a session with its handles   *)
(* and edit batches, the checks of a session's model, and the language      *)
(* server fed one message at a time.  A behaviour has one of the three.     *)
(***************************************************************************)
EXTENDS SessionHandles, NavigationSessions, SemanticChecks, TLC

CONSTANTS b1, b2, exact, parens, t1, t2

VARIABLE exported

MCInit ==
  /\ Init /\ NavInit /\ ChecksInit
  /\ exported \in {"session", "server", "checks"}
  /\ exported # "session" => binding = "py"
  /\ exported # "server" => seeded = None

MCNext ==
  \/ exported = "session" /\ Next /\ UNCHANGED <<navVars, checkVars, exported>>
  \/ exported = "server" /\ NavNext /\ UNCHANGED <<vars, checkVars, exported>>
  \/ exported = "checks" /\ ChecksNext /\ UNCHANGED <<vars, navVars, exported>>

MCSpec == MCInit /\ [][MCNext]_<<vars, navVars, checkVars, exported>>

Symmetry == Permutations({b1, b2}) \cup Permutations({exact, parens})

MCUnit == <<1, 1, 2>>

MCTexts == {Text("g", "whole"), Text("h", "half")}

\* A host seeds each unit once.
MCSeeds ==
  {<<Source(1, Text("h", "whole")), Source(3, Text("h", "whole"))>>,
   <<Source(1, Text("g", "whole")), Source(3, Text("h", "whole"))>>,
   <<Source(1, Text("h", "half")), Source(3, Text("h", "whole"))>>}

\* What each artefact costs an attempt that finds it missing; the plan costs 2.
Cost == [decided |-> 1, index |-> 1, implied |-> 2]
CostOf(artefacts) == FoldFunctionOnSet(LAMBDA x, y : x + y, 0, Cost, artefacts)
MCPrice ==
  [ready \in SUBSET Artefacts |->
    [i \in 1..4 |-> IF i = 4 THEN CostOf(Artefacts \ ready) + 2
                    ELSE CostOf({Order[j] : j \in 1..i} \ ready)]]

MCLargestFirst == <<2, 3, 1>>

\* One work asks, enumerates and peeks; the other has nothing to plan for.
Question(f, left) == [kind |-> "ask", of |-> f, left |-> left]
Enumeration(f) == [kind |-> "enumerate", of |-> f]
Peek(f) == [kind |-> "peek", of |-> f]
MCWorks ==
  {[plans |-> TRUE,
    families |-> <<<<Question(1, 3), Question(1, 4)>>, <<Peek(2)>>, <<Question(3, 2), Peek(3)>>>>,
    rows |-> <<Enumeration(4), Enumeration(5), Enumeration(6), Enumeration(7)>>],
   [plans |-> FALSE, families |-> <<<<>>, <<>>, <<>>>>, rows |-> <<>>]}
=============================================================================
