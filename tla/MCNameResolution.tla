--------------------------- MODULE MCNameResolution ---------------------------
(****************************************************************************)
(* A small workspace: package P with a package A in it, and package B with  *)
(* a package X, which has a Y, and a package B; in A a private package X.   *)
(* The user's unit adds a package Z with a Y in it.                         *)
(****************************************************************************)
EXTENDS NameMeaning, TLC

MCParent == (0 :> None) @@ (1 :> 0) @@ (2 :> 1) @@ (3 :> 0) @@ (4 :> 3) @@ (5 :> 4) @@ (6 :> 2) @@ (7 :> 3)
              @@ (8 :> 0) @@ (9 :> 8)

MCNameOf == (0 :> "") @@ (1 :> "P") @@ (2 :> "A") @@ (3 :> "B") @@ (4 :> "X") @@ (5 :> "Y")
              @@ (6 :> "X") @@ (7 :> "B")
              @@ (8 :> "Z") @@ (9 :> "Y")

MCPrivate == {6}

MCUser == {8, 9}

MCQueries == {<<1, <<"X">>>>, <<1, <<"X", "Y">>>>, <<0, <<"P", "Y">>>>, <<2, <<"Y">>>>,
              <<3, <<"Y">>>>, <<0, <<"P", "A", "X">>>>}

Import(target, public, all, recursive) ==
  [target |-> target, public |-> public, all |-> all, recursive |-> recursive]

Public(target)  == Import(target, TRUE, FALSE, FALSE)
InPrivate(target) == Import(target, FALSE, FALSE, FALSE)
Every(target)   == Import(target, TRUE, TRUE, FALSE)
Below(target)   == Import(target, TRUE, FALSE, TRUE)

PImports == {<<>>, <<Public(<<"A">>)>>, <<Public(<<"A", "X">>)>>, <<Every(<<"A">>)>>,
             <<Public(<<"X">>)>>, <<Public(<<"X">>), Public(<<"A">>)>>,
             <<Below(<<"A">>), Public(<<"B">>)>>, <<Public(<<"B">>), Public(<<"X">>)>>}
AImports == {<<>>, <<Public(<<"B">>)>>, <<InPrivate(<<"B">>)>>, <<Below(<<"B">>)>>,
             <<Public(<<"P">>)>>, <<Public(<<"X">>), Public(<<"B">>)>>,
             <<Public(<<"P">>), InPrivate(<<"B">>)>>, <<Public(<<"Z">>)>>}
BImports == {<<>>, <<Every(<<"X">>)>>, <<Public(<<"P">>)>>, <<Public(<<"P", "A">>)>>}
PMembers == {<<>>, <<Public(<<"A", "X">>)>>, <<Public(<<"B", "X">>)>>, <<InPrivate(<<"X", "Y">>)>>}

Workspace(p, a, b, m) ==
  [imports |-> [s \in Scopes |-> CASE s = 1 -> p [] s = 2 -> a [] s = 3 -> b [] OTHER -> <<>>],
   members |-> [s \in Scopes |-> IF s = 1 THEN m ELSE <<>>],
   user    |-> FALSE]

AllSources == {Workspace(p, a, b, m) : p \in PImports, a \in AImports, b \in BImports, m \in PMembers}

LayeredSources == {src \in AllSources : Layered(src)}
=============================================================================
