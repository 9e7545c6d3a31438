--------------------------- MODULE MCLibraryCache ---------------------------
(* Small instances of LibraryCache: two processes, three or four loads.     *)
EXTENDS LibraryCache, TLC

CONSTANTS p1, p2, s1, s2, s3, s4, A, B

\* One process that loads again and again, and one beside it.
ThreeProcessOf == (s1 :> p1) @@ (s2 :> p1) @@ (s3 :> p2)

\* One process, two loads at once.
TwoProcessOf == (s1 :> p1) @@ (s2 :> p1)

\* Contents are interchangeable, and so are the two loads of p1.
SessionSymmetry == Permutations({s1, s2})
Symmetry == SessionSymmetry \cup Permutations({A, B})
=============================================================================
