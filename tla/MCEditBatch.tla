----------------------------- MODULE MCEditBatch -----------------------------
(* Small instances of EditBatch.                                            *)
EXTENDS EditBatch

CONSTANTS P, Q, X, Y, M, R1, R2, F1, F2

\* P { X; } Q; -> P::X and a reference that names nothing yet.
Siblings ==
  <<Open(P, "P"), Open(X, "X"), Semi, Close, Open(Q, "Q"), Semi>>
    \o Reference(R1, <<"P", "X">>) \o Reference(R2, <<"Y">>)

\* P { X; } Q { X; -> X } -> P::X
Shadows ==
  <<Open(P, "P"), Open(X, "X"), Semi, Close, Open(Q, "Q"), Open(Y, "X"), Semi>>
    \o Reference(R1, <<"X">>) \o <<Close>> \o Reference(R2, <<"P", "X">>)

\* P { M { -> Q::X } X; } Q { X; }
Carried ==
  <<Open(P, "P"), Open(M, "M")>> \o Reference(R1, <<"Q", "X">>)
    \o <<Close, Open(X, "X"), Semi, Close, Open(Q, "Q"), Open(Y, "X"), Semi, Close>>

Small == {Siblings, Shadows, Carried}
=============================================================================
