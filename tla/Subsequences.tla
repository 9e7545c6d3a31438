---------------------------- MODULE Subsequences ----------------------------
(***************************************************************************)
(* What is left of a sequence (Vec::retain) and sequences put one after the *)
(* other (Iterator::flat_map).  They are written over the prefixes of the   *)
(* sequence, the first with a set in the place of a predicate, so that they *)
(* can be reasoned about.                                                   *)
(***************************************************************************)
EXTENDS Naturals, Sequences

\* The places in a sequence of n.
Upto(n) == [i \in 1 .. n |-> i]

\* The elements of q that are in T, in their order.
Only(q, T) ==
  LET only[i \in 0 .. Len(q)] ==
        IF i = 0 THEN <<>>
        ELSE IF q[i] \in T THEN Append(only[i - 1], q[i]) ELSE only[i - 1]
  IN  only[Len(q)]

\* The sequences in q, one after the other.
Joined(q) ==
  LET joined[i \in 0 .. Len(q)] == IF i = 0 THEN <<>> ELSE joined[i - 1] \o q[i]
  IN  joined[Len(q)]
=============================================================================
