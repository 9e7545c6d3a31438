---------------------------- MODULE StateExchange ----------------------------
(***************************************************************************)
(* What exchanging change sets promises, without saying how they are        *)
(* encoded: a receiver holds a state, a finite function from ids to         *)
(* elements, and an offer takes it from the state the offer was made        *)
(* against, and from no other, to exactly the state the sender had.  An     *)
(* offer that may be merged changes, in any other state, the elements in    *)
(* which its two states differ and no other.                                *)
(***************************************************************************)
EXTENDS Naturals

VARIABLES
  value,  \* the receiver's state
  offers, \* the offers made so far: nothing bounds how often one arrives
  writes  \* how many writes have happened outside the exchange

vars == <<value, offers, writes>>

\* An element without the backpointer that its owner's list implies.
Content(e) == [owned |-> e.owned, body |-> e.body]

\* The ids whose element the offer changes.
Touched(o) ==
  {id \in DOMAIN o.from \cup DOMAIN o.to :
     ~(id \in DOMAIN o.from /\ id \in DOMAIN o.to /\ o.from[id] = o.to[id])}

Write == /\ writes' = writes + 1
         /\ UNCHANGED offers

Offer == /\ \E o \in offers' \ offers : offers' = offers \cup {o}
         /\ UNCHANGED <<value, writes>>

Take(o) == /\ value = o.from
           /\ value' = o.to
           /\ UNCHANGED <<offers, writes>>

\* The contents of a state v, and what an offer makes of them.
Contents(v) == [id \in DOMAIN v |-> Content(v[id])]
Merged(v, o) ==
  LET touched == Touched(o)
  IN  [id \in (DOMAIN v \ touched) \cup (DOMAIN o.to \cap touched) |->
         Content(IF id \in touched THEN o.to[id] ELSE v[id])]

Merge(o) == /\ o.mergeable
            /\ Contents(value') = Merged(value, o)
            /\ UNCHANGED <<offers, writes>>

Init == offers = {} /\ writes = 0

Next == Write \/ Offer \/ \E o \in offers : Take(o) \/ Merge(o)

Spec == Init /\ [][Next]_vars
=============================================================================
