---------------------------- MODULE DeltaExchange ----------------------------
(***************************************************************************)
(* A session that sends its model to a holder of an earlier state of it as  *)
(* deltas: Session::delta_cbor_from, delta_cbor_from_store_head and         *)
(* apply_delta_cbor of crates/sysmlv2-transform/src/lib.rs over the deltas  *)
(* of module Deltas.                                                        *)
(*                                                                          *)
(* The session encodes against the last state it fetched.  Its deltas stay  *)
(* deliverable: they arrive late, out of order, several times or never, and *)
(* between them others write the held state.  With the store's spelling     *)
(* both sides graph-normalize what they encode against and apply to.        *)
(***************************************************************************)
EXTENDS Deltas

CONSTANTS
  Documents, \* the payloads a session or another writer can have
  MaxWrites, \* bound on edits and writes
  MaxSent    \* bound on deltas

ASSUME DocumentsAssumption ==
  /\ \A s \in Documents : IsPayload(s)
  /\ MaxWrites \in Nat /\ MaxSent \in Nat

VARIABLES
  spelling, \* "own" or "store": fixed
  mine,     \* the session's model as it emits it
  known,    \* the payload the session last fetched
  head,     \* the payload the receiver holds
  net,      \* deltas sent, each with the states it was made from
  edits,    \* edits of the session
  writes    \* writes by others

vars == <<spelling, mine, known, head, net, edits, writes>>

Spelled(s) == IF spelling = "store" THEN GraphNormalize(s) ELSE s

\* What a payload says in that spelling.
Meaning(s) == IF spelling = "store" THEN Normalized(s) ELSE State(s)

Init == /\ spelling \in {"own", "store"}
        /\ head \in Documents
        /\ mine = head
        /\ known = head
        /\ net = {}
        /\ edits = 0
        /\ writes = 0

\* The session's model becomes another one.
Edit == /\ edits + writes < MaxWrites
        /\ mine' \in Documents \ {mine}
        /\ edits' = edits + 1
        /\ UNCHANGED <<spelling, known, head, net, writes>>

\* Somebody else replaces the held state.
OtherWrite == /\ edits + writes < MaxWrites
              /\ head' \in Documents \ {head}
              /\ writes' = writes + 1
              /\ UNCHANGED <<spelling, mine, known, net, edits>>

\* The session reads the held state to encode its next delta against.
Fetch == /\ known' = head
         /\ UNCHANGED <<spelling, mine, head, net, edits, writes>>

\* delta_cbor_from and, in the store's spelling, delta_cbor_from_store_head.
Push(portable, patches) ==
  LET base   == Spelled(known)
      target == Spelled(mine)
  IN  /\ Cardinality(net) < MaxSent
      /\ net' = net \cup {[delta |-> DeltaEncode(base, target, portable, patches),
                           from |-> Meaning(known), to |-> Meaning(mine)]}
      /\ UNCHANGED <<spelling, mine, known, head, edits, writes>>

\* apply_delta_cbor; the receiver keeps the result.  A refused delta changes
\* nothing.
Deliver(m, lenient) ==
  LET outcome == Apply(m.delta, Spelled(head), lenient)
  IN  /\ ~IsRefused(outcome)
      /\ head' = outcome.value
      /\ UNCHANGED <<spelling, mine, known, net, edits, writes>>

Next ==
  \/ Edit
  \/ OtherWrite
  \/ Fetch
  \/ \E portable, patches \in BOOLEAN : Push(portable, patches)
  \/ \E m \in net, lenient \in BOOLEAN : Deliver(m, lenient)

Spec == Init /\ [][Next]_vars

(***************************************************************************)
(* Properties.                                                              *)
(***************************************************************************)
\* Deltas implement the exchange of states: a strict delivery is a compare
\* and swap of whole states, a lenient one touches what the delta is about.
Exchange ==
  INSTANCE StateExchange
    WITH value  <- Meaning(head),
         offers <- {[from |-> m.from, to |-> m.to, mergeable |-> m.delta.portable] : m \in net},
         writes <- writes

ImplementsExchange == Exchange!Spec

\* A delta encoded against exactly the payload that is held is never refused,
\* strictly or leniently, whatever order its created roots take in the
\* result; in the store's spelling holding the same elements is enough.
PushAccepted ==
  \A m \in net :
    (\/ Digest(Spelled(head)) = m.delta.base
     \/ spelling = "store" /\ Meaning(head) = m.from)
      => ~IsRefused(Apply(m.delta, Spelled(head), FALSE))

\* The unit entries a strict application reports give each root of the
\* sender's model, and only these, at its position in the applied payload.
UnitsFollow ==
  \A m \in net :
    LET outcome == Apply(m.delta, Spelled(head), FALSE)
    IN  ~m.delta.portable /\ ~IsRefused(outcome) =>
          {outcome.value[u.at].id : u \in outcome.units} =
            Range(Roots(outcome.value))

\* A portable delta leaves a payload whatever it meets, with one element per id
\* and no owner left to be derived; arriving a second time it changes nothing.
ReplayHarmless ==
  \A m \in net :
    LET once  == Apply(m.delta, Spelled(head), TRUE)
        twice == Apply(m.delta, once.value, TRUE)
    IN  m.delta.portable /\ ~IsRefused(once) =>
          IsPayload(once.value) /\ ~IsRefused(twice) /\ State(twice.value) = State(once.value)
=============================================================================
