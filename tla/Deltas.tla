-------------------------------- MODULE Deltas --------------------------------
(***************************************************************************)
(* Change sets between two states of a model: delta_encode and apply of     *)
(* crates/sysmlv2-cbor/src/delta.rs.                                        *)
(*                                                                          *)
(* A payload is a sequence of elements.  An element has an id, the list of  *)
(* the elements it owns (ownedRelatedElement before ownedRelationship, the  *)
(* order in which they are walked), a backpointer to its owner, which may   *)
(* be left unspelled, and a body that stands for its other fields.  Ids are *)
(* unique and stand for positions where the code keeps those.  A digest is  *)
(* the text it is taken of: digests of different texts differ.  Ids are     *)
(* always spelled out, library references, claims and the byte format are   *)
(* left out.                                                                *)
(***************************************************************************)
EXTENDS Integers, Sequences, FiniteSets, FiniteSetsExt, Subsequences

CONSTANTS
  Null,      \* the owner of a root
  Unspelled, \* an owner the payload leaves out
  Implied,   \* an owner a record leaves out because it can be derived
  Bodies

Id == Nat \ {0}

ASSUME OwnersAssumption ==
  /\ Null \notin Id /\ Unspelled \notin Id /\ Implied \notin Id
  /\ Implied \notin {Null, Unspelled} /\ Null # Unspelled

Element == [id : Id, owned : Seq(Id), owner : Id \cup {Null, Unspelled}, body : Bodies]

Distinct(s) == \A i, j \in DOMAIN s : s[i].id = s[j].id => i = j
IsPayload(s) == s \in Seq(Element) /\ Distinct(s)

IdList(s) == [i \in DOMAIN s |-> s[i].id]
Ids(s) == {s[i].id : i \in DOMAIN s}
At(s, id) == CHOOSE i \in DOMAIN s : s[i].id = id
Named(s, id) == s[At(s, id)]

\* What a payload says, whatever order it says it in, and a payload that says
\* it in a given order.  The concatenation makes TLC keep a tuple.
State(s) == [id \in Ids(s) |-> Named(s, id)]
Listed(m, order) == <<>> \o [k \in DOMAIN order |-> m[order[k]]]

(***************************************************************************)
(* The canonical order: ownership preorder from each root, roots in the     *)
(* payload's order, then what no root reaches.  `owned` must name elements  *)
(* that are there; an element claimed twice is walked at its first claim.   *)
(***************************************************************************)
OwnedBy(m, id) == Only(m[id].owned, DOMAIN m)

RootIds(m) == DOMAIN m \ UNION {Range(OwnedBy(m, id)) : id \in DOMAIN m}
Roots(s) == Only(IdList(s), RootIds(State(s)))

Visit(m, w) ==
  IF w.stack = <<>> THEN w
  ELSE LET id == Head(w.stack)
       IN  IF id \in Range(w.order) THEN [order |-> w.order, stack |-> Tail(w.stack)]
           ELSE [order |-> Append(w.order, id), stack |-> OwnedBy(m, id) \o Tail(w.stack)]

\* Every root is popped once, and what an element owns once for each claim.
Pops(m) == Cardinality(DOMAIN m)
             + Cardinality(UNION {{id} \X DOMAIN m[id].owned : id \in DOMAIN m})

Reached(m, roots) ==
  LET pops == Pops(m)
      walk[k \in 0 .. pops] ==
        IF k = 0 THEN [order |-> <<>>, stack |-> roots] ELSE Visit(m, walk[k - 1])
  IN  walk[pops].order

OwnershipPreorder(s) ==
  LET reached == Reached(State(s), Roots(s))
  IN  reached \o Only(IdList(s), Ids(s) \ Range(reached))

Canonical(s) == Listed(State(s), OwnershipPreorder(s))

\* state_digest.
Digest(s) == Canonical(s)

\* A wrong order: the target's own.
TargetOrder(base, target) == target

\* The target as applying a delta to base gives it: what base has in base's
\* order, then what is created.
AppliedOrder(base, target) ==
  Canonical(Listed(State(target), Only(IdList(base), Ids(target))
                                    \o Only(IdList(target), Ids(target) \ Ids(base))))

\* derive_owners: the first element that claims another owns it.
FirstClaimant(s, id) ==
  LET claims == {i \in DOMAIN s : id \in Range(s[i].owned)}
  IN  IF claims = {} THEN Null ELSE s[Min(claims)].id

(***************************************************************************)
(* Records.  A whole element leaves out the owner that can be derived; a    *)
(* patch sets fields and splices the list at the one place where it differs.*)
(***************************************************************************)
Ship(s, e) ==
  [e EXCEPT !.owner = IF e.owner = FirstClaimant(s, e.id) THEN Implied ELSE e.owner]

CommonPrefix(a, b) ==
  Max({n \in 0 .. Min({Len(a), Len(b)}) : SubSeq(a, 1, n) = SubSeq(b, 1, n)})
CommonSuffix(a, b, p) ==
  Max({n \in 0 .. Min({Len(a), Len(b)}) - p :
         SubSeq(a, Len(a) - n + 1, Len(a)) = SubSeq(b, Len(b) - n + 1, Len(b))})

\* plan_patch: the fields that differ.
PlanPatch(old, new) ==
  LET p == CommonPrefix(old.owned, new.owned)
      s == CommonSuffix(old.owned, new.owned, p)
  IN  [splice |-> [at |-> p, del |-> Len(old.owned) - p - s,
                   items |-> SubSeq(new.owned, p + 1, Len(new.owned) - s)],
       set    |-> [f \in {f \in {"owner", "body"} : old[f] # new[f]} |-> new[f]]]

\* read_patch: replayed over the element that is held.
ReadPatch(e, patch) ==
  LET at     == patch.splice.at
      set(f) == IF f \in DOMAIN patch.set THEN patch.set[f] ELSE e[f]
  IN  [id |-> e.id, owner |-> set("owner"), body |-> set("body"),
       owned |-> SubSeq(e.owned, 1, at) \o patch.splice.items
                   \o SubSeq(e.owned, at + patch.splice.del + 1, Len(e.owned))]

(***************************************************************************)
(* Encoding.  Updates and deletions by base position, then creations in the *)
(* result's order.  A strict delta names its targets by position in the     *)
(* base, a portable one by id.  Of a patch and the whole element the        *)
(* shorter is sent: patches says which.                                     *)
(***************************************************************************)
Delete == [kind |-> "delete"]

\* How a delta names the element b has under an id.
TargetOf(b, portable, id) == IF portable THEN id ELSE At(b, id)

ChangedIds(b, t) ==
  {id \in Ids(b) : id \notin Ids(t) \/ Named(t, id) # Named(b, id)}

ChangeOf(b, t, portable, patches, id) ==
  IF id \notin Ids(t) THEN Delete
  ELSE IF patches /\ ~portable
       THEN [kind |-> "patch", patch |-> PlanPatch(Named(b, id), Named(t, id))]
       ELSE [kind |-> "whole", element |-> Ship(t, Named(t, id))]

Updates(b, t, portable, patches) ==
  LET changed == Only(IdList(b), ChangedIds(b, t))
  IN  [k \in DOMAIN changed |->
         [target |-> TargetOf(b, portable, changed[k]),
          change |-> ChangeOf(b, t, portable, patches, changed[k])]]

Creates(b, t) ==
  LET created == Only(IdList(t), Ids(t) \ Ids(b))
  IN  [k \in DOMAIN created |-> Ship(t, Named(t, created[k]))]

\* A wrong table: positions in the target as it was passed.
UnitRootsAsPassed(target, t) ==
  {[at |-> At(target, id), path |-> id] : id \in Range(Roots(target))}

\* The target's units, its roots, as positions in the result.
UnitRoots(target, t) ==
  {[at |-> At(t, id), path |-> id] : id \in Range(Roots(target))}

DeltaEncode(base, target, portable, patches) ==
  LET b == Canonical(base)
      t == AppliedOrder(b, Canonical(target))
  IN  [portable |-> portable, base |-> b, result |-> t,
       updates |-> Updates(b, t, portable, patches), creates |-> Creates(b, t),
       units |-> IF portable THEN {} ELSE UnitRoots(target, t)]

(***************************************************************************)
(* Application.                                                             *)
(***************************************************************************)
Refused(why) == [refused |-> why]
IsRefused(outcome) == "refused" \in DOMAIN outcome

\* The updates for the element that is held under an id: one or none.
UpdatesOf(d, held, id) ==
  {k \in DOMAIN d.updates : d.updates[k].target = TargetOf(held, d.portable, id)}
Update(d, held, id) == d.updates[CHOOSE k \in UpdatesOf(d, held, id) : TRUE].change

Deleted(d, held) ==
  {id \in Ids(held) : UpdatesOf(d, held, id) # {} /\ Update(d, held, id) = Delete}

\* What a delta makes of the element with an id; of one that is not held, what
\* it says that element is.
Changed(d, held, id) ==
  IF id \in Ids(d.creates) THEN Named(d.creates, id)
  ELSE IF UpdatesOf(d, held, id) = {} THEN Named(held, id)
  ELSE IF Update(d, held, id).kind = "patch"
       THEN ReadPatch(Named(held, id), Update(d, held, id).patch)
       ELSE Update(d, held, id).element

\* Updates of elements that are not held.
Upserts(d, held) ==
  IF d.portable
  THEN Only([k \in DOMAIN d.updates |-> d.updates[k].target],
            {d.updates[k].target : k \in {k \in DOMAIN d.updates : d.updates[k].change # Delete}}
              \ Ids(held))
  ELSE <<>>

Assembled(d, held) ==
  LET order == Only(IdList(held), Ids(held) \ Deleted(d, held))
                 \o Upserts(d, held)
                 \o Only(IdList(d.creates), Ids(d.creates) \ Ids(held))
  IN  Listed([id \in Range(order) |-> Changed(d, held, id)], order)

\* Owners that records left out are derived over the applied state.
Rederived(s) ==
  LET rederived(e) ==
        [e EXCEPT !.owner = IF e.owner = Implied THEN FirstClaimant(s, e.id) ELSE e.owner]
  IN  Listed([id \in Ids(s) |-> rederived(Named(s, id))], IdList(s))

Applied(d, held) == Rederived(Canonical(Assembled(d, held)))

\* Wrong applications: the first trusts the base, the second refuses to delete
\* what is already gone.
ApplyAnywhere(d, base, lenient) ==
  LET held == Canonical(base)
  IN  [value |-> Applied(d, held), matched |-> held = d.base, units |-> d.units]

ApplyDeletesOnce(d, base, lenient) ==
  LET held == Canonical(base)
      gone == {k \in DOMAIN d.updates :
                 d.portable /\ d.updates[k].change = Delete /\ d.updates[k].target \notin Ids(held)}
  IN  IF \/ lenient /\ ~d.portable
         \/ gone # {}
         \/ held # d.base /\ ~lenient
      THEN Refused("base digest")
      ELSE [value |-> Applied(d, held), matched |-> held = d.base, units |-> d.units]

Apply(d, base, lenient) ==
  LET held    == Canonical(base)
      matched == held = d.base
      value   == Applied(d, held)
  IN  IF lenient /\ ~d.portable THEN Refused("strict delta")
      ELSE IF ~matched /\ ~lenient THEN Refused("base digest")
      ELSE IF matched /\ value # d.result THEN Refused("result digest")
      ELSE [value |-> value, matched |-> matched,
            noopDeletes |-> IF ~d.portable THEN {}
                            ELSE {k \in DOMAIN d.updates :
                                    /\ d.updates[k].change = Delete
                                    /\ d.updates[k].target \notin Ids(held)},
            upserted |-> Range(Upserts(d, held)),
            replacedCreates |-> {k \in DOMAIN d.creates : d.creates[k].id \in Ids(held)},
            units |-> d.units]

(***************************************************************************)
(* graph_normalize: a payload as a graph store spells it.  A root's null    *)
(* owner is a default and left out, other owners are spelled, and elements  *)
(* are in the order of their ids.                                           *)
(***************************************************************************)
Ascending(ids) == Only([i \in 1 .. Max(ids \cup {0}) |-> i], ids)

Respelled(s, id) ==
  LET e        == Named(s, id)
      claimant == FirstClaimant(s, id)
  IN  [e EXCEPT !.owner = IF e.owner \in {Null, Unspelled}
                          THEN IF claimant = Null THEN Unspelled ELSE claimant
                          ELSE e.owner]

Normalized(s) == [id \in Ids(s) |-> Respelled(s, id)]

GraphNormalize(s) == Listed(Normalized(s), Ascending(Ids(s)))
=============================================================================
