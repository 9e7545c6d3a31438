------------------------------- MODULE Splices -------------------------------
(***************************************************************************)
(* Text replacements of an edit batch, as Planner::commit of                *)
(* crates/sysmlv2-transform/src/lib.rs orders, applies and traces them.     *)
(*                                                                          *)
(* A text is a sequence of tokens.  Positions are the boundaries between    *)
(* them, 0 before the first: token i is written at the span i-1 .. i.  A    *)
(* splice replaces the tokens between two boundaries, and is a pure         *)
(* insertion where they are equal.  A token's id is not written: it is what *)
(* the token stands for, so that a text can be compared with what was       *)
(* meant by it.                                                             *)
(***************************************************************************)
EXTENDS Integers, Sequences, FiniteSets, FiniteSetsExt, SequencesExt, Subsequences

\* What a reader of the text sees of it.
Written(text) ==
  [i \in DOMAIN text |-> <<text[i].kind, text[i].name, text[i].head>>]

Splice(start, end, text, expects) ==
  [start |-> start, end |-> end, text |-> text, expects |-> expects]

Insertion(s) == s.start = s.end

\* The order of sort_by_key(start, end); equal keys keep the batch's order.
Precedes(s, i, j) ==
  \/ s[i].start < s[j].start
  \/ s[i].start = s[j].start /\ s[i].end < s[j].end
  \/ s[i].start = s[j].start /\ s[i].end = s[j].end /\ i < j

\* The k-th in order has k - 1 before it.
InOrder(s) ==
  [k \in DOMAIN s |->
     s[CHOOSE i \in DOMAIN s : Cardinality({j \in DOMAIN s : Precedes(s, j, i)}) = k - 1]]

\* dedup_by: one replacement written by two operations is applied once.
SameReplacement(a, b) ==
  /\ a.start = b.start
  /\ a.end = b.end
  /\ Written(a.text) = Written(b.text)

Deduplicated(s) ==
  LET kept == Only(Upto(Len(s)), {i \in DOMAIN s : i = 1 \/ ~SameReplacement(s[i - 1], s[i])})
  IN  [k \in DOMAIN kept |-> s[kept[k]]]

OverlappingAtOneStart(s) ==
  \E i \in 1 .. Len(s) - 1 : s[i + 1].start = s[i].start /\ s[i].start < s[i].end

Overlapping(s) == \E i \in 1 .. Len(s) - 1 : s[i + 1].start < s[i].end

\* What a splice adds to the new text: what lies between the one before it and
\* itself, and what it writes.
EndBefore(s, i) == IF i = 1 THEN 0 ELSE s[i - 1].end
Piece(text, s, i) == SubSeq(text, EndBefore(s, i) + 1, s[i].start) \o s[i].text
Pieces(text, s) == [i \in DOMAIN s |-> Piece(text, s, i)]

Spliced(text, s) ==
  Joined(Pieces(text, s)) \o SubSeq(text, EndBefore(s, Len(s) + 1) + 1, Len(text))

\* Where the text of splice i starts afterwards.
NewStart(text, s, i) == Len(Joined(SubSeq(Pieces(text, s), 1, i))) - Len(s[i].text)

\* Where a boundary of the old text lies in the new one, Inside for one
\* within a replaced span.  A span that ends at an insertion ends before it,
\* one that starts there starts after it.
Inside == -1

PassedAtEither(s, pos, atEnd) == pos >= s.end

Passed(s, pos, atEnd) ==
  pos > s.end \/ (pos = s.end /\ ~(Insertion(s) /\ atEnd))

Grows(s) == Len(s.text) - (s.end - s.start)

\* The growth of the splices at these places.
Grown(s, passed) ==
  LET delta[k \in 0 .. Len(s)] ==
        IF k = 0 THEN 0 ELSE delta[k - 1] + IF k \in passed THEN Grows(s[k]) ELSE 0
  IN  delta[Len(s)]

Shift(s, pos, atEnd) ==
  LET passed == {k \in DOMAIN s : Passed(s[k], pos, atEnd)}
  IN  IF \E k \in DOMAIN s \ passed : pos > s[k].start
      THEN Inside
      ELSE pos + Grown(s, passed)

\* What a mirror does with the reported splices: apply them to its copy of
\* the old text, the last one first.
Replace(text, r) == SubSeq(text, 1, r.start) \o r.text \o SubSeq(text, r.end + 1, Len(text))

Replayed(text, s) ==
  LET after[k \in 0 .. Len(s)] ==
        IF k = 0 THEN text ELSE Replace(after[k - 1], s[Len(s) + 1 - k])
  IN  after[Len(s)]
=============================================================================
