------------------------------ MODULE EditBatch ------------------------------
(***************************************************************************)
(* Batches of edits of a session's text: EditBuilder and Planner of         *)
(* crates/sysmlv2-transform/src/lib.rs.                                     *)
(*                                                                          *)
(* A host stages operations on elements and reference sites of the resolved *)
(* model.  A commit turns each, in order, into splices of the text; applies *)
(* them to a copy; resolves the new text; and gives the session the copy    *)
(* only if every reference site, found again at its new place, names what   *)
(* it named before.  "Names" is by qualified name, mapped through what the  *)
(* batch renamed and moved: the code has nothing else to compare by.        *)
(*                                                                          *)
(* The session holds one text.  A member is written as an opening token     *)
(* with its name and ended by a semicolon or, after the members and         *)
(* references it holds, by a closing brace.  A reference is a path of name  *)
(* segments.  Names are declared names and all members have one metaclass   *)
(* and are public: there are no aliases, imports or specializations.        *)
(* Layout, notes and `then` members are left out.                           *)
(*                                                                          *)
(* Every element and reference has an identity of its own, the id of its    *)
(* tokens, which the text does not show and the code does not have.  The    *)
(* properties speak of it.                                                  *)
(***************************************************************************)
EXTENDS Splices

CONSTANTS
  Documents,     \* the texts a session may start from
  Names,         \* what an element may be renamed to
  Kinds,         \* the operations hosts use
  Fresh,         \* identities of inserted elements
  Root,          \* the namespace above every element
  Nothing,       \* what an unresolved reference denotes
  DistinctEdits, \* TRUE: no two operations of a batch write the same text at
                 \* one place
  NamesRetire,   \* TRUE: no batch gives the name of an element it removes to
                 \* another
  MaxOps, MaxCommits

ASSUME EditAssumption ==
  /\ {DistinctEdits, NamesRetire} \subseteq BOOLEAN
  /\ MaxOps \in Nat /\ MaxCommits \in Nat
  /\ Root # Nothing

VARIABLES
  text,     \* the session's source
  resolved, \* its resolved model
  batch,    \* the operations staged in the builder
  commits,  \* how many commits there were
  report    \* the last commit: its verdict, the old text and what it reported

vars == <<text, resolved, batch, commits, report>>

(***************************************************************************)
(* Texts                                                                    *)
(***************************************************************************)
Token(kind, id, name, head) ==
  [kind |-> kind, id |-> id, name |-> name, head |-> head]
Open(e, n)      == Token("open", e, n, FALSE)
Close           == Token("close", Nothing, "", FALSE)
Semi            == Token("semi", Nothing, "", FALSE)
Segment(r, n, head) == Token("segment", r, n, head)

\* A reference spelled with the path of names.
Reference(r, path) == [k \in DOMAIN path |-> Segment(r, path[k], k = 1)]

Opens(t) == {i \in DOMAIN t : t[i].kind = "open"}
Segments(t) == {i \in DOMAIN t : t[i].kind = "segment"}
Heads(t) == {i \in Segments(t) : t[i].head}

\* The resolved model of a text, a table for each of: where a member ends,
\* the members around a token, the innermost of them, what a segment names,
\* and the qualified name of a member.  Members are positions; 0 is the root
\* namespace, and nothing.
Table(f) == SubSeq(f, 1, Len(f))

Unique(S) == IF Cardinality(S) = 1 THEN CHOOSE x \in S : TRUE ELSE 0

\* How deep below the member opened at i its text is after j.
Depth(t, i, j) ==
  Cardinality({k \in i .. j : t[k].kind = "open"})
    - Cardinality({k \in i .. j : t[k].kind \in {"close", "semi"}})

EndsAt(t, i, j) == Depth(t, i, j) = 0 /\ \A l \in i .. j - 1 : Depth(t, i, l) > 0

EndOf(t, i) == CHOOSE j \in i .. Len(t) : EndsAt(t, i, j)

\* What the parser takes: every member ends and nothing else does, a
\* semicolon ends a member without a body, and a path begins with its head.
Parses(t) ==
  /\ \A i \in Opens(t) : \E j \in i .. Len(t) : EndsAt(t, i, j)
  /\ \A j \in DOMAIN t : t[j].kind \in {"close", "semi"} =>
       \E i \in Opens(t) : EndOf(t, i) = j /\ (t[j].kind = "semi" => i = j - 1)
  /\ \A i \in Segments(t) : t[i].head \/ i - 1 \in Segments(t)

Ends(t) == Table([i \in DOMAIN t |-> IF i \in Opens(t) THEN EndOf(t, i) ELSE 0])

Arounds(end) == Table([i \in DOMAIN end |-> {0} \cup {j \in 1 .. i - 1 : i <= end[j]}])

Owners(around) == Table([i \in DOMAIN around |-> Max(around[i])])

\* A head segment is looked up in the scopes around it, innermost first, and
\* the first scope with a member of that name decides; the others in what
\* the segment before them names.  Two members of a name make it ambiguous.
Targets(t, around, owner) ==
  LET Called(scope, n) == {i \in Opens(t) : owner[i] = scope /\ t[i].name = n}
      target[i \in 0 .. Len(t)] ==
        IF i \notin Segments(t) THEN 0
        ELSE IF t[i].head
        THEN LET having == {s \in around[i] : Called(s, t[i].name) # {}}
             IN  IF having = {} THEN 0 ELSE Unique(Called(Max(having), t[i].name))
        ELSE LET before == target[i - 1]
             IN  IF before = 0 THEN 0 ELSE Unique(Called(before, t[i].name))
  IN  target

QualifiedNames(t, owner) ==
  LET qn[i \in 0 .. Len(t)] ==
        IF i = 0 THEN <<>> ELSE Append(qn[owner[i]], t[i].name)
  IN  Table([i \in DOMAIN t |-> IF i \in Opens(t) THEN qn[i] ELSE <<>>])

Model(t) ==
  LET end    == Ends(t)
      around == Arounds(end)
      owner  == Owners(around)
      target == Targets(t, around, owner)
  IN  [end |-> end, around |-> around, owner |-> owner,
       target |-> Table([i \in DOMAIN t |-> target[i]]), qn |-> QualifiedNames(t, owner)]

\* What tokens may say: what those of the documents do, and what is inserted.
Identities ==
  {Nothing} \cup Fresh \cup UNION {{t[i].id : i \in DOMAIN t} : t \in Documents}
Spellings == {""} \cup Names \cup UNION {{t[i].name : i \in DOMAIN t} : t \in Documents}

Tokens == [kind : {"open", "close", "semi", "segment"}, id : Identities,
           name : Spellings, head : BOOLEAN]

\* A session opens on what parses.
ASSUME DocumentsAssumption == \A t \in Documents : t \in Seq(Tokens) /\ Parses(t)

\* The reference sites: each segment that names something.
Sites(m) == {i \in DOMAIN m.target : m.target[i] # 0}

\* The qualified name of what is inside the member at scope and called n.
NameIn(m, scope, n) == Append(IF scope = 0 THEN <<>> ELSE m.qn[scope], n)

\* The position of an element and of a reference's head.
At(t, e) == CHOOSE i \in Opens(t) : t[i].id = e
HeadAt(t, r) == CHOOSE i \in Heads(t) : t[i].id = r

\* The last segment of the reference that begins at i.
LastOf(t, i) == Max({j \in Segments(t) : t[j].id = t[i].id})

Members(t, m, scope) == {i \in Opens(t) : m.owner[i] = scope}

(***************************************************************************)
(* Planning.  A plan is what Planner gathers: the splices, the name map     *)
(* from old to new qualified names, the spans whose old content is spoken   *)
(* for, and the reference sites carried along in moved text.                *)
(***************************************************************************)
NoPlan == [splices |-> <<>>, mapped |-> <<>>, consumed |-> {}, carried |-> <<>>,
           refused |-> "no"]

Refuse(p, why) == [p EXCEPT !.refused = why]

Put(p, start, end, new, expects) ==
  [p EXCEPT !.splices = Append(@, Splice(start, end, new, expects))]

Consume(p, start, end) ==
  [p EXCEPT !.consumed = @ \cup {[start |-> start, end |-> end]}]

MapName(p, old, new) == [p EXCEPT !.mapped = Append(@, <<old, new>>)]

\* Site i lies in a span.
Within(i, span) == span.start <= i - 1 /\ i <= span.end

Speaks(p, i) == \E span \in p.consumed : Within(i, span)

Extent(m, i) == [start |-> i - 1, end |-> m.end[i]]

\* Respell each of these sites, which must then name new.
Respelled(t, i, new) ==
  Splice(i - 1, i, <<[t[i] EXCEPT !.name = new[Len(new)]]>>,
         {[at |-> 0, qn |-> new, newLeaf |-> TRUE]})

Respell(p, t, sites, new) ==
  LET inText == Only(Upto(Len(t)), sites)
  IN  [p EXCEPT !.splices = @ \o [k \in DOMAIN inText |-> Respelled(t, inText[k], new)]]

\* The sites naming i that are written with its own name.
SpelledAs(t, m, i) == {j \in Sites(m) : m.target[j] = i /\ t[j].name = t[i].name}

PlanRename(p, t, m, op) ==
  LET i   == At(t, op.of)
      new == NameIn(m, m.owner[i], op.name)
  IN  Respell(Put(MapName(p, m.qn[i], new), i - 1, i, <<Open(op.of, op.name)>>, {}),
              t, SpelledAs(t, m, i), new)

\* References from outside to what goes would be stranded, unless an earlier
\* operation of the batch already speaks for their text.
PlanRemove(p, t, m, op) ==
  LET cut      == Extent(m, At(t, op.of))
      stranded == {i \in Sites(m) : /\ ~Within(i, cut)
                                    /\ ~Speaks(p, i)
                                    /\ Within(m.target[i], cut)}
  IN  IF stranded # {} THEN Refuse(p, "breaks references")
      ELSE Put(Consume(p, cut.start, cut.end), cut.start, cut.end, <<>>, {})

\* Where a member goes in the body of the member at scope: before the first
\* of its members, or at the end, growing a body where there is none.
Place(t, m, scope, siblings, slot, new) ==
  IF slot = "first" /\ siblings # {}
  THEN LET at == Min(siblings) - 1 IN Splice(at, at, new, {})
  ELSE IF scope = 0 THEN Splice(Len(t), Len(t), new, {})
  ELSE LET last == m.end[scope] - 1
       IN  IF t[last + 1].kind = "close"
           THEN Splice(last, last, new, {})
           ELSE Splice(last, last + 1, Append(new, Close), {})

PlanInsert(p, t, m, op) ==
  LET scope == IF op.to = Root THEN 0 ELSE At(t, op.to)
  IN  [p EXCEPT !.splices = Append(@,
         Place(t, m, scope, Members(t, m, scope), op.slot, <<Open(op.id, op.name), Semi>>))]

\* The member's text is cut and written again elsewhere; the sites in it
\* are looked for there.
PlanMove(p, t, m, op) ==
  LET i     == At(t, op.of)
      to    == At(t, op.to)
      cut   == Extent(m, i)
      body  == SubSeq(t, cut.start + 1, cut.end)
      put   == Place(t, m, to, Members(t, m, to) \ {i}, op.slot, body)
      sites == {j \in Sites(m) : Within(j, cut)}
      new   == NameIn(m, to, t[i].name)
      q     == IF new = m.qn[i] THEN p ELSE MapName(p, m.qn[i], new)
      r     == Put(Consume(q, cut.start, cut.end), cut.start, cut.end, <<>>, {})
  IN  IF to = i \/ i \in m.around[to] THEN Refuse(p, "into own subtree")
      ELSE [r EXCEPT !.splices = Append(@, put),
                     !.carried = IF sites = {} THEN @
                       ELSE Append(@, [at |-> put.start, text |-> put.text,
                              sites |-> {[at |-> j - i, qn |-> m.qn[m.target[j]]] :
                                           j \in sites}])]

\* The whole extent gives way to one member without a body.  If its name is
\* another one the sites outside that no earlier operation speaks for follow.
PlanReplace(p, t, m, op) ==
  LET i   == At(t, op.of)
      cut == Extent(m, i)
      q   == Put(Consume(p, cut.start, cut.end), cut.start, cut.end,
                 <<Open(op.of, op.name), Semi>>, {})
      new == NameIn(m, m.owner[i], op.name)
  IN  IF op.name = t[i].name THEN q
      ELSE Respell(MapName(q, m.qn[i], new), t,
                   {j \in SpelledAs(t, m, i) : ~Speaks(q, j)}, new)

\* A reference is written anew as its target's qualified name.
PlanRetarget(p, t, m, op) ==
  LET first == HeadAt(t, op.of)
      last  == LastOf(t, first)
      qn    == m.qn[At(t, op.to)]
  IN  Put(Consume(p, first - 1, last), first - 1, last, Reference(op.of, qn),
          {[at |-> Len(qn) - 1, qn |-> qn, newLeaf |-> FALSE]})

Plan(p, t, m, op) ==
  IF p.refused # "no" THEN p
  ELSE CASE op.op = "rename"   -> PlanRename(p, t, m, op)
         [] op.op = "remove"   -> PlanRemove(p, t, m, op)
         [] op.op = "insert"   -> PlanInsert(p, t, m, op)
         [] op.op = "move"     -> PlanMove(p, t, m, op)
         [] op.op = "replace"  -> PlanReplace(p, t, m, op)
         [] op.op = "retarget" -> PlanRetarget(p, t, m, op)

\* rename_collisions: a rename to a name that a sibling keeps, or that an
\* earlier rename of the batch gave one, refuses the batch before planning.
NameTaken(t, m, ops) ==
  LET renames == {k \in DOMAIN ops : ops[k].op = "rename"}
      of(k)   == At(t, ops[k].of)
      keep    == {i \in Opens(t) : \A k \in renames : of(k) # i}
  IN  \E k \in renames :
        \/ \E i \in keep : m.owner[i] = m.owner[of(k)] /\ t[i].name = ops[k].name
        \/ \E l \in renames : /\ l < k
                              /\ ops[l].name = ops[k].name
                              /\ m.owner[of(l)] = m.owner[of(k)]

Planned(t, m, ops) ==
  IF NameTaken(t, m, ops) THEN Refuse(NoPlan, "name taken")
  ELSE LET after[k \in 0 .. Len(ops)] ==
             IF k = 0 THEN NoPlan ELSE Plan(after[k - 1], t, m, ops[k])
       IN  after[Len(ops)]

(***************************************************************************)
(* Commit.                                                                  *)
(***************************************************************************)
\* map_qn: what the first entry for the name says, or the name as it is, but
\* for the part that names its owner, which is mapped in turn.  Gives up at
\* depth 64 in the code, where no name of these texts gets.
DepthLimit == 8

EntryOf(mapped, qn) ==
  LET entry == {k \in DOMAIN mapped : mapped[k][1] = qn}
  IN  IF entry = {} THEN qn ELSE mapped[Min(entry)][2]

\* The names that are mapped on the way, of the element and its owners.
Asked(mapped, qn) ==
  LET asked[d \in 0 .. DepthLimit + 1] ==
        IF d = 0 THEN qn
        ELSE IF asked[d - 1] = <<>> THEN <<>> ELSE Front(EntryOf(mapped, asked[d - 1]))
  IN  asked

MapQnEntryAsIs(mapped, qn) ==
  LET asked == Asked(mapped, qn)
      new[d \in 0 .. DepthLimit + 1] ==
        IF d > DepthLimit \/ asked[d] = <<>> THEN asked[d]
        ELSE IF \E k \in DOMAIN mapped : mapped[k][1] = asked[d]
        THEN EntryOf(mapped, asked[d])
        ELSE Append(new[d + 1], Last(asked[d]))
  IN  new[0]

MapQn(mapped, qn) ==
  LET asked == Asked(mapped, qn)
      new[d \in 0 .. DepthLimit + 1] ==
        IF d > DepthLimit \/ asked[d] = <<>> THEN asked[d]
        ELSE Append(new[d + 1], Last(EntryOf(mapped, asked[d])))
  IN  new[0]

\* The qualified name a site over this span names in the new model.
NoName == <<>>
NamedBy(m, start, end) ==
  IF end = start + 1 /\ end \in Sites(m) THEN m.qn[m.target[end]] ELSE NoName

\* Check 1: sites no operation speaks for, found again where the splices
\* around them moved them.
UntouchedBroken(p, s, m, new) ==
  \E i \in Sites(m) :
    LET start == Shift(s, i - 1, FALSE)
        end   == Shift(s, i, TRUE)
    IN  /\ ~Speaks(p, i)
        /\ \A k \in DOMAIN s : ~(s[k].start = i - 1 /\ s[k].end = i)
        /\ start # Inside /\ end # Inside
        /\ NamedBy(new, start, end) # MapQn(p.mapped, m.qn[m.target[i]])

\* What a written reference must name: a respelled one already ends in the
\* new name.
Expected(p, expect) ==
  IF expect.newLeaf
  THEN Append(MapQn(p.mapped, Front(expect.qn)), Last(expect.qn))
  ELSE MapQn(p.mapped, expect.qn)

\* Check 2: the references the splices wrote.
WrittenBroken(p, t, s, new) ==
  \E k \in DOMAIN s : \E expect \in s[k].expects :
    LET start == NewStart(t, s, k) + expect.at
    IN  NamedBy(new, start, start + 1) # Expected(p, expect)

\* Check 3: the references in moved text, which is found again by its place
\* and its spelling.
CarriedNeverBroken(p, t, s, new) == FALSE

CarriedBroken(p, t, s, new) ==
  \E c \in Range(p.carried) :
    LET found == {k \in DOMAIN s : s[k].start = c.at /\ Written(s[k].text) = Written(c.text)}
    IN  /\ found # {}
        /\ \E site \in c.sites :
             LET start == NewStart(t, s, Min(found)) + site.at
             IN  NamedBy(new, start, start + 1) # MapQn(p.mapped, site.qn)

Verdict(p, t, s, m) ==
  LET new == Model(Spliced(t, s))
  IN  CASE p.refused # "no" -> p.refused
        [] p.refused = "no" /\ Overlapping(s) -> "overlap"
        [] p.refused = "no" /\ ~Overlapping(s) /\ ~Parses(Spliced(t, s)) -> "reparse failed"
        [] OTHER -> IF \/ UntouchedBroken(p, s, m, new)
                       \/ WrittenBroken(p, t, s, new)
                       \/ CarriedBroken(p, t, s, new)
                    THEN "identity" ELSE "done"

\* An element that is gone has left its name to another.
NameReused(p, t, m, t2, new) ==
  \E i \in Opens(t) : /\ \A j \in Opens(t2) : t2[j].id # t[i].id
                      /\ \E j \in Opens(t2) : new.qn[j] = MapQn(p.mapped, m.qn[i])

Commit ==
  LET p == Planned(text, resolved, batch)
      s == Deduplicated(InOrder(p.splices))
      v == Verdict(p, text, s, resolved)
      new == Model(Spliced(text, s))
  IN  /\ commits < MaxCommits
      /\ DistinctEdits => Len(s) = Len(p.splices)
      /\ NamesRetire /\ v = "done" => ~NameReused(p, text, resolved, Spliced(text, s), new)
      /\ commits' = commits + 1
      /\ batch' = <<>>
      /\ text' = IF v = "done" THEN Spliced(text, s) ELSE text
      /\ resolved' = IF v = "done" THEN new ELSE resolved
      /\ report' = [verdict |-> v, old |-> text, splices |-> IF v = "done" THEN s ELSE <<>>,
                    mapped |-> p.mapped, batch |-> batch]

(***************************************************************************)
(* The host stages operations on what its session holds.                    *)
(***************************************************************************)
Elements == {text[i].id : i \in Opens(text)}
References == {text[i].id : i \in Heads(text)}

NextFresh ==
  LET used == Elements \cup {batch[k].id : k \in {k \in DOMAIN batch : batch[k].op = "insert"}}
  IN  IF Fresh \subseteq used THEN {} ELSE {CHOOSE e \in Fresh : e \notin used}

Operations ==
       [op : {"rename", "replace"}, of : Elements, name : Names]
  \cup [op : {"remove"}, of : Elements]
  \cup [op : {"move"}, of : Elements, to : Elements, slot : {"first", "end"}]
  \cup [op : {"insert"}, id : NextFresh,
          to : Elements \cup {Root}, name : Names, slot : {"first", "end"}]
  \cup [op : {"retarget"}, of : References, to : Elements]

Stage(op) ==
  /\ commits < MaxCommits
  /\ Len(batch) < MaxOps
  /\ op.op \in Kinds
  /\ batch' = Append(batch, op)
  /\ UNCHANGED <<text, resolved, commits, report>>

Init ==
  /\ text \in Documents
  /\ resolved = Model(text)
  /\ batch = <<>>
  /\ commits = 0
  /\ report = [verdict |-> "none", old |-> <<>>, splices |-> <<>>, mapped |-> <<>>,
               batch |-> <<>>]

Next ==
  \/ \E op \in Operations : Stage(op)
  \/ Commit

Spec == Init /\ [][Next]_vars

(***************************************************************************)
(* Properties                                                               *)
(***************************************************************************)
IdOf(i, none) == IF i = 0 THEN none ELSE text[i].id

WrittenOnce(e) == Cardinality({i \in Opens(text) : text[i].id = e}) = 1

TheElements ==
  [e \in Elements |->
     LET i == At(text, e)
     IN  IF WrittenOnce(e)
         THEN [name |-> text[i].name, owner |-> IdOf(resolved.owner[i], Root)]
         ELSE [name |-> Nothing, owner |-> Root]]

TheHomes ==
  [r \in References |-> IdOf(resolved.owner[HeadAt(text, r)], Root)]

TheDenotes ==
  [r \in References |->
     IdOf(resolved.target[LastOf(text, HeadAt(text, r))], Nothing)]

Promise == INSTANCE ModelEdits WITH
             elements <- TheElements, homes <- TheHomes, denotes <- TheDenotes

\* A commit does what its operations say to the elements they name, leaves
\* every reference it does not rewrite denoting what it denoted, and else
\* changes nothing (EditBuilder's operations, Planner::commit).
KeepsItsPromise == Promise!Spec

\* What the report tells its reader of the last commit, while it stands.
Done == report.verdict = "done"

\* Splices that are replayed on a copy of the old text give the new one
\* (CommitReport::splices), and the session answers from the model of that.
MirrorsFollow ==
  Done => Replayed(report.old, report.splices) = text /\ resolved = Model(text)

\* A token no splice replaces is found again by the two ends of its span,
\* whatever was written beside it (the shift of Planner::commit).
TokensFollowed ==
  Done => \A i \in DOMAIN report.old :
    LET start == Shift(report.splices, i - 1, FALSE)
    IN  (\A k \in DOMAIN report.splices :
           ~(report.splices[k].start < i /\ i <= report.splices[k].end))
        => /\ Shift(report.splices, i, TRUE) = start + 1
           /\ text[start + 1] = report.old[i]

\* An element that is there before and after has, by the name map, the
\* qualified name it had: the id map and every check of a commit stand on it
\* (map_through).
NamesMapped ==
  Done => LET before == Model(report.old)
          IN  \A i \in Opens(report.old), j \in Opens(text) :
                report.old[i].id = text[j].id =>
                  resolved.qn[j] = MapQn(report.mapped, before.qn[i])

\* "Respell one reference site to denote `to` (...; the commit verifies it
\* resolves there)."
RetargetsHold ==
  Done => \A k \in DOMAIN report.batch :
    LET op == report.batch[k]
    IN  op.op = "retarget" /\ op.of \in References
        => TheDenotes[op.of] = op.to
=============================================================================
