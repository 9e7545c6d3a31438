---------------------------- MODULE NameResolution ----------------------------
(****************************************************************************)
(* Name resolution over namespaces and their imports: resolve_result,       *)
(* lookup_at, lookup_body, lookup_recursive and import_scopes of            *)
(* crates/sysmlv2-model/src/json.rs.                                        *)
(*                                                                          *)
(* What a scope's namespace imports denote is computed by the first lookup  *)
(* that comes through the scope and kept until the caches are reset         *)
(* (import_cache, import_targets).  Within a lookup, a scope is visited     *)
(* once per access: the marks carry the number of the query, so that a      *)
(* query nested in another one has marks of its own.                        *)
(*                                                                          *)
(* A scope stands for the package that owns it.  Aliases, specialization,   *)
(* filters, `$::` and the lookups that change the mode (probes, excluded    *)
(* features, declared names only) are left out.                             *)
(****************************************************************************)
EXTENDS Integers, Sequences, FiniteSets, SequencesExt, Subsequences

CONSTANTS
  LastScope,  \* the scopes are 0 .. LastScope; scope 0 is the root namespace
  Parent,     \* Parent[s]: the scope s is in; None for the root
  NameOf,     \* NameOf[s]: the name s is declared with
  Private,    \* the scopes whose owning membership is private
  User,       \* the scopes of the user's units; the others are the library's
  Sources,    \* what may be built: [imports, members, user], sequences of import
              \* entries for every scope and whether the user's units are there
  Queries,    \* what a reference may ask: pairs of a scope and a name
  MaxDepth,   \* MAX_RESOLUTION_DEPTH
  None

Scopes == 0 .. LastScope

Names == Range(NameOf)

Paths == Seq(Names) \ {<<>>}

\* An import as it is written.
Imports == [target : Paths, public : BOOLEAN, all : BOOLEAN, recursive : BOOLEAN]

\* ImportedScope: what a namespace import denotes, as lookups read it.
Entry == [scope : Scopes, public : BOOLEAN, all : BOOLEAN, recursive : BOOLEAN]

\* What may be built: the entries of every scope.
Workspaces == [imports : [Scopes -> Seq(Imports)], members : [Scopes -> Seq(Imports)],
               user : BOOLEAN]

\* A scope is made inside one that is there (push_scope).
ASSUME ScopesAssumption ==
  /\ LastScope \in Nat /\ MaxDepth \in Nat
  /\ Parent \in [Scopes -> Scopes \cup {None}]
  /\ \A s \in Scopes : Parent[s] # None => Parent[s] < s
  /\ DOMAIN NameOf = Scopes
  /\ None \notin Scopes \cup Seq(Entry)

\* A name that is referred to has a segment at least.
ASSUME WorkspaceAssumption ==
  /\ Sources \subseteq Workspaces
  /\ Queries \subseteq Scopes \X Paths

VARIABLES
  source,  \* what is built
  cache,   \* import_cache: the entries of a scope, or None
  targets, \* import_targets: what every namespace import of a scope denotes
  missed   \* import_misses: the root names that filling a scope missed

vars == <<source, cache, targets, missed>>

Missing   == [kind |-> "missing"]
Ambiguous == [kind |-> "ambiguous"]
Found(s)  == [kind |-> "found", elem |-> s]

\* merge_lookup, between packages.
Merge(left, right) ==
  IF Ambiguous \in {left, right} THEN Ambiguous
  ELSE IF left = Missing THEN right
  ELSE IF right = Missing \/ left = right THEN left
  ELSE Ambiguous

Admits(access, isPublic) == access = "all" \/ isPublic

\* The scopes from s outward, and then None.
Outward(s) ==
  LET out[k \in 0 .. LastScope] ==
        IF k = 0 THEN s
        ELSE LET last == out[k - 1] IN IF last = None THEN None ELSE Parent[last]
  IN  out

\* scope_is_within
Within(s, ancestor) == \E k \in 0 .. LastScope : Outward(s)[k] = ancestor

\* recursive_subs: the namespaces nested in s, in order.
Nested(src, s, access) ==
  Only(Upto(LastScope), {c \in 1 .. LastScope : /\ Parent[c] = s
                                                /\ Admits(access, c \notin Private)
                                                /\ c \in User => src.user})

\* binding_result: what s owns under a name.
Owned(src, s, name, access) ==
  LET all   == Nested(src, s, access)
      named == {k \in DOMAIN all : NameOf[all[k]] = name}
  IN CASE named = {}                                    -> Missing
       [] \E k \in named : named = {k}                  -> Found(all[CHOOSE k \in named : TRUE])
       [] \E k, l \in named : k # l                     -> Ambiguous

\* The visit mark of an access.
Mode(access, semantic) == (IF access = "all" THEN 2 ELSE 0) + (IF semantic THEN 3 ELSE 0)

(****************************************************************************)
(* A computation carries the caches, the visit marks, the number of the     *)
(* last query, the member imports in progress, and the root names missed    *)
(* (current_misses) with those of the fills it interrupted (fill_frames).   *)
(* `missed` has the number of the fill of a scope being filled, 0 of any    *)
(* other.  `filling` (the scopes whose entries are being computed,          *)
(* innermost last) and `torn` (an unfinished scope was read while another   *)
(* one was computed) are read by properties only.                           *)
(****************************************************************************)
Cold == [cache |-> [s \in Scopes |-> None], targets |-> [s \in Scopes |-> None],
         visit |-> [s \in Scopes |-> [mode \in 0 .. 5 |-> [stamp |-> 0, hit |-> Missing]]],
         missed |-> [s \in Scopes |-> [fill |-> 0, names |-> {}]], misses |-> {}, frames |-> <<>>,
         stamp |-> 0, active |-> {},
         filling |-> <<>>, torn |-> FALSE, endless |-> FALSE]

Resumed == [Cold EXCEPT !.cache = cache, !.targets = targets, !.missed = missed]

Results == {Missing, Ambiguous} \cup {Found(s) : s \in Scopes}

Computations ==
  [cache : [Scopes -> Seq(Entry) \cup {None}],
   targets : [Scopes -> Seq(Scopes \cup {None}) \cup {None}],
   visit : [Scopes -> [0 .. 5 -> [stamp : Nat, hit : Results]]],
   missed : [Scopes -> [fill : Nat, names : SUBSET Names]], misses : SUBSET Names,
   frames : Seq(SUBSET Names), stamp : Nat, active : SUBSET (Scopes \X (Nat \ {0})),
   filling : Seq(Scopes), torn : BOOLEAN, endless : BOOLEAN]

NextStamp(st) == [st EXCEPT !.stamp = @ + 1]

(****************************************************************************)
(* The functions of json.rs call each other.  Those that close a circle are *)
(* calls of `go`, a function the operators take: the resolver of one level  *)
(* of nesting less.                                                         *)
(****************************************************************************)
Lookups ==
  [fn : {"lookup", "below"}, st : Computations, s : Scopes, name : Names, depth : Nat,
   stamp : Nat, access : {"all", "public"}, semantic : BOOLEAN]

Resolutions ==
  [fn : {"resolve"}, st : Computations, s : Scopes, qn : Paths, depth : Nat, lastAll : BOOLEAN]

Fills == [fn : {"fill"}, st : Computations, s : Scopes]

Calls == Lookups \cup Resolutions \cup Fills

LookupCall(st, s, name, depth, stamp, access, semantic) ==
  [fn |-> "lookup", st |-> st, s |-> s, name |-> name, depth |-> depth, stamp |-> stamp,
   access |-> access, semantic |-> semantic]

BelowCall(st, s, name, depth, stamp, access) ==
  [LookupCall(st, s, name, depth, stamp, access, TRUE) EXCEPT !.fn = "below"]

ResolveCall(st, s, qn, depth, lastAll) ==
  [fn |-> "resolve", st |-> st, s |-> s, qn |-> qn, depth |-> depth, lastAll |-> lastAll]

FillCall(st, s) == [fn |-> "fill", st |-> st, s |-> s]

\* resolve_rest_result: the later segments are members of what the earlier
\* ones denote; each is a query of its own.
RestStep(go, origin, rest, depth, lastAll, last, k) ==
  LET access == IF Within(origin, last.hit.elem) \/ (lastAll /\ k = Len(rest))
                THEN "all" ELSE "public"
      next   == NextStamp(last.st)
  IN IF last.hit.kind # "found" THEN last
     ELSE go[LookupCall(next, last.hit.elem, rest[k], depth + k, next.stamp, access, FALSE)]

ResolveRest(go, st, origin, elem, rest, depth, lastAll) ==
  LET after[k \in 0 .. Len(rest)] ==
        IF k = 0 THEN [st |-> st, hit |-> Found(elem)]
        ELSE RestStep(go, origin, rest, depth, lastAll, after[k - 1], k)
  IN after[Len(rest)]

\* The first segment is looked up in the scope and in the scopes around it,
\* until it is found or ambiguous.
OutStep(go, name, depth, stamp, last) ==
  LET found == go[LookupCall(last.st, last.at, name, depth, stamp, "all", TRUE)]
  IN IF last.at = None \/ last.hit # Missing THEN last
     ELSE [st |-> found.st, hit |-> found.hit, at |-> Parent[last.at]]

WalkOut(go, st, s, name, depth, stamp) ==
  LET after[k \in 0 .. LastScope + 1] ==
        IF k = 0 THEN [st |-> st, hit |-> Missing, at |-> s]
        ELSE OutStep(go, name, depth, stamp, after[k - 1])
  IN after[LastScope + 1]

\* A wrong one: the marks of the query that asked serve the nested one too.
ResolveOnSameMarks(go, st, s, qn, depth, lastAll) ==
  LET first == WalkOut(go, st, s, Head(qn), depth, st.stamp)
  IN IF depth > MaxDepth THEN [st |-> st, hit |-> Missing]
     ELSE IF first.hit.kind # "found" THEN [st |-> first.st, hit |-> first.hit]
     ELSE ResolveRest(go, first.st, s, first.hit.elem, Tail(qn), depth, lastAll)

ResolveResult(go, st, s, qn, depth, lastAll) ==
  LET first == WalkOut(go, NextStamp(st), s, Head(qn), depth, st.stamp + 1)
  IN IF depth > MaxDepth THEN [st |-> st, hit |-> Missing]
     ELSE IF first.hit.kind # "found" THEN [st |-> first.st, hit |-> first.hit]
     ELSE ResolveRest(go, first.st, s, first.hit.elem, Tail(qn), depth, lastAll)

(****************************************************************************)
(* The namespace imports of a scope.                                        *)
(****************************************************************************)
\* The outcomes of the entries but the i-th, as lookups read them.
Seeds(entries, outcomes, i) ==
  LET others == Only(Upto(Len(entries)),
                     {j \in 1 .. Len(entries) : j # i /\ outcomes[j] # None})
  IN [k \in 1 .. Len(others) |->
        [scope |-> outcomes[others[k]], public |-> entries[others[k]].public,
         all |-> entries[others[k]].all, recursive |-> entries[others[k]].recursive]]

\* A wrong one: an entry sees what it denoted in the pass before.
ResolveEntryThroughItself(src, go, s, step, i) ==
  LET entries == src.imports[s]
      seeded  == [step.st EXCEPT !.cache[s] = Seeds(entries, step.outcomes, 0)]
      found   == go[ResolveCall(seeded, s, entries[i].target, 0, FALSE)]
      outcome == IF found.hit.kind = "found" THEN found.hit.elem ELSE None
  IN [st |-> found.st, outcomes |-> [step.outcomes EXCEPT ![i] = outcome],
      changed |-> step.changed \/ outcome # step.outcomes[i]]

\* One pass resolves every entry with what the other ones denote so far.
ResolveEntry(src, go, s, step, i) ==
  LET entries == src.imports[s]
      seeded  == [step.st EXCEPT !.cache[s] = Seeds(entries, step.outcomes, i)]
      found   == go[ResolveCall(seeded, s, entries[i].target, 0, FALSE)]
      outcome == IF found.hit.kind = "found" THEN found.hit.elem ELSE None
  IN [st |-> found.st, outcomes |-> [step.outcomes EXCEPT ![i] = outcome],
      changed |-> step.changed \/ outcome # step.outcomes[i]]

Pass(src, go, s, st, outcomes) ==
  LET after[i \in 0 .. Len(outcomes)] ==
        IF i = 0 THEN [st |-> st, outcomes |-> outcomes, changed |-> FALSE]
        ELSE ResolveEntry(src, go, s, after[i - 1], i)
  IN after[Len(outcomes)]

\* Passes are made until one changes nothing, one more than there are entries
\* at most.
Unresolved(n) == [j \in 1 .. n |-> None]

Repeated(src, go, s, last) ==
  IF last.changed THEN Pass(src, go, s, last.st, last.outcomes) ELSE last

Passes(src, go, s, st) ==
  LET n == Len(src.imports[s])
      after[k \in 0 .. n + 1] ==
        IF k = 0 THEN [st |-> st, outcomes |-> Unresolved(n), changed |-> TRUE]
        ELSE Repeated(src, go, s, after[k - 1])
  IN after[n + 1]

\* begin_fill: the misses from here on are the entry's own.
Begun(st, s) ==
  [st EXCEPT !.cache[s] = <<>>, !.missed[s] = [fill |-> Len(st.frames) + 1, names |-> {}],
             !.frames = Append(@, st.misses), !.misses = {},
             !.filling = Append(@, s)]

\* A wrong one: what the entries denote is recorded for the lookups only.
EndedUnrecorded(st, s, entries, outcomes) ==
  [st EXCEPT !.cache[s] = Seeds(entries, outcomes, 0),
             !.missed[s] = [fill |-> 0, names |-> st.misses],
             !.misses = @ \cup Last(st.frames), !.frames = Front(@),
             !.filling = Front(@)]

\* end_fill: they are also the misses of what the fill interrupted.
Ended(st, s, entries, outcomes) ==
  [st EXCEPT !.cache[s] = Seeds(entries, outcomes, 0), !.targets[s] = outcomes,
             !.missed[s] = [fill |-> 0, names |-> st.misses],
             !.misses = @ \cup Last(st.frames), !.frames = Front(@),
             !.filling = Front(@)]

\* A wrong one: the member imports the reference is resolving do not count.
FillInQuery(src, go, st, s) ==
  LET pass == Passes(src, go, s, Begun(st, s))
  IN [st |-> Ended(pass.st, s, src.imports[s], pass.outcomes), hit |-> Missing]

\* What the lookup that came through the scope goes on with.
Resumption(st, s, entries, pass) ==
  [st  |-> [Ended(pass.st, s, entries, pass.outcomes) EXCEPT !.active = st.active],
   hit |-> Missing]

\* import_scopes_uncached, in the mode enter_fill_mode sets up: the member
\* imports in progress do not count, nor does the depth of the lookup.
Fill(src, go, st, s) ==
  Resumption(st, s, src.imports[s], Passes(src, go, s, [Begun(st, s) EXCEPT !.active = {}]))

\* note_fill_misses: who reads an entry has missed what its fill missed, so far
\* if the fill goes on.
Noted(st, s) ==
  LET frame == st.missed[s].fill + 1
  IN IF st.missed[s].fill = 0 THEN st.missed[s].names
     ELSE IF frame \in DOMAIN st.frames THEN st.frames[frame] ELSE {}

\* A wrong one: an entry that is there is read without its misses.
ImportScopesOnly(go, st, s) ==
  IF st.cache[s] = None THEN go[FillCall(st, s)].st
  ELSE [st EXCEPT !.torn = @ \/ Contains(Front(<<None>> \o st.filling), s)]

ImportScopes(go, st, s) ==
  IF st.cache[s] = None THEN go[FillCall(st, s)].st
  ELSE [st EXCEPT !.misses = @ \cup Noted(st, s),
                  !.torn = @ \/ Contains(Front(<<None>> \o st.filling), s)]

(****************************************************************************)
(* One scope.                                                               *)
(****************************************************************************)
\* A wrong one: an entry answers for any name.
MemberStepAny(src, go, s, name, depth, access, last, i) ==
  LET member == src.members[s][i]
      hit    == go[ResolveCall([last.st EXCEPT !.active = @ \cup {<<s, i>>}], s,
                               member.target, depth + 1, member.all)]
  IN IF ~Admits(access, member.public) \/ <<s, i>> \in last.st.active THEN last
     ELSE [st |-> [hit.st EXCEPT !.active = @ \ {<<s, i>>}], hit |-> Merge(last.hit, hit.hit)]

\* `import P::X;`: an entry does not resolve its target through itself.
MemberStep(src, go, s, name, depth, access, last, i) ==
  LET member == src.members[s][i]
      hit    == go[ResolveCall([last.st EXCEPT !.active = @ \cup {<<s, i>>}], s,
                               member.target, depth + 1, member.all)]
  IN IF \/ member.target[Len(member.target)] # name
        \/ ~Admits(access, member.public)
        \/ <<s, i>> \in last.st.active
     THEN last
     ELSE [st  |-> [hit.st EXCEPT !.active = @ \ {<<s, i>>}],
           hit |-> Merge(last.hit, hit.hit)]

MemberImports(src, go, st, s, name, depth, access) ==
  LET after[i \in 0 .. Len(src.members[s])] ==
        IF i = 0 THEN [st |-> st, hit |-> Missing]
        ELSE MemberStep(src, go, s, name, depth, access, after[i - 1], i)
  IN after[Len(src.members[s])]

\* lookup_recursive: a namespace and all that is nested in it.
BelowStep(go, sub, name, depth, stamp, access, last) ==
  LET below == go[BelowCall(last.st, sub, name, depth + 1, stamp, access)]
  IN [st |-> below.st, hit |-> Merge(last.hit, below.hit)]

LookupRecursive(src, go, call) ==
  LET subs  == Nested(src, call.s, call.access)
      here  == go[LookupCall(call.st, call.s, call.name, call.depth, call.stamp, call.access, TRUE)]
      after[k \in 0 .. Len(subs)] ==
        IF k = 0 THEN here
        ELSE BelowStep(go, subs[k], call.name, call.depth, call.stamp, call.access, after[k - 1])
  IN IF call.depth > MaxDepth THEN [st |-> call.st, hit |-> Missing] ELSE after[Len(subs)]

\* The entries of a scope, in the scopes they denote.
ImportStep(go, entry, name, depth, stamp, access, last) ==
  LET into == IF entry.all THEN "all" ELSE "public"
      hit  == IF entry.recursive
              THEN go[BelowCall(last.st, entry.scope, name, depth + 1, stamp, into)]
              ELSE go[LookupCall(last.st, entry.scope, name, depth + 1, stamp, into, TRUE)]
  IN IF Admits(access, entry.public)
     THEN [st |-> hit.st, hit |-> Merge(last.hit, hit.hit)]
     ELSE last

Imported(go, st, s, name, depth, stamp, access) ==
  LET filled  == ImportScopes(go, st, s)
      entries == filled.cache[s]
      after[k \in 0 .. Len(entries)] ==
        IF k = 0 THEN [st |-> filled, hit |-> Missing]
        ELSE ImportStep(go, entries[k], name, depth, stamp, access, after[k - 1])
  IN after[Len(entries)]

\* lookup_body: each kind of membership hides the ones after it.
LookupBody(src, go, st, s, name, depth, stamp, access) ==
  LET owned   == Owned(src, s, name, access)
      members == MemberImports(src, go, st, s, name, depth, access)
  IN IF owned # Missing THEN [st |-> st, hit |-> owned]
     ELSE IF members.hit # Missing THEN members
     ELSE Imported(go, members.st, s, name, depth, stamp, access)

\* note_root_miss
RootMiss(s, name, found) ==
  IF s = 0 /\ found.hit = Missing THEN [found EXCEPT !.st.misses = @ \cup {name}] ELSE found

\* A scope being visited answers that it has no such name; one that was
\* visited answers as it did.
LookupAt(src, go, call) ==
  LET st   == call.st
      s    == call.s
      mode == Mode(call.access, call.semantic)
      mark == st.visit[s][mode]
      body == LookupBody(src, go,
                         [st EXCEPT !.visit[s][mode] = [stamp |-> call.stamp, hit |-> Missing]],
                         s, call.name, call.depth, call.stamp, call.access)
  IN RootMiss(s, call.name,
       IF call.depth > MaxDepth THEN [st |-> st, hit |-> Missing]
       ELSE IF mark.stamp = call.stamp THEN [st |-> st, hit |-> mark.hit]
       ELSE [st |-> [body.st EXCEPT !.visit[s][mode].hit = body.hit], hit |-> body.hit])

\* How deep calls nest.  A scope that is being filled is not filled again, and
\* within a fill each two calls go one deeper in the depth of the lookup.
WithinFill == 2 * MaxDepth + 5

Nesting == (LastScope + 2) * WithinFill

\* The functions, each in terms of those of one level less.
Called(src, go, call) ==
  CASE call.fn = "fill"    -> Fill(src, go, call.st, call.s)
    [] call.fn = "resolve" -> ResolveResult(go, call.st, call.s, call.qn, call.depth, call.lastAll)
    [] call.fn = "lookup"  -> LookupAt(src, go, call)
    [] call.fn = "below"   -> LookupRecursive(src, go, call)

Endless(call) == [st |-> [call.st EXCEPT !.endless = TRUE], hit |-> Missing]

Levels(src) ==
  LET level[n \in 0 .. Nesting] ==
        [call \in Calls |-> IF n = 0 THEN Endless(call) ELSE Called(src, level[n - 1], call)]
  IN level

Resolver(src) == Levels(src)[Nesting]

(****************************************************************************)
(* The references of the workspace, in the order they are resolved.         *)
(****************************************************************************)
Init == /\ source \in Sources
        /\ cache = Cold.cache
        /\ targets = Cold.targets
        /\ missed = Cold.missed

Answer(src, st, query) ==
  ResolveResult(Resolver(src), st, query[1], query[2], 0, FALSE)

Kept(st) == /\ cache' = st.cache
            /\ targets' = st.targets
            /\ missed' = st.missed
            /\ UNCHANGED source

\* A reference.
Ask(query) == Kept(Answer(source, Resumed, query).st)

\* The reference of a namespace import itself: importedNamespace.
AskImport(s) == /\ source.imports[s] # <<>>
                /\ Kept(ImportScopes(Resolver(source), Resumed, s))

\* reset_lookup_caches, between the passes over a model's references.
Reset == /\ cache' = Cold.cache
         /\ targets' = Cold.targets
         /\ missed' = Cold.missed
         /\ UNCHANGED source

Next == \/ \E query \in Queries : Ask(query)
        \/ \E s \in Scopes : AskImport(s)
        \/ Reset

Spec == Init /\ [][Next]_vars

(****************************************************************************)
(* Properties.                                                              *)
(****************************************************************************)
\* No import of a workspace depends on itself through other scopes.
Layered(src) == \A s \in Scopes : ~Fill(src, Resolver(src), Cold, s).st.torn

\* Between references every scope's entries are what its imports denote, both
\* or neither are there, and nothing is left of a fill: no placeholder, no
\* entries seeded for one of the imports (import_scopes_uncached).
TypeOK ==
  /\ \A s \in Scopes :
       \/ cache[s] = None /\ targets[s] = None
       \/ /\ targets[s] \in [1 .. Len(source.imports[s]) -> Scopes \cup {None}]
          /\ cache[s] \in Seq(Entry) /\ cache[s] = Seeds(source.imports[s], targets[s], 0)
  /\ missed \in [Scopes -> [fill : {0}, names : SUBSET Names]]

\* A result has the name that was asked for, and is not of the user's units
\* where these are not built.
Fits(src, hit, name) ==
  hit.kind = "found" => NameOf[hit.elem] = name /\ (hit.elem \in User => src.user)

\* Every reference is answered, whatever imports lead back to themselves: calls
\* never nest deeper than Nesting ("cycle safety comes from the placeholder
\* seed below and the per-query visit stamps").  It is answered with what has
\* the name it ends with, and so is every import: no lookup reads the mark that
\* another one, of another name, left on a scope.
AnswersNamed ==
  /\ \A query \in Queries :
       LET answer == Answer(source, Resumed, query)
       IN ~answer.st.endless /\ Fits(source, answer.hit, Last(query[2]))
  /\ \A s \in Scopes : targets[s] # None =>
       \A i \in 1 .. Len(source.imports[s]) : targets[s][i] # None =>
         Fits(source, Found(targets[s][i]), Last(source.imports[s][i].target))

\* What a scope's imports denote stays until the caches are reset: no fill of
\* another scope changes it ("the cache is permanent").
Permanent ==
  [][Reset \/ \A s \in Scopes : cache[s] # None => /\ cache'[s] = cache[s]
                                                  /\ targets'[s] = targets[s]]_vars

\* What the imports of a scope denote does not depend on which reference came
\* through the scope first, nor on what that reference was in the middle of.
TouchOrderIrrelevant ==
  \A s \in Scopes : targets[s] # None =>
    targets[s] = Fill(source, Resolver(source), Cold, s).st.targets[s]

\* With the user's units beside the library, whose roots have names of their
\* own, what was answered without them stands unless a root name they add was
\* missed on the way, at whatever time the entries it was read from were
\* filled.  Such answers are replayed from a recording.
ReplayStands ==
  LET joint == [source EXCEPT !.user = TRUE]
      added == {NameOf[c] : c \in {c \in User : Parent[c] = 0}}
  IN \A query \in Queries :
       LET recorded == Answer(source, Resumed, query)
       IN recorded.st.misses \cap added = {} => Answer(joint, Cold, query).hit = recorded.hit
=============================================================================
