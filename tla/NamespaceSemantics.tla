-------------------------- MODULE NamespaceSemantics --------------------------
(****************************************************************************)
(* What a name denotes, without caches, marks, passes or an order: given    *)
(* what every namespace import denotes, a name is visible in a scope when a *)
(* walk along imports reaches a scope that has it, and a scope that has it  *)
(* hides what it imports.                                                   *)
(*                                                                          *)
(* A result is a set of scopes: none is a missing name, one is what the     *)
(* name denotes, several are an ambiguous name.                             *)
(****************************************************************************)
EXTENDS Naturals, Sequences, FiniteSets

CONSTANTS Scopes, Parent, NameOf, Private, User, None

Visible(access, isPublic) == access = "all" \/ isPublic

\* The members of s an importer with this access may see.
Inner(src, s, access) ==
  {c \in Scopes : Parent[c] = s /\ Visible(access, c \notin Private) /\ (c \in User => src.user)}

RECURSIVE Around(_)
\* A scope and the scopes it is nested in.
Around(s) == {s} \cup IF Parent[s] = None THEN {} ELSE Around(Parent[s])

\* The scopes an importer with this access may walk down to from s.
RECURSIVE Tree(_, _, _)
Tree(src, s, access) == {s} \cup UNION {Tree(src, c, access) : c \in Inner(src, s, access)}

\* Where one import takes a walk that came with some access.
Steps(src, denotes, s, access) ==
  UNION {LET entry == src.imports[s][i]
             into  == IF entry.all THEN "all" ELSE "public"
             there == denotes[s][i]
         IN IF there = None \/ ~Visible(access, entry.public) THEN {}
            ELSE IF entry.recursive THEN Tree(src, there, into) \X {into}
            ELSE {<<there, into>>}
         : i \in 1 .. Len(src.imports[s])}

RECURSIVE Resolve(_, _, _, _, _, _), Walk(_, _, _, _, _)

\* Several are as good as all of them: no later segment decides between them.
Members(src, denotes, busy, from, elems, rest, lastAll) ==
  LET Step[k \in 0 .. Len(rest)] ==
        IF k = 0 THEN elems
        ELSE IF Cardinality(Step[k - 1]) # 1 THEN Step[k - 1]
        ELSE LET s == CHOOSE s \in Step[k - 1] : TRUE
                 segments == SubSeq(rest, k, Len(rest))
             IN Walk(src, denotes, busy,
                     <<s, IF s \in Around(from) \/ (lastAll /\ Len(segments) = 1)
                          THEN "all" ELSE "public">>,
                     Head(segments))
  IN Step[Len(rest)]

\* What a scope has of its own: the members it owns, and if there is none, the
\* members it imports one by one.
Own(src, denotes, busy, s, name, access) ==
  LET owned   == {c \in Inner(src, s, access) : NameOf[c] = name}
      entries == {i \in 1 .. Len(src.members[s]) :
                    /\ src.members[s][i].target[Len(src.members[s][i].target)] = name
                    /\ Visible(access, src.members[s][i].public)
                    /\ <<s, i>> \notin busy}
  IN IF owned # {} THEN owned
     ELSE UNION {Resolve(src, denotes, busy \cup {<<s, i>>}, s, src.members[s][i].target,
                         src.members[s][i].all) : i \in entries}

\* All that walks from a place (a scope and an access) come to.
Walk(src, denotes, busy, place, name) ==
  LET Here(p) == Own(src, denotes, busy, p[1], name, p[2])
      RECURSIVE Places(_)
      Places(reached) ==
        LET further == reached \cup UNION {Steps(src, denotes, p[1], p[2]) :
                                             p \in {p \in reached : Here(p) = {}}}
        IN IF further = reached THEN reached ELSE Places(further)
  IN UNION {Here(p) : p \in Places({place})}

\* The first scope outward that sees the first segment decides.
Resolve(src, denotes, busy, s, qn, lastAll) ==
  LET RECURSIVE Outward(_)
      Outward(t) ==
        LET seen == Walk(src, denotes, busy, <<t, "all">>, Head(qn))
        IN IF seen # {} \/ Parent[t] = None THEN seen ELSE Outward(Parent[t])
  IN Members(src, denotes, busy, s, Outward(s), Tail(qn), lastAll)
=============================================================================
