----------------------------- MODULE NameMeaning -----------------------------
(****************************************************************************)
(* What imports and references are answered with, compared with what their  *)
(* names mean in NamespaceSemantics.                                        *)
(****************************************************************************)
EXTENDS NameResolution

Semantics == INSTANCE NamespaceSemantics

\* What the imports denote once every scope was looked into.
Denotes ==
  FoldLeft(LAMBDA st, s : ImportScopes(Resolver(source), st, s), Resumed,
           [i \in 1 .. LastScope + 1 |-> i - 1]).targets

Means(result, set) == CASE result.kind = "missing"   -> set = {}
                        [] result.kind = "found"     -> set = {result.elem}
                        [] result.kind = "ambiguous" -> Cardinality(set) > 1

\* Every namespace import denotes what its name means where it is written,
\* with every other import of the workspace in force but not itself.
ImportsMean ==
  LET denotes == Denotes
  IN \A s \in Scopes : targets[s] # None =>
       \A i \in 1 .. Len(source.imports[s]) :
         LET meant == Semantics!Resolve(source, [denotes EXCEPT ![s][i] = None], {}, s,
                                        source.imports[s][i].target, FALSE)
         IN IF targets[s][i] = None THEN Cardinality(meant) # 1 ELSE meant = {targets[s][i]}

\* A reference is answered with what its name means, whatever was asked
\* before: no cycle of imports hides a member, none shows one twice.
AnswersMean ==
  LET denotes == Denotes
  IN \A query \in Queries :
       Means(Answer(source, Resumed, query).hit,
             Semantics!Resolve(source, denotes, {}, query[1], query[2], FALSE))
=============================================================================
