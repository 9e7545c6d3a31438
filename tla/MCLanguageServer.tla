--------------------------- MODULE MCLanguageServer ---------------------------
(***************************************************************************)
(* A small workspace for TLC.  A unit's text declares a name ("def"), uses *)
(* the name another unit declares ("use"), or does not parse ("broken"; it *)
(* has an element out of place too, which only the syntax tier reports).   *)
(* A use that no unit declares is unresolved; a declaration no unit uses   *)
(* is a lint finding.                                                      *)
(***************************************************************************)
EXTENDS LanguageServer, TLC

CONSTANTS A, B

MCUnits    == {A, B}
MCTexts    == {"def", "use", "broken"}
MCConfigs  == {"absent", "bad"}
MCFindings == {"syntax", "context", "unresolved", "lint", "config"}

MCParseFindings(t)   == IF t = "broken" THEN {"syntax"} ELSE {}
MCContextFindings(t) == IF t = "broken" THEN {"context"} ELSE {}
MCModelFindings(s, u) ==
  IF s[u] = "use" /\ ~\E v \in Units \ {u} : s[v] = "def" THEN {"unresolved"} ELSE {}
MCLintFindings(s, c, u) ==
  IF s[u] = "def" /\ ~\E v \in Units \ {u} : s[v] = "use" THEN {"lint"} ELSE {}
MCConfigFindings(c) == IF c = "bad" THEN {"config"} ELSE {}

MCDiskTexts == {"def", Absent}

Symmetry == Permutations(MCUnits)
=============================================================================
