-------------------------- MODULE NavigationSessions --------------------------
(***************************************************************************)
(* The models a language server keeps to answer requests: Nav of            *)
(* crates/sysmlv2-lsp/src/nav.rs in a host without a file system, which      *)
(* seeds the workspace's texts and feeds the messages of its client one by  *)
(* one (PushServer of crates/sysmlv2-lsp/src/push.rs).                       *)
(*                                                                          *)
(* A model is a function of the texts it is built from, so it stands here   *)
(* as those texts, in order; an answer is what was read of them.  A text is *)
(* what lies outside the body that is worked on and the statement in it     *)
(* being typed, which may not parse.                                        *)
(*                                                                          *)
(* The library is there and readable, a client that holds hints declared    *)
(* that it can be asked to pull them again, and no handler panics.  Which   *)
(* answers for a statement may be read off a model of other texts           *)
(* (crates/sysmlv2-lsp/src/reuse.rs), what salvage makes of a text that     *)
(* does not parse, and the tables of the library are left out.              *)
(***************************************************************************)
EXTENDS Naturals, Sequences, SequencesExt, Subsequences

CONSTANTS
  LastUri,   \* the uris are 1 .. LastUri, in the order of their spelling
  Unit,      \* Unit[u]: the unit that the uri u spells (same_unit)
  Opened,    \* those the client opens documents under
  Headers,   \* what may lie outside the body
  Texts,     \* what the client may send
  Seeds,     \* what the host may seed: sequences of sources
  Formats,   \* number formats
  Members,   \* MEMBER_CACHE
  MaxVersion, MaxSeeds, MaxMessages, \* bounds on a run
  None

Uris == 1 .. LastUri

Text(header, statement) == [header |-> header, statement |-> statement]

AnyText == [header : Headers, statement : {"whole", "half"}]

Sources == [name : Uris, text : AnyText]

\* A host seeds each unit once.
ASSUME NavAssumption ==
  /\ LastUri \in Nat /\ Unit \in [Uris -> Nat] /\ Opened \subseteq Uris
  /\ Texts \subseteq AnyText
  /\ Seeds \subseteq Seq(Sources)
  /\ \A seed \in Seeds : \A i, j \in DOMAIN seed :
       Unit[seed[i].name] = Unit[seed[j].name] => i = j
  /\ Members \in Nat \ {0}
  /\ MaxVersion \in Nat \ {0} /\ MaxSeeds \in Nat /\ MaxMessages \in Nat

Document == [version : 1 .. MaxVersion, text : Texts]

Fingerprints == UNION {[D -> (1 .. MaxVersion) \X Texts] : D \in SUBSET Uris}

\* What stands for nothing is none of the things there may be.
ASSUME NoneAssumption ==
  /\ None \notin Document /\ None \notin Seeds /\ None \notin Fingerprints
  /\ None \notin [fp : Fingerprints, units : Seq(Sources), sources : Seq(Sources)]

VARIABLES
  docs,    \* Server::docs: the version and text of every open document
  seeded,  \* Nav::workspace: the seeded sources, or None
  format,  \* Nav::number_format
  nav,     \* the models kept, and what was derived from them
  moved,   \* PushServer::documents_moved
  client,  \* the hints the client holds, and the documents it was asked to
           \* pull them for again
  answer,  \* the answer to the last message, with what was asked
  seeds, messages \* how often the host acted, how often the client

navVars == <<docs, seeded, format, nav, moved, client, answer, seeds, messages>>

Source(u, text) == [name |-> u, text |-> text]

Open(d) == {u \in Uris : d[u] # None}

(***************************************************************************)
(* The texts a model is built from.                                         *)
(***************************************************************************)
\* overlay_source: in the place of the first source of the unit, else last.
Overlay(sources, u, text) ==
  LET same == {i \in DOMAIN sources : Unit[sources[i].name] = Unit[u]}
  IN  IF same = {} THEN Append(sources, Source(u, text))
      ELSE [sources EXCEPT ![CHOOSE i \in same : \A j \in same : i <= j] = Source(u, text)]

\* assemble_sources
Assemble(seed, d) ==
  LET upto[u \in 0 .. LastUri] ==
        IF u = 0 THEN IF seed = None THEN <<>> ELSE seed
        ELSE IF d[u] = None THEN upto[u - 1]
        ELSE Overlay(upto[u - 1], u, d[u].text)
  IN  upto[LastUri]

\* A wrong one: versions tell texts apart.
VersionsOf(d) == [u \in Open(d) |-> d[u].version]

\* fingerprint_of.  The code compares texts by their handles first: equal
\* handles are equal texts.
FingerprintOf(d) == [u \in Open(d) |-> <<d[u].version, d[u].text>>]

Parses(sources) == \A i \in DOMAIN sources : sources[i].text.statement = "whole"

\* The statement being typed taken out.
CutSources(sources, u) ==
  [i \in DOMAIN sources |->
     IF sources[i].name = u THEN Source(u, Text(sources[i].text.header, "cut")) ELSE sources[i]]

\* What an element in the body of u inherits depends on, but for the order of
\* the units, which no member is known by.
Around(sources, u) ==
  [i \in DOMAIN sources |->
     IF sources[i].name = u THEN Source(u, Text(sources[i].text.header, "any")) ELSE sources[i]]

Named(sources) == {sources[i].name : i \in DOMAIN sources}

(***************************************************************************)
(* The models kept.  The navigation session and the tolerant one are for a  *)
(* fingerprint, the completion session for the texts it is built from.      *)
(***************************************************************************)
Empty == [session    |-> None, \* [fp, units, sources]: its texts, and those it was built from
          failed     |-> None, \* strict_failed
          tolerant   |-> None, \* [fp, units]
          verify     |-> None, \* [units, format]
          lint       |-> None, \* the texts linted
          split      |-> None, \* [fp, units]
          completion |-> None, \* the texts
          latest     |-> "navigation", \* which of the two was built last
          rest       |-> None, \* workspace_rest: [current, others, table]
          symbols    |-> None, \* workspace_seed_symbols
          hashes     |-> <<>>, \* seed_hashes
          members    |-> <<>>] \* member_cache, most recent first

\* invalidate_navigation
InvalidateNavigation(n) ==
  [n EXCEPT !.session = None, !.failed = None, !.tolerant = None,
            !.verify = None, !.lint = None, !.split = None]

\* invalidate
Invalidate(n) == [InvalidateNavigation(n) EXCEPT !.completion = None]

\* session, for requests that plan over every reference.
Strict(n, seed, d) ==
  LET fp      == FingerprintOf(d)
      sources == Assemble(seed, d)
  IN  IF \/ n.session # None /\ n.session.fp = fp
         \/ n.failed = fp
      THEN n
      ELSE IF ~Parses(sources) THEN [n EXCEPT !.failed = fp]
      ELSE [n EXCEPT !.session = [fp |-> fp, units |-> sources, sources |-> sources],
                     !.tolerant = None, !.latest = "navigation",
                     !.verify = None, !.lint = None, !.split = None]

Built(n, d) == n.session # None /\ n.session.fp = FingerprintOf(d)

\* read_session, for requests that show and jump: while the strict session
\* does not build another one takes its place.
Tolerated(n, seed, d) ==
  LET fp == FingerprintOf(d)
  IN  IF n.tolerant # None /\ n.tolerant.fp = fp THEN n
      ELSE [n EXCEPT !.session = None, !.verify = None, !.lint = None, !.split = None,
                     !.tolerant = [fp |-> fp, units |-> Assemble(seed, d)]]

\* completion_session
Completing(n, sources) ==
  IF n.completion = sources THEN n
  ELSE [n EXCEPT !.completion = sources, !.latest = "completion"]

\* ensure_verify
Verified(n) ==
  IF n.verify # None THEN n
  ELSE [n EXCEPT !.verify = [units |-> n.session.units, format |-> format]]

(***************************************************************************)
(* Symbols and inherited members, kept apart from the models.               *)
(***************************************************************************)
RestKey(d, u) ==
  [current |-> u, others |-> [v \in Open(d) \ {u} |-> d[v].text]]

\* Every other open document, and the seeded sources that are not open.
RestTable(symbols, d, u) ==
  {Source(v, d[v].text) : v \in Open(d) \ {u}}
    \cup {s \in Range(symbols) : s.name \notin Open(d)}

\* all_workspace_symbols: the part that stands below the document u.
Resting(n, seed, d, u) ==
  LET key     == RestKey(d, u)
      symbols == IF n.symbols = None THEN seed ELSE n.symbols
  IN  IF n.rest # None /\ n.rest.key = key THEN n
      ELSE IF symbols = None THEN [n EXCEPT !.rest = [key |-> key, table |-> RestTable(<<>>, d, u)]]
      ELSE [n EXCEPT !.symbols = symbols,
                     !.rest = [key |-> key, table |-> RestTable(symbols, d, u)]]

\* member_key
MemberKey(n, d, u) ==
  [of |-> u, header |-> d[u].text.header, others |-> RestKey(d, u).others,
   unopened |-> Only(n.hashes, {s \in Range(n.hashes) : s.name \notin Open(d)})]

\* The built models a member may be read off, the most recent first:
\* outside_unchanged compares what they were built from with the texts now.
Readable(n, now, u) ==
  LET navigation == IF n.session = None THEN <<>> ELSE <<n.session>>
      completion == IF n.completion = None THEN <<>>
                    ELSE <<[units |-> n.completion, sources |-> n.completion]>>
      built      == IF n.latest = "navigation" THEN navigation \o completion
                                               ELSE completion \o navigation
  IN  Only(built, {b \in Range(built) : Around(b.sources, u) = Around(now, u)})

Remember(n, key, found) ==
  LET others == Only(n.members, {m \in Range(n.members) : m.key # key})
      all    == <<[key |-> key, found |-> found]>> \o others
  IN  [n EXCEPT !.members = SubSeq(all, 1, IF Len(all) < Members THEN Len(all) ELSE Members)]

\* inherited_members and read_inherited
Inherited(n, seed, d, u) ==
  LET key      == MemberKey(n, d, u)
      known    == Only(n.members, {m \in Range(n.members) : m.key = key})
      now      == Assemble(seed, d)
      readable == Readable(n, now, u)
      cut      == CutSources(now, u)
  IN  IF known # <<>> THEN Remember(n, key, known[1].found)
      ELSE IF readable # <<>> THEN Remember(n, key, Range(Around(readable[1].units, u)))
      ELSE Remember(Completing(n, cut), key, Range(Around(cut, u)))

(***************************************************************************)
(* The host seeds the workspace.                                            *)
(***************************************************************************)
\* overlaid: a document overlays the first source of its unit.
OverlaidBy(uris, units, i) ==
  \E u \in uris : /\ Unit[u] = Unit[units[i].name]
                  /\ \A j \in 1 .. i - 1 : Unit[units[j].name] # Unit[u]

SameNames(units) ==
  seeded # None /\ [i \in DOMAIN units |-> units[i].name]
                     = [i \in DOMAIN seeded |-> seeded[i].name]

\* reseeded_units
Reseeded(units) == {i \in DOMAIN units : units[i] # seeded[i]}

\* A wrong one: a failed build holds no texts, so it is not asked.
OverlaidWhereverBuilt(changed, units) ==
  LET held == {Open(docs)}
                \cup {DOMAIN m.fp : m \in {nav.session, nav.tolerant} \ {None}}
  IN  \A i \in changed, uris \in held : OverlaidBy(uris, units, i)

\* overlaid_wherever_held: the documents now, and those of every fingerprint.
OverlaidWhereverHeld(changed, units) ==
  LET held == {Open(docs)}
                \cup {DOMAIN m.fp : m \in {nav.session, nav.tolerant} \ {None}}
                \cup {DOMAIN fp : fp \in {nav.failed} \ {None}}
  IN  \A i \in changed, uris \in held : OverlaidBy(uris, units, i)

\* The seeded units changed beneath open documents only.
Reseed(units, changed) ==
  LET beneath == nav.rest # None /\ \A i \in changed :
                   units[i].name \in {nav.rest.key.current} \cup DOMAIN nav.rest.key.others
  IN  IF changed = {} THEN nav
      ELSE [nav EXCEPT !.symbols = None, !.hashes = units,
                       !.rest = IF beneath THEN @ ELSE None]

\* PushServer::send_refreshes: the client will pull the hints of every open
\* document again.
AskedToRefresh == [client EXCEPT !.asked = Open(docs)]

Host == /\ seeds < MaxSeeds
        /\ seeds' = seeds + 1
        /\ answer' = None
        /\ UNCHANGED <<docs, messages>>

\* A wrong one: a client is not told of a unit beneath an open document.
TellsWhenDropped(units) ==
  LET changed == Reseeded(units)
      current == SameNames(units) /\ OverlaidWhereverHeld(changed, units)
  IN  /\ Host
      /\ seeded' = units
      /\ nav' = IF current THEN Reseed(units, changed)
                ELSE [InvalidateNavigation(nav) EXCEPT
                        !.symbols = None, !.rest = None, !.hashes = units]
      /\ client' = IF current THEN client ELSE AskedToRefresh
      /\ moved' = FALSE
      /\ UNCHANGED format

\* Nav::set_workspace_sources, and PushServer's around it.
SetWorkspaceSources(units) ==
  LET changed == Reseeded(units)
      current == SameNames(units) /\ OverlaidWhereverHeld(changed, units)
      told    == moved \/ ~current \/ changed # {}
  IN  /\ Host
      /\ seeded' = units
      /\ nav' = IF current THEN Reseed(units, changed)
                ELSE [InvalidateNavigation(nav) EXCEPT
                        !.symbols = None, !.rest = None, !.hashes = units]
      /\ client' = IF told THEN AskedToRefresh ELSE client
      /\ moved' = IF told THEN FALSE ELSE moved
      /\ UNCHANGED format

\* set_number_format
SetNumberFormat(f) ==
  /\ Host
  /\ f # format
  /\ format' = f
  /\ nav' = [nav EXCEPT !.verify = None]
  /\ client' = AskedToRefresh
  /\ moved' = FALSE
  /\ UNCHANGED seeded

\* invalidate_sessions
InvalidateSessions ==
  /\ Host
  /\ nav' = Invalidate(nav)
  /\ client' = AskedToRefresh
  /\ moved' = FALSE
  /\ UNCHANGED <<seeded, format>>

(***************************************************************************)
(* The client's documents.                                                  *)
(***************************************************************************)
Message == /\ messages < MaxMessages
           /\ messages' = messages + 1
           /\ UNCHANGED <<seeded, format, seeds>>

Moves(u, document) ==
  /\ Message
  /\ docs' = [docs EXCEPT ![u] = document]
  /\ moved' = TRUE
  /\ answer' = None
  /\ UNCHANGED nav

DidOpen(u, text) ==
  /\ docs[u] = None
  /\ Moves(u, [version |-> 1, text |-> text])
  /\ UNCHANGED client

DidChange(u, text) ==
  /\ docs[u] # None
  /\ docs[u].version < MaxVersion
  /\ Moves(u, [version |-> docs[u].version + 1, text |-> text])
  /\ UNCHANGED client

DidClose(u) ==
  /\ docs[u] # None
  /\ Moves(u, None)
  /\ client' = [client EXCEPT !.held[u] = <<>>, !.asked = @ \ {u}]

(***************************************************************************)
(* The client's requests.                                                   *)
(***************************************************************************)
Answered(to, u, given) == answer' = [to |-> to, of |-> u, given |-> given]

Asks(u) == /\ docs[u] # None
           /\ Message
           /\ UNCHANGED <<docs, moved>>

Holds(n, u) == Built(n, docs) /\ u \in Named(n.session.units)

\* Inlay hints and code lenses.
Hints(u) ==
  LET n     == Strict(nav, seeded, docs)
      given == IF Holds(n, u)
               THEN [units |-> n.session.units, ranges |-> Verified(n).verify] ELSE None
  IN  /\ Asks(u)
      /\ nav' = IF Holds(n, u) THEN Verified(n) ELSE n
      /\ client' = [client EXCEPT !.held[u] = <<given>>, !.asked = @ \ {u}]
      /\ Answered("hints", u, given)

\* Fixes of lint findings: lint_unit.
LintFixes(u) ==
  LET n      == Strict(nav, seeded, docs)
      linted == IF n.lint = None THEN n.session.units ELSE n.lint
  IN  /\ Asks(u)
      /\ nav' = IF Built(n, docs) THEN [n EXCEPT !.lint = linted] ELSE n
      /\ Answered("lint", u, IF Holds(n, u) THEN linted ELSE None)
      /\ UNCHANGED client

\* split_actions, of the one package there is.
SplitActions(u) ==
  LET n    == Strict(nav, seeded, docs)
      plan == IF n.split # None /\ n.split.fp = n.session.fp THEN n.split
              ELSE [fp |-> n.session.fp, units |-> n.session.units]
  IN  /\ Asks(u)
      /\ nav' = IF Holds(n, u) THEN [n EXCEPT !.split = plan] ELSE n
      /\ Answered("split", u, IF Holds(n, u) THEN plan.units ELSE None)
      /\ UNCHANGED client

\* Hover, definition, highlights.
Read(u) ==
  LET n == Strict(nav, seeded, docs)
      t == Tolerated(n, seeded, docs)
  IN  /\ Asks(u)
      /\ nav' = IF Built(n, docs) THEN n ELSE t
      /\ Answered("read", u, IF Built(n, docs) THEN n.session.units ELSE t.tolerant.units)
      /\ UNCHANGED client

\* Completion: names of the workspace, inherited members, and what is read
\* off a model without the statement.
Symbols(u) ==
  LET n == Resting(nav, seeded, docs, u)
  IN  /\ Asks(u)
      /\ nav' = n
      /\ Answered("symbols", u, [own |-> docs[u].text, rest |-> n.rest.table])
      /\ UNCHANGED client

InheritedMembers(u) ==
  LET n == Inherited(nav, seeded, docs, u)
  IN  /\ Asks(u)
      /\ u \in Named(Assemble(seeded, docs))
      /\ nav' = n
      /\ Answered("members", u, n.members[1].found)
      /\ UNCHANGED client

Statement(u) ==
  LET n == Completing(nav, CutSources(Assemble(seeded, docs), u))
  IN  /\ Asks(u)
      /\ nav' = n
      /\ Answered("statement", u, n.completion)
      /\ UNCHANGED client

\* What a commit in the session writes: here, outside the body.
Committed(sources) ==
  [i \in DOMAIN sources |->
     Source(sources[i].name, Text(CHOOSE h \in Headers : h # sources[i].text.header,
                                  sources[i].text.statement))]

\* A wrong one: the session is kept, as what the client is going to have.
RenameAhead(u) ==
  LET n == Strict(nav, seeded, docs)
  IN  /\ Asks(u)
      /\ nav' = IF Built(n, docs)
                THEN [n EXCEPT !.session.units = Committed(n.session.units)] ELSE n
      /\ Answered("rename", u, IF Built(n, docs) THEN n.session.units ELSE None)
      /\ UNCHANGED client

\* Rename and "Minimize qualified names" commit in the session, which is then
\* ahead of the documents: both drop it, also when they were refused.
Rename(u) ==
  LET n == Strict(nav, seeded, docs)
      m == IF Built(n, docs)
           THEN [n EXCEPT !.session.units = Committed(n.session.units)] ELSE n
  IN  /\ Asks(u)
      /\ nav' = Invalidate(m)
      /\ Answered("rename", u, IF Built(n, docs) THEN n.session.units ELSE None)
      /\ UNCHANGED client

\* The server is initialised, with the units seeded before that if any were.
NavInit == /\ docs = [u \in Uris |-> None]
           /\ seeded \in Seeds \cup {None}
           /\ format \in Formats
           /\ nav = [Empty EXCEPT !.hashes = IF seeded = None THEN <<>> ELSE seeded]
           /\ moved = FALSE
           /\ client = [held |-> [u \in Uris |-> <<>>], asked |-> {}]
           /\ answer = None
           /\ messages = 0
           /\ seeds = 0

NavNext ==
  \/ \E units \in Seeds : SetWorkspaceSources(units)
  \/ \E f \in Formats : SetNumberFormat(f)
  \/ InvalidateSessions
  \/ \E u \in Opened, text \in Texts : DidOpen(u, text) \/ DidChange(u, text)
  \/ \E u \in Opened : \/ DidClose(u)
                       \/ Hints(u) \/ LintFixes(u) \/ SplitActions(u)
                       \/ Read(u) \/ Symbols(u) \/ InheritedMembers(u) \/ Statement(u)
                       \/ Rename(u)

NavSpec == NavInit /\ [][NavNext]_navVars

(***************************************************************************)
(* Properties.                                                              *)
(***************************************************************************)
\* What a server that keeps nothing between requests would answer.
Fresh(to, u) ==
  LET now    == Assemble(seeded, docs)
      parses == Parses(now) /\ u \in Named(now)
      seed   == IF seeded = None THEN <<>> ELSE seeded
  IN  CASE to = "hints" -> IF parses
             THEN [units |-> now, ranges |-> [units |-> now, format |-> format]] ELSE None
        [] to \in {"lint", "split"} -> IF parses THEN now ELSE None
        [] to = "rename"    -> IF Parses(now) THEN now ELSE None
        [] to = "read"      -> now
        [] to = "statement" -> CutSources(now, u)
        [] to = "members"   -> Range(Around(now, u))
        [] to = "symbols"   -> [own |-> docs[u].text, rest |-> RestTable(seed, docs, u)]

\* What is derived from the navigation session goes with it, and it goes
\* when a tolerant one takes its place: two models are held, never three.
NavTypeOK ==
  /\ \A u \in Uris : docs[u] # None => docs[u].version \in 1 .. MaxVersion /\ docs[u].text \in Texts
  /\ seeded \in Seeds \cup {None}
  /\ format \in Formats
  /\ moved \in BOOLEAN
  /\ client.asked \subseteq Open(docs)
  /\ nav.session = None => nav.verify = None /\ nav.lint = None /\ nav.split = None
  /\ nav.session = None \/ nav.tolerant = None
  /\ Len(nav.members) <= Members

\* Whatever was kept between requests, over edits, re-seeds and renames, an
\* answer is the one that a server started now would give.
AnswersCurrent == answer # None => answer.given = Fresh(answer.to, answer.of)

\* Unless documents moved since the client was last asked to pull again, the
\* hints it holds and has not been asked for again are current.
HintsCurrent ==
  ~moved => \A u \in Open(docs) :
    client.held[u] \in {<<>>, <<Fresh("hints", u)>>} \/ u \in client.asked
=============================================================================
