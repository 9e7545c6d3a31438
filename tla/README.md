# A TLA+ verification project for sysml-toolkit

sysml-toolkit is a Rust implementation of the SysML v2 and KerML textual
notations: a parser and printer, a resolved model, checks and lints, expression
evaluation and SMT solving, interchange encodings, a transformation engine, a
language server, and Python, WASM and command-line hosts over them.

Two kinds of behaviour in it are hard to test. One is where threads, processes
and editors share state: the language server's diagnostics, and the cache of
prepared libraries that every process on a machine reads and writes. The other
is where something is kept or compared so as not to be computed again, and is
right only if everything that could change it is seen: the models a server
answers from, the import cache of name resolution, the handles of the bindings,
the base a delta is applied to, the text an edit batch is planned on. The
modules here model both kinds, TLC checks them on small instances, and TLAPS
proves part of it for every instance.

## Inventory

Each row names a part of the system, the state it keeps, and what makes it
correct.

| Part | State and operations | Correct when |
|---|---|---|
| `sysmlv2-syntax` | none between calls; lexer, recursive-descent parser with recovery, body-context check, printer, formatter | printing and parsing again gives the same tree; recovery always advances |
| `sysmlv2-model` graph and names (`json.rs`, `json/`) | a graph of elements, scopes, pending references; lowering, resolution, implied relationships | every reference resolves to what the scoping rules name, whatever the order of units |
| `sysmlv2-model` evaluation (`eval.rs`, `rational.rs`, `quantity.rs`) | value environments, step and depth limits | results agree with the expression semantics or are undecided |
| `sysmlv2-model` checks (`check.rs`, `check/`, `json/positional.rs`) | a list of tasks and a counter shared by threads, a fork of the model in each; in every model a positional plan made on first use, what failed attempts left behind and the memory of the last | findings do not depend on the scheduling; a plan that is read is of the present rows; an attempt that is refused would have failed |
| `sysmlv2-model` library cache (`prepared.rs`, `libcache.rs`) | files in a cache directory shared by processes; in each process a registry of libraries, a retained list, a memo of directory keys; threads that decode and save | a load installs the library the directory holds, whatever others do to the cache |
| `sysmlv2-cbor` | encoders, decoders, deltas with base and result digests, a base index | decode inverts encode; applying a delta of a to b on a gives b, and on anything else is refused |
| `sysmlv2-lint` | configuration, suppression directives | every finding is reported or named by a directive in use |
| `sysmlv2-lsp` diagnostics (`lib.rs`, `worker.rs`) | the main loop's documents and versions, a worker thread with a queue and a published set, the editor's diagnostics | the editor ends up showing the findings of the current texts |
| `sysmlv2-lsp` navigation and completion (`nav.rs`, `site.rs`, `reuse.rs`, `salvage.rs`, ...) | three models kept by the documents' texts, what was derived from them, symbols and inherited members kept by keys of their own | an answer read off what is kept equals the one a fresh server gives |
| `sysmlv2-lsp` push frontend (`push.rs`) | the same server driven one message at a time, without threads; seeded units, whether documents moved | the same answers as the threaded server; a client is asked to pull again what no longer holds |
| `sysmlv2-solve` | terms, interval domains, a Z3 process | propagation keeps every solution; a timeout is reported as unknown |
| `sysmlv2-transform` | a session: texts, model, resolved graph, generation; an edit builder that plans splices and rebuilds | a commit takes effect wholly or not at all; handles of an earlier generation are refused |
| `sysmlv2-viz` | none between calls | deterministic output |
| `sysmlv2-py`, `sysmlv2-wasm` | a session and its generation behind each handle | a handle of an earlier generation raises instead of naming another element |
| `sysmlv2-cli`, `sysmlv2-parser`, `sysmlv2-testkit` | command line, a facade, test support | the library saves left to the process are joined before it ends |
| `editors/vscode`, `tools`, `spec-refs` | a client, generators, normative inputs | not part of the program's logic |

How they interact: a host (CLI, language server, Python, WASM) opens a
`sysmlv2_transform::Session`, which parses texts with `sysmlv2-syntax`, loads a
library through `prepared::load_library_with_cache`, and resolves both with
`sysmlv2-model`. The language server's main loop answers navigation from such a
session and hands a snapshot of its documents to a worker thread for the full
check; the two share a channel for jobs, the connection to the editor for
notifications, and nothing else. Processes interact only through files: the
library's own, the cache's, and the user's.

Hard behaviours, each listed in `PROJECT.json` under `hazards` at its line:

* a debounced queue where jobs supersede each other while a cycle runs, and
  where panics, a refused thread and a shutdown may come at any moment;
* diagnostics published by two threads for the same document, in an order the
  editor may reject by version, some of them for files no document covers;
* a cache written by concurrent processes that may be killed, read on a guess
  while its key is still being computed, and found corrupt after it has been
  handed out;
* a directory that is hashed and then read a second time;
* a batch of edits planned on one text, applied at once, and accepted by
  comparing names of two models that share no identities;
* deltas that arrive late, twice or out of order, at a state others have written;
* import caches filled in the middle of the lookups that need them;
* checks on threads whose forks fill memos of their own, and a plan that is made
  within whatever budget its first reader has left;
* models kept across edits, re-seeds, failed builds and renames, each by a key
  that must tell apart everything the model was built from.

## Modules

| Module | Role |
|---|---|
| `DiagnosticsWorker` | the language server's worker thread (`worker.rs`) |
| `LanguageServer` | the main loop (`lib.rs`), the editor and the disk around it; extends the worker |
| `MCLanguageServer` | instances of it for TLC |
| `LanguageServerProofs` | type correctness, `LatestSnapshot`, `ToldOnce`, `NoSilentLoss` and `ViewIsCurrent`, proved |
| `LibraryCache` | loads, saves, the cache directory and the processes on it (`prepared.rs`, `libcache.rs`) |
| `MCLibraryCache` | instances of it for TLC |
| `LibraryCacheProofs` | its eight invariants, proved: type correctness, `Identified`, `ServesDirectory`, `MemoSound`, `WholeFiles`, `NeverServedAgain`, `DamageRemoved`, `RetainedOnce` |
| `ModelEdits` | what a batch of edits promises, in terms of elements |
| `Splices` | text replacements: order, duplicates, positions (`Planner::commit`) |
| `EditBatch` | staging, planning and committing a batch (`sysmlv2-transform`); extends `Splices`, implements `ModelEdits` |
| `MCEditBatch` | three documents for TLC |
| `EditBatchProofs` | `MirrorsFollow` and `TokensFollowed`, proved |
| `StateExchange` | what exchanging change sets promises |
| `Deltas` | encoding and applying a delta (`sysmlv2-cbor/src/delta.rs`), as operators |
| `DeltaExchange` | a session that sends deltas to a state others write; extends `Deltas`, implements `StateExchange` |
| `MCDeltaExchange` | seven payloads for TLC |
| `DeltaExchangeProofs` | `PushAccepted`, `UnitsFollow`, `ReplayHarmless` and the refinement `ImplementsExchange`, proved |
| `NamespaceSemantics` | what a name denotes, without caches and marks |
| `NameResolution` | lookup over scopes and imports, with the caches (`json.rs`) |
| `NameMeaning` | what it answers, compared with `NamespaceSemantics` |
| `MCNameResolution` | the workspaces for TLC |
| `NameResolutionProofs` | type correctness, `AnswersNamed` and `Permanent`, proved |
| `SessionHandles` | generations, handles and batches of the Python and WASM bindings |
| `NavigationSessions` | the models a server without a file system keeps, and its client (`nav.rs`, `push.rs`) |
| `SessionsProofs` | the five properties of `SessionHandles`; `NavTypeOK`, `AnswersCurrent` and `HintsCurrent` of `NavigationSessions`, proved |
| `PositionalPlanning` | the positional plan of a model: made, refused, remembered, dropped (`json/positional.rs`, `json/implied.rs`), as operators |
| `SemanticChecks` | the checks of a model, in line and on threads (`check.rs`); extends `PositionalPlanning` |
| `SemanticChecksProofs` | `PlansCurrent`, `RefusalsRight` and `FindingsInLine`, proved |
| `MCBindings` | `SessionHandles`, `NavigationSessions` and `SemanticChecks`, which the bindings export, for TLC |
| `Subsequences` | what is left of a sequence when some of it is dropped, by recursive functions; used by the library cache, the checks, the deltas, the edits and the names |
| `SequenceFacts` | what the proofs need of sequences, of subsequences and of induction, proved |

A definition whose name says a defect (`RecvKeepsPending`, `ReadPartKeeping`,
`RetainTwice`, ...) stands before the one it alters. It is a plausible bug of
that code, kept to show that the property it breaks depends on the line it
changes; nothing in the specifications uses it.

### The language server

`DiagnosticsWorker` follows `worker::run`. `jobs` is the job channel,
`pending` the job the thread has taken (a sequence of at most one), `published`
the uris it last published something for. `Recv`, `Collapse` and `Quiet` are the
blocking receive, the debounce that keeps only the newest job, and its timeout;
`CollectSources`, `CheckSources` and `LintSources` are the phases of `cycle`, each
of which may panic (`CyclePanics`) and is reported (`Report`, `Announce`: one
message for a run of failures); `Superseded` is the test for a newer job after the
cycle; `StartPublish`, `PublishOne` and `EndPublish` send one notification per uri
and clear the uris that no longer have findings; `Disconnected` ends the thread.

What the checks find is abstract: `ParseFindings`, `ContextFindings`,
`ModelFindings`, `LintFindings` and `ConfigFindings` are operator constants over
texts, so that a document's findings may depend on the other documents, which is
what makes a stale cycle visible. One uri stands for every spelling of it
(`same_unit` decodes them), a workspace root is always present, and a library is
configured.

`LanguageServer` adds the main loop. A notification is handled in two steps, the
syntax-tier publication and the schedule of the workspace job, because the worker
may run between them; the second always follows unless the handler panics
(`HandlerPanics`, which the loop survives). `EditorOpens`, `EditorChanges`,
`EditorCloses` and `EditorShutsDown` are the client's, `FileChanges`,
`ConfigChanges` and `LibraryChanges` the file system's, `Deliver` the client reading
one notification. Clients differ in what they do with diagnostics for a version
older than the document's: `strict` is chosen once per behaviour and the
properties hold for both policies.

Two history variables serve the properties only: `fresh` records that nothing
changed on disk since the last cycle read it, `dropped` the uris that left the
findings without being cleared (see the finding below).

Properties:

* `LatestSnapshot`: once the main loop has scheduled, the newest snapshot the
  worker holds (queued, set aside, or last worked on) is the main loop's document
  store. No interleaving of debounce, supersession and panic loses the last edit.
* `ViewIsCurrent`: when nothing is in flight, the last cycle succeeded and the disk
  has not changed since, the editor shows for every uri exactly what one check of
  the current texts finds. Excepted are the uris in `dropped` and documents whose
  last edit a handler panic lost.
* `NoSilentLoss`: at rest, a cycle that failed or panicked, a worker that could not
  be started and an edit lost to a handler panic have each been shown to the user.
  `ToldOnce`: each of these at most once.
* `Settles`, `WorkerEnds`: after the last edit everything comes to rest; after
  shutdown the worker ends, which `io_threads.join` in `lib.rs` waits for.

Runs. `lsp_faults` has two edits of two documents with disk versions, and in any
place among them a panic, an outside change or a refused thread; `lsp_live` checks
the liveness properties without the timing assumption; `lsp_clears` is the
finding. Two units are enough for one document's findings to depend on another,
two edits for a job to be superseded while its predecessor is being published;
the queue, the versions and the notifications in flight are bounded by the edits.

Assumption `Prompt`. The debounce is 300 ms. With `Prompt = TRUE` the main loop is
not stalled for longer than that between its publication and its schedule. Without
it TLC shows `ViewIsCurrent` violated: a version-less publication for a file on
disk is accepted by a version-checking client after the document was opened, the
clearing publication carries the old version and is discarded, and the next
empty set is skipped because the uri is no longer in `published`. The same
happens with a client that rejects outdated diagnostics only sometimes.

Fairness (`FairSpec`): weak fairness of the worker's steps, of the main loop's and
of the client's reads. Threads are scheduled by the operating system and the
client must read its pipe. The editor and the file system are not fair. A client
that edits forever within the debounce keeps the worker from ever starting; edits
are bounded, so the properties speak of a session whose edits pause.

### The library cache

`LibraryCache` follows `load_library_with_cache_in` and
`load_library_with_cache_with`. A session is one load. `Start` settles the guess
(`snapshot_guess`, `shared_holds`); `DecodeGuess` runs beside `ListFiles` and
`HashFiles`, the two halves of `hash_library_dir`; `Lookup` joins them and asks the
registry under its lock; `Serve` installs and retains the registry's handle, or
lets a damaged one go; `TryCache`, `TryShipped` and `Prepare` are the sources of a
handle in the code's order; `Register` retains it and enters it; `Join` is the
`PendingSave` dropped by a session, where the CLI detaches it and joins at `Exit`.
`SaveRecording`, `CreateTemporary`, `WriteParts`, `Rename` and `SaveFails` are
the background save; `ReadPart` is a thread that finds a facts or plans part
corrupt, `TakeParts` the moment the handle learns of it. `Edit`, `Damage`,
`Crash` and `Exit` are the world.

A content stands for its key: the 64-bit hash is taken to be injective. A file
is a content and a state: `sound`; `damaged` in a part that is read apart from the
load; `foreign`, refused as a whole (another build, another format, an eager part
that does not verify); `partial`, which only an interrupted write in place could
leave. A thread over a part that verifies changes nothing and is left out. Every
edit of the library has a stamp of its own: an edit of the same length within the
clock's granularity, which the stamps at `libcache.rs:484` cannot tell, is left out.

Properties:

* `ServesDirectory`: by whichever path, a load ends with what the directory held.
* `Identified`: a snapshot in the cache holds its key's content.
* `WholeFiles`: no partial file under a final name, through crashes, failures and
  concurrent saves of one key.
* `MemoSound`: the memo of directory keys never answers for files it was not
  computed over; this rests on taking the listing before reading the files.
* `NeverServedAgain`, `DamageRemoved`: after a handle proved damaged, no load begun
  later is given it, and the file it came from is gone from the cache.
* `RetainedOnce`: a library loaded again does not push the other one out.
* `LoadsEnd`: neither a guess nor a joined save holds a load up.

Runs. `lib_serves` has two loads in one process and one in another, sound and
damaged shipped snapshots, one edit between loads and a cached file going bad.
`lib_faults` has two concurrent loads of one process, edits at any moment, foreign
snapshots, failing writes and a kill, and checks that loads end; `lib_poison` is
the finding. Three loads are the
least that lets one load fill the registry, one be served from it and one come
from outside; two contents are what a wrong key needs to be seen.

Assumption `EditsDuringLoad = FALSE`, in `lib_serves`: the library
does not change while a load runs. The code does not guard this; the run
`lib_poison` shows what follows without it.

Fairness (`FairSpec`): weak fairness of each load's thread, of the thread decoding
the guess and of the save's thread.

### Edit batches

`EditBatch` follows `EditBuilder` and `Planner` of `sysmlv2-transform/src/lib.rs`. A
text is a sequence of tokens, a splice a replacement between two boundaries. `Stage`
records an operation; `Commit` is the whole of `commit`: `NameTaken` is
`rename_collisions`, `PlanRename` ... `PlanRetarget` turn each operation into splices,
a name map, spans that are spoken for and sites that are carried along, `InOrder` and
`Deduplicated` are the sort and `dedup_by`, `Spliced` the new text, `Model` the trial
resolution (a new text that does not parse is refused before it), and
`UntouchedBroken`, `WrittenBroken` and `CarriedBroken` the three checks that compare
what reference sites name before and after, by qualified name, through `MapQn`. If any
fails nothing changes.

The code has no identity of an element that survives a rebuild. The tokens of
the model have one, which no plan and no check reads; the properties do. So
`KeepsItsPromise`, the refinement of `ModelEdits`, says of elements what the
commit can only say of names: the operations take effect together, on the
elements they named, each reference that is not rewritten goes on denoting the
element it denoted, or nothing happens. `MirrorsFollow` says that the reported
splices, replayed on a copy of the old text, give the new one, and that the session
answers from its model; `TokensFollowed` that
a token no splice replaces is found at the shifted boundaries; `NamesMapped` that
the name map gives each surviving element the name it has.

Run `edit_pairs`: every batch of at most two of the six operations, on three
documents: two siblings with a reference that names nothing yet; two members of
one name, one seen through the other's owner; a member with a reference, to be
moved past the one it names. Two operations are what interference needs, one
commit is what a batch is. Names are declared names, all members are public
packages; aliases, imports, specializations, notes, layout, `then` members, splits
and merges are left out.

Two limits are named, and each stands for something the repository knows:

* `NamesRetire`: no batch gives the name of an element it removes to another. A
  reference to the removed one then goes on naming "it", since the engine compares
  names. The SDK documentation and a test say that this is how a successor takes
  over (`docs/SDK.md:191`, `lib.rs:5664`).
* `DistinctEdits`: no two operations write the same text at one place. `dedup_by`
  takes them for one; `edit_twins` is the finding that follows for a retarget. The
  tests at `lib.rs:4198` and `lib.rs:7611` have the intended case.

### Deltas

`Deltas` has `delta_encode` and `apply` as operators: canonical order
(`OwnershipPreorder`, a walk of one `Visit` after another), digests, whole elements
and patches (`PlanPatch`, `ReadPatch`), strict deltas that name targets by position
and portable ones that name them by id, `Assembled` and `Rederived` for the
application, `GraphNormalize` for the spelling of a graph store. A digest is the text
it is taken of, so different texts have different digests; ids are spelled out, and
stand for positions where the code keeps those within one payload. Whether an
element is sent whole or as a patch depends on which is shorter; the model allows
either, for the whole delta.

`DeltaExchange` puts a session, a receiver and other writers around them: `Edit`,
`OtherWrite`, `Fetch`, `Push`, and `Deliver`, which takes any delta ever sent, so that
loss, delay, reordering and duplication are all there. A refused delivery changes
nothing and is a stutter.

* `ImplementsExchange`: the refinement of `StateExchange`. A strict delivery takes
  the held state, if it is the one the delta was encoded against, to the sender's;
  a lenient one changes the elements in which the two states differ, and no other.
* `PushAccepted`: a delta against exactly what is held is never refused, whatever
  order its roots take in the result. `UnitsFollow`: the units a strict
  application reports are the sender's roots. `ReplayHarmless`: a portable delta
  that arrives again changes nothing.

Run `deltas`: seven payloads over three elements (moved, nested, reordered,
re-owned, with a root gained or lost), two writes, two deltas in flight. Two
things seen on the way are no findings but worth knowing: the comments
`delta.rs:11-13` and `lib.rs:3018` of `sysmlv2-transform` call the canonical form
independent of emission order, yet roots keep the payload's order; and a strict
delta applies again when the held state comes back to its base, since only
contents are compared.

### Name resolution

`NameResolution` follows `resolve_result`, `lookup_at`, `lookup_body`,
`lookup_recursive` and `import_scopes` of `sysmlv2-model/src/json.rs`. The state is
what the resolver keeps: `cache` (what the imports of a scope denote), `targets`
(what the import statements themselves denote) and `missed` (root names that were
looked for in vain). `Ask` is one reference, `AskImport` the reference of an import,
`Reset` the reset between passes. Everything below is operators, in the code's
order of cases: `WalkOut` outward through the scopes, `LookupBody` with each kind of
membership hiding the next, the marks with the number of a query (`NextStamp`),
`Fill` with its placeholder seeds (`Seeds`) and passes (`Passes`). A loop is a function
on 0 .. n, `after[k]` being where it is after k turns and `...Step` one turn. The
functions of `json.rs` are mutually recursive: a call is a record, an operator gets
the functions it calls as `go`, and `Levels` is the functions that nest calls 0, 1, 2
deep and so on, each in terms of the level before it. A computation that needed
more than `Nesting` of them would say so (`endless`).

`AnswersNamed` says that none does, which is that a reference is answered whatever
imports lead back to themselves, and that what a reference or an import is answered
with has the name it ends with. The marks make that a question: they are kept for
each scope and access and not for each name, a lookup starts others in its middle
that overwrite them, and only the number of the query tells whose they are.

`NamespaceSemantics` is the same without caches, marks, passes or order: sets of
scopes and reachability. `ImportsMean` and `AnswersMean` say that resolution agrees
with it, `TouchOrderIrrelevant` that what an import denotes does not depend on which
reference came first; `Permanent`, which is proved, that it stays once it was found.
`ReplayStands` is about recordings: a library resolved once
is replayed beside user units, and what it answered stands unless a root name the
user adds was missed on the way; `missed` has to know of every miss behind a cached
entry, at whatever time the entry was filled.

Run `names`: a package P with A in it, B with X and another B, X with Y, a private X
in A, and a user's Z; every combination of the imports listed in
`MCNameResolution`, 632 workspaces of which are `Layered`: no fill reads another
scope's unfinished entries. The other workspaces are those of `names_order`, the
finding. Not modelled: aliases, specialization and its bases, filters, `$::`, the
pruning of walks that cannot reach a name, the recorded graph itself. User root
names are disjoint from the library's, since the code turns the replay off when
one shadows another. The order in which pending references are resolved is any
order. `MaxDepth` 24 is deeper than any lookup of these workspaces. Entries of one
scope that hide each other's targets never settle in the passes; no workspace of
the run has them.

### Handles of the bindings

`SessionHandles` follows `Session`, `Element` and `EditBatch` of `sysmlv2-py` and the
same of `sysmlv2-wasm`. A handle is an index and a generation; `build` counts the
models the session held, which the code does not know and the properties read.
`NeverAnotherElement`: a handle that is accepted was minted against the model that
is held. `StagedForThisModel`: so were all handles of a batch that can still commit,
although a batch may be older than the session and go on staging. `TakenOnce`: a
batch reaches the edit engine once. `KeptWhileUnchanged`: in Python a call that
leaves the model leaves the handles. It is stated for Python only: in WASM a
batch of nothing but dropped renames starts a generation (`lib.rs:2447`), although
the text at `lib.rs:2438-2440` says that handles stay; and a respelling with nothing
to do starts one too. `insert_top_level`, which takes no handle, and the handle of
another session, which the guard cannot tell, are outside.

### Navigation sessions

`NavigationSessions` follows `Nav` (`nav.rs`) in a host without a file system, and
`PushServer` (`push.rs`) around it. `nav` holds what is kept: the strict session, the
fingerprint it last failed for, the tolerant session that stands in, the verify,
lint and split results derived from the strict one, the completion session, the
symbols below a document, the hashes of seeded units and the inherited members.
A model is a function of the texts it was built from and stands as those texts;
a text is what lies outside the body in work and the statement being typed,
which may not parse. `Strict`, `Tolerated`, `Completing`, `Resting` and `Inherited` are
the five caches with their keys; `SetWorkspaceSources`, `SetNumberFormat` and
`InvalidateSessions` the host's calls; `DidOpen`, `DidChange`, `DidClose` the client's
notifications; `Hints`, `LintFixes`, `SplitActions`, `Read`, `Symbols`,
`InheritedMembers`, `Statement` and `Rename` its requests.

* `AnswersCurrent`: every answer is the one a server started now would give.
* `HintsCurrent`: unless documents moved since the client was last asked to pull
  its hints again, those it holds and was not asked for again are current.

Run `bindings` (with `SessionHandles` and `SemanticChecks`; they share nothing, so a
behaviour has one of the three): three
generations and two batches for the session; for the server three uris, two of
which spell the same unit, one seeding before `initialize` and one call of the
host after it, five messages. That is long enough for the case the comment at
`nav.rs:844` is about: a build fails for one document set, another set covers the
unit while it is re-seeded, and the first set comes back.

Left out: answers read off a model of other texts (`reuse.rs`), what salvage makes
of a text that does not parse, the library's tables, a library that cannot be
read, and handlers that panic. A host seeds each unit once. With a workspace root
on disk the walk follows a documented convention (changes outside the editor
surface on the next edit), and `AnswersCurrent` would not hold as it stands.

### Semantic checks

`SemanticChecks` follows `validate_semantics_with` and `families_on_threads`. `CheckInLine`
starts the pass of a small model, which is the caller alone, on the model itself;
`CheckOnThreads` starts the threads, any of which but the caller's the system may
refuse. `Claim` is one `fetch_add` on the list of tasks, `Look` one look at the plan on
the thread's own fork, `EndTask` the push of what a task found, `TaskPanics` a panic in
one, `Gather` the joins and the sort by key. `KeyAt` is the order of the list, with its
slices put in front. The enumeration of one row's members is one look. Between
checks the host evaluates, enumerates members, has artefacts made by other readers
and changes the rows.

`PositionalPlanning` is what the tasks touch. A builder keeps the artefacts an attempt
makes (whether the library's plans are extended, the identity index, the implied
plan), each with the rows it was made for, the positional plan with the authored rows
it was made of, and the memory of an attempt that made nothing. `Ensure` plans at any
cost, `Attempt` within a budget; `Refresh` drops what is stale when it is next looked
at, and not before; `Changed`, `Appended` and `Materialized` are the ways rows change.
The structural certificate, a fourth artefact, is compared and dropped like the
index and stands with it. The plan a dynamic graph publishes is left out.

* `FindingsInLine`: whoever runs which task in whatever order, the findings are those
  of the in-line pass, in its order, and the model is left as that pass leaves it.
  This rests on planning before the first check: with the plan left to the first
  reader, a family that only looks whether it is there finds what the thread's
  earlier tasks left. A model without a type that has a body plans nothing first;
  what `ChecksAssumption` says of `Works` is that it then asks nothing either.
* `PlansCurrent`: a positional plan that is read was made of the present rows,
  although it is dropped late and its authority may be made again in between.
* `RefusalsRight`: an attempt refused by memory would have failed. The comments at
  `positional.rs:65-67` and `88-93` say so without condition. The memory compares of
  the index and of the decision on the library's plans only that they are there: one
  made by another reader since, or a stale one made again by the failed attempt
  itself, is not seen, and a repeat that might succeed is refused. It costs an
  undecided multiplicity, never a wrong one; `helped` marks these states and
  `RefusalsRight` speaks of the others.

Run `bindings` again: two threads with up to two slices each, three families that ask, peek
and enumerate, three budgets, two changes of the rows.

## Findings

* `lsp_clears` / `ClearsVanished`. The worker publishes an empty set only for a uri
  it published something for and that still is among the uris of the cycle; a uri
  that leaves them keeps what the editor shows. The comment at `worker.rs:138` says
  that published uris are tracked so that findings that vanish are cleared.
* `lib_poison` / `Identified`. The key is hashed, the directory is read again, and
  the result is saved under the key. An edit in between leaves a snapshot that
  does not hold its key's content, which every later load of that key is given.
* `edit_twins` / `RetargetsHold`. The second of two equal splices is dropped with
  what it expected. A rename and a retarget that write the same token leave the
  retargeted reference naming what it named, and the commit succeeds, where the
  comment at `lib.rs:4597` of `sysmlv2-transform` says it verifies the target.
* `names_order` / `TouchOrderIrrelevant`. An import computed while another scope is
  being computed reads that scope's placeholder, and the result is kept. In
  `package P { package A { public import B::*; } public import A::X::*; }
  package B { package X; }` the import of P denotes B::X or nothing, depending on
  which import was touched first; the comment at `json.rs:9959` says that outcomes
  do not depend on the order.

## Proofs

`LanguageServerProofs`, checked by TLAPS for every value of the constants that
satisfies `WorkerAssumption` and `SessionAssumption`:

* `TypeCorrect`: `Spec => []TypeOK`.
* `NoLostSnapshot`: `Spec => []LatestSnapshot`.

* `FailureToldOnce`: `Spec => []ToldOnce`.
* `LossIsTold`: `Spec => []NoSilentLoss`.
* `ViewCurrent`: `Prompt => (Spec => []ViewIsCurrent)`, under the timing assumption
  the property is checked with.

The first two follow from `Invariance`, that `IInv` is inductive, where `IInv` is
`TypeOK`, `LatestSnapshot` and `LocalsInv`. `LatestSnapshot` alone is not inductive: a
job set aside by `Superseded` stands in for the newest one only if no step past the
top of the loop leaves it behind, and the type of what is published needs the
publish loop to visit only uris with findings. `LocalsInv` says so: a job is set aside
only at the top of the loop, uris are left to publish only in the publish loop, and
each of those has an entry. The proof has one step per action of `Next`.

The next two follow from `NoticesFollowed`. `NoSilentLoss` speaks of the session at
rest only, so the invariant has to follow what it promises through every queue.
`NoticeInv` says that each notice is told or on its way, and not both or twice,
exactly if one of the tiers decided to tell it, and that what the worker knows of
its last cycle has led to such a decision once it is past the report. `ReplayInv`
is about the editor's messages: for each document, the last message under way
carries what the editor has, or, with none under way, the main loop's store has it;
or else a lost edit was reported.

`ViewIsCurrent` too speaks of rest only, and of what two threads sent the editor in
an order it may reject. `VersionsInv` says that the editor's messages about a
document rise in version, from what the main loop has of it to what the editor has.
`CycleInv` and `FreshInv` say what a cycle's findings are findings of, at each point of
it. `ShowInv` says for each uri about which no message is on its way what the editor
will show once it has read the notifications in flight (`Shows`): nothing the worker
could not clear (`Tracked`), for a document changed since the cycle's job what the
syntax tier said of it (`Edited`), and for one that did not change what the cycle
published (`Published`). `Prompt` is what keeps a publication of the worker from coming
between a message's own and its schedule.

`LibraryCacheProofs`, for every value of the constants that satisfies
`CacheAssumption` and `NoneAssumption`, under the hypothesis
`EditsDuringLoad = FALSE` (no edit of the library while a load of it runs; the run
`lib_poison` shows that `Identified` fails without it):

* `CacheIdentified`: `Spec => []Identified`.
* `LoadsServeDirectory`: `Spec => []ServesDirectory`.

Both follow from `CacheInvariance`, that `CacheInv` is inductive. Content reaches a
load by way of the key memo, the registry, the guess, the cache, the shipped
snapshots and the sources, so the invariant says for each who may vouch for
what: `MemoInv` that a memo under the present stamp has the present key,
`KeysInv` that a load in progress has that key or none, `FilesKeyed` and
`HandlesKeyed` that snapshots and handles hold what their key names, `RefsKeyed`
that whoever refers to a handle refers to one of his process by its key, and
`LoadsInv` what is set at which point of a load. There is one lemma per action,
with `MakeKeeps`, `GoesOnKeeps`, `FilesChange` and `NothingChanges` for what several
actions have in common. Nothing is assumed of damage, failed writes, crashes
or the snapshots found at start but that a file's name is its content's key
until a save says otherwise.

The same module, under the same two assumptions and with no hypothesis on when the
library is edited:

* `MemoIsSound`: `Spec => []MemoSound`.
* `FilesAreWhole`: `Spec => []WholeFiles`.
* `DamagedServedNoMore`: `Spec => []NeverServedAgain`.
* `DamagedRemoved`: `Spec => []DamageRemoved`.
* `KeptOnce`: `Spec => []RetainedOnce`.
* `TypeCorrect`: `Spec => []TypeOK`.

Each has an invariant of its own above `StateInv`, the shape of the state (what a
load has at which point of its way). `MemoListed`: no listing is of the future, and a
memo as young as the library has its key. `WholeInv`: who is about to rename has
written a whole file. `ShunInv`: a load knows as damaged at least what its process
did when it began, and holds none of it. `DamageInv` is the delicate one: a reader
removes a cache file by its name, and a file with the same name and writer must not
come back behind it. It says that a load that saved never saves again (`Spent`), so
that a damaged file that is gone is gone for good, and that until then the thread
that will find the damage is still there (`Condemned`). `KeptInv`: a retained list
has nothing twice and is no longer than the limit, and what the filter before an
append leaves of it has room.

`SemanticChecksProofs`, for every value of the constants that satisfies
`ChecksAssumption`, `PriceAssumption` and `NothingAssumption` (any number of families,
rows and threads, any prices and budgets):

* `PlansAreCurrent`: `ChecksSpec => []PlansCurrent`.
* `RefusalsAreRight`: `ChecksSpec => []RefusalsRight`.
* `FindingsAreInLine`: `ChecksSpec => []FindingsInLine`.

The first two speak of each builder by itself, so the invariant is that the session's
model and every fork are `Good`, and most of the proof is one lemma for each operator
of `PositionalPlanning`. `Good` adds to the two properties that nothing kept is of
rows yet to come, which the next change would make current, and that the memory is
right also while there is a plan, which may be dropped and leave the memory. `Threads`
adds that a thread's task is one of the work's, so that what it asks is a budget;
`Slicing` is the arithmetic of the slices.

`FindingsInLine` compares a pass on threads with one in line that never ran. Its
invariant `LineInv` is `Planned` (while a pass runs every fork is as the model was, and
the model has its plan, if the pass asks for one at all), `Seeing` (so a thread sees at
each look what the in-line pass sees there, whatever its earlier tasks left behind),
`Taken` (each task that was claimed is with one thread or among the results, and only
once) and `AtRest` (the findings gathered are those of the in-line pass). The lemmas
under it say that a look at a planned model leaves it as it is, and that what is
gathered by key from results without repetition is the list itself.

`SessionsProofs`, of the handles, for every value of the constants that satisfies
`ConsumedIsNone` and `NoBatchIsNone` (the two markers are no generation and no batch):

* `TypeCorrect`: `Spec => []TypeOK`.
* `HandlesDenote`: `Spec => []NeverAnotherElement`.
* `BatchesPlanOnOneModel`: `Spec => []StagedForThisModel`.
* `BatchesTakenOnce`: `Spec => []TakenOnce`.
* `HandlesKept`: `Spec => KeptWhileUnchanged`, an action property.

A handle ahead of the session would become current one day, so `IInv` adds that
handles and batches are never ahead of it, that a batch not yet taken holds
handles of its own generation only, and that a taken one has nothing left to stage
or commit.

The same module, of the navigation sessions, for every value of the constants that satisfies
`NavAssumption` (which includes that a host seeds each unit once and that there is a
version to count) and `NoneAssumption`:

* `NavTyped`: `NavSpec => []NavTypeOK`.
* `AlwaysFresh`: `NavSpec => []AnswersCurrent`.
* `HintsFollowed`: `NavSpec => []HintsCurrent`.

`AnswersCurrent` needs that every cache whose key still fits holds what a fresh
build would. `NavInv` says so cache by cache (`Fit`): the models are built from the
sources their fingerprint and the seeds give (`ModelsFit`), what is derived is of the
session's units (`DerivedFit`), symbols and hashes are of the seeds (`TableFit`). That a
fingerprint tells document stores apart (`FingerprintTells`) and that assembling
depends on nothing else is most of the rest; `HintsOf` adds what the client holds.

`DeltaExchangeProofs`, for every value of the constants that satisfies
`OwnersAssumption` and `DocumentsAssumption` (any payloads, of any length and shape of
ownership, cycles and elements claimed twice included):

* `Accepted`: `Spec => []PushAccepted`.
* `UnitsGiven`: `Spec => []UnitsFollow`.
* `Replayable`: `Spec => []ReplayHarmless`.
* `Implements`: `Spec => ImplementsExchange`, the refinement.
* `Exchanging`: `Spec => []ExchangeInv`.

`ExchangeInv` is short: session and receiver hold payloads, and each delta on its way
was encoded between two payloads in the spelling in use (`Sent`). The work is in the
operators. `WalkInv` is the invariant of the walk: the roots it has met, followed by
those on its stack, are all the roots in the order it was given them. From it follow
that canonical order keeps the roots and the unreached in the payload's order, so that
it is one order for payloads that agree on these (`Reordered`) and is stable when taken
again (`CanonicalOnce`).
`PatchBack` says that a patch read over the old element is the new one, `ShipFacts`
that an owner left out is derived again, `Exact` that a delta applied to its base
gives the result it was taken of, `Replayed` that a portable one applied twice is
applied once, `MergesFacts` that a lenient application changes what the delta
changed and no other, `NormalizedAgain` that the spelling of a graph store is stable
under all of it. The refinement maps every delivery to a `Take` or `Merge` of
`StateExchange` or to a stutter.

`EditBatchProofs`, for every value of the constants that satisfies `EditAssumption` and
`DocumentsAssumption` (a session opens on texts that parse; any texts otherwise, any
names and fragments, and batches of any length):

* `Mirroring`: `Spec => []MirrorsFollow`.
* `Following`: `Spec => []TokensFollowed`.
* `Batching`: `Spec => []BatchInv`.

Both properties are about splices of a text that are in order and apart, and `BatchInv`
says that those of a commit are: whatever is staged, each kind of operation plans
splices inside its text, sorting and `dedup_by` lose none but repetitions, and what is
left overlapping is refused. It says too that the session's text parses, which is what
the next batch is planned on; the refusal of a new text that does not is what keeps it.
The commit writes the new text at once, from the pieces between splices, while a
mirror replaces one splice after another, from the last to the first. `HalfWay` is
what a mirror has in between, and each splice it replays moves it one further
(induction with `SequenceInduction`). `Reached` says where the pieces written so far
end, again by induction on the splices, and `EndsAgree` that this is where the shift
takes the boundary of the old text they stand for: so a token no splice replaces is
found between its two shifted boundaries. Sorting is by rank (how many come before),
and that it is a permutation in order for every strict order is a lemma by counting.

`NameResolutionProofs`, for every value of the constants that satisfies
`ScopesAssumption` (a scope is made inside one that is there) and `WorkspaceAssumption`
(any number of scopes and any imports, cyclic or not, and any `MaxDepth`; what is
referred to has a name):

* `NamesTyped`: `Spec => []TypeOK`.
* `NamesAnswered`: `Spec => []AnswersNamed`.
* `NamesPermanent`: `Spec => Permanent`, an action property.

The proof is one about the calls. Two of the things that end a computation, the marks
and `member_import_active`, do not bound it: a nested query has marks of its own. What
bounds it is a rank. Within a fill at least every second call goes deeper, and
`MaxDepth` cuts off, so that twice what is left of it bounds the nesting
(`WithinFill`); a fill starts again at depth 0, but the scope it fills has a placeholder
from then on, so that there is one scope less whose imports are open. A level of
nesting answers soundly the calls of a lower rank (`Serves`); `CalledAnswers` is the step
from level to level, with one lemma for each function of the code under it, and
`TopRank` says that no call of a reference outranks `Nesting`.

What is sound is what the three properties come from. `Sound` says of a computation
that a scope being filled has entries, that any other is open or has the entries its
imports denote (`Filled`), and that no mark is newer than the last query. `Keeps` says
of a call that what was filled stays, that the fills in progress are the same after
it, and what it may do to marks (`Marks`): leave them, put those of its own query over
them, which fit its name, or newer ones. So the marks of a query that goes on fit its
name all along (`Ready`), whatever is nested in it (`Leaves`). The loops are taken
together: `LoopExists` says that a loop over any step is a function, `LoopKeeps` that it
keeps what its step keeps.

The library's induction theorems take an operator as a parameter, which the
installed provers cannot instantiate. `SequenceFacts` states induction with a set in
the place of a predicate (`SetInduction`, `SequenceInduction`), which they can, so
functions that are defined recursively over a prefix are within reach
(`Subsequences`, the walk, the folds of the passes). RECURSIVE operators are not.

Only proved, and checked by no run: `NavTypeOK` and `Permanent`, and the inductive
invariants. They cost TLC as much as a property that says more, and the proof says
them for every instance.

Only model-checked, and why:

* Edit batches: `NamesMapped` and the refinement `KeepsItsPromise`. They compare what
  the names of two resolved texts mean, and a proof has to follow resolution through
  every kind of operation.
* Name resolution: `TouchOrderIrrelevant`, `ReplayStands`, `ImportsMean` and `AnswersMean`.
  Each compares two computations of which one finds caches filled that the other
  fills on the way, and whose nested fills overwrite marks that the other leaves, so
  that the two are nowhere in step; and `NamespaceSemantics` uses RECURSIVE operators.
* The runs that find a violation, where there is nothing to prove, and `ViewIsCurrent`
  without `Prompt`, which is false.
* All liveness.

## What is not modelled

Parsing, printing, evaluation, the checks and lints themselves, solving and
drawing are sequential functions over large data. Where a modelled part uses what
they find, it is a constant of the model. Nine tenths of the source are of this
kind, or are tables generated from the language's metamodel (`cbor_tables.rs`,
`schema_props.rs`, `xmi_props.rs`, `semantic_catalog.rs`), and so the share of the
source the modules stand for is small: what is modelled is what keeps state.

Of the parts that are modelled, this is left out:

* Library cache: a load into a model that already has units, a load without a cache
  directory, errors in reading the library directory itself, the codec.
* Edit batches: setting values, types and comments, extraction and inlining,
  payload identities, several units, and what a batch moves beside its elements.
* Deltas: the byte format, elided and rebased ids, indexes and streaming.
* Names: aliases, specialization and redefinition, filters, the recorded graph.
* Navigation: reuse of a model of other texts (`reuse.rs`), salvage (`salvage.rs`),
  where a request finds its site in a text (`site.rs`), what it then reads of the
  model, and a server with a workspace on disk.
* Semantic checks: what a family finds in the rows, and the other memos of a fork.
* Bindings: the methods that only read, and the conversion of values.

Z3 is an external process. The VS Code client, the command line and the tools
hold no state of their own between calls.

## Plan

Done, in the order of the plan: the language server's tiers and the library cache;
edit batches, deltas and the handles of the bindings; name resolution;
navigation sessions; the checks on threads; the proofs above.

What is left, in this order:

1. Edit batches: `NamesMapped`, one kind of operation after the other, on top of
   `TokensFollowed`. As it stands it is not true of every text: two siblings of one
   name, which the planner maps to one entry, have to be excluded as the run's texts
   do. Then the refinement.
2. Name resolution: `TouchOrderIrrelevant` for `Layered` workspaces, from a relation
   between computations that differ in what is filled.
3. Interval propagation of `sysmlv2-solve` (`ival.rs`): narrowing keeps every
   solution and ends, with bounds that saturate at the width of `i128`.
4. The reuse and salvage tiers over `NavigationSessions`: an answer read off a model
   of other texts is the one the present texts would give, or is withheld.
