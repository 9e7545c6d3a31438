-------------------------- MODULE DiagnosticsWorker --------------------------
(***************************************************************************)
(* The workspace tier of the language server: the background thread of     *)
(* crates/sysmlv2-lsp/src/worker.rs.                                       *)
(*                                                                         *)
(* The thread takes snapshots of the open documents (jobs) off a channel,  *)
(* collapses the ones that arrive within a quiet window, runs one cycle    *)
(* over the latest (read the workspace's files, check, lint), drops the    *)
(* result when a newer job arrived meanwhile, and otherwise publishes one  *)
(* finding set per uri.                                                    *)
(*                                                                         *)
(* Texts, findings and the checks themselves are parameters: a cycle is a  *)
(* function of the sources, the lint configuration and the library it      *)
(* reads, and each of these can change between the reads.                  *)
(***************************************************************************)
EXTENDS Naturals, Sequences, FiniteSets

CONSTANTS
  Units,               \* uris of the model files the workspace may hold
  Config,              \* uri of the workspace root's sysmlint.json
  Texts,               \* texts a unit may hold
  Configs,             \* contents sysmlint.json may have (absence included)
  Findings,            \* diagnostics
  Absent,              \* no file, no document, no entry
  ParseFindings(_),    \* what the parser says of a text
  ContextFindings(_),  \* body-context findings of a text, as far as it parses
  ModelFindings(_, _), \* referential and semantic findings: clean units, unit
  LintFindings(_,_,_), \* unused imports and lint: sources, config, unit
  ConfigFindings(_)    \* findings about sysmlint.json itself

Uris == Units \cup {Config}

\* All that is known of the checks is what kind of result they give.
ASSUME WorkerAssumption ==
  /\ Config \notin Units
  /\ Absent \notin Texts
  /\ Absent \notin [version : Nat, text : Texts]
  /\ \A f \in SUBSET Findings : f # Absent
  /\ \A t \in Texts : /\ ParseFindings(t) \in SUBSET Findings
                     /\ ContextFindings(t) \in SUBSET Findings
  /\ \A s \in [Units -> Texts \cup {Absent}], u \in Units :
       /\ ModelFindings(s, u) \in SUBSET Findings
       /\ \A c \in Configs : LintFindings(s, c, u) \in SUBSET Findings
  /\ \A c \in Configs : ConfigFindings(c) \in SUBSET Findings

VARIABLES
  disk,       \* the model files under the root, as they are on disk
  config,     \* sysmlint.json, as it is on disk
  library,    \* whether the standard library directory can be read
  jobs,       \* the channel from the main loop: snapshots of the documents
  pc,         \* where the thread is in `run`
  job,        \* the job being served
  pending,    \* the newer job that replaced a computed result, if any
  sources,    \* the sources the cycle collected
  byUri,      \* the cycle's findings; Absent where there is no entry
  outcome,    \* how the last cycle went: ok, failed (reported) or panic
  unsent,     \* uris the publish loop has still to visit
  published,  \* uris published last cycle
  announced,  \* failures already announced
  outbox,     \* the channel to the client, shared with the main loop
  serverUp    \* the main loop holds its end of the jobs channel

envVars    == <<disk, config, library>>
cycleVars  == <<sources, byUri, outcome>>
workerVars == <<jobs, pc, job, pending, sources, byUri, outcome, unsent,
                published, announced>>

NoVersion == 0
Doc       == [version : Nat \ {NoVersion}, text : Texts]
Docs      == [Units -> Doc \cup {Absent}]
Sources   == [Units -> Texts \cup {Absent}]
Failures  == {"panic", "library"}
NoDocs    == [u \in Units |-> Absent]

Publish(u, v, f) == [kind |-> "publish", uri |-> u, version |-> v, findings |-> f]
Show(m)          == [kind |-> "show", message |-> m]

(***************************************************************************)
(* One cycle.                                                              *)
(***************************************************************************)

\* Open documents replace the file they edit, or join the sources.
OverlaySources(d, docs) ==
  [u \in Units |-> IF docs[u] # Absent THEN docs[u].text ELSE d[u]]

\* Every unit of the sources gets an entry, so that stale sets clear.
NoFindings(s) ==
  [u \in Uris |-> IF u \in Units /\ s[u] # Absent THEN {} ELSE Absent]

\* A text that does not parse has parse findings only, and stays out of the
\* model the other units are checked as.
Broken(t) == ParseFindings(t) # {}

UnitFindings(t) == IF Broken(t) THEN ParseFindings(t) ELSE ContextFindings(t)

CleanUnits(s) ==
  [u \in Units |-> IF s[u] # Absent /\ ~Broken(s[u]) THEN s[u] ELSE Absent]

CheckFindings(s) ==
  [u \in Uris |->
     IF u = Config \/ s[u] = Absent THEN Absent
     ELSE UnitFindings(s[u]) \cup
            IF Broken(s[u]) THEN {} ELSE ModelFindings(CleanUnits(s), u)]

OrDefault(f) == IF f = Absent THEN {} ELSE f

\* The lint adds to each unit's entry; sysmlint.json has an entry only when
\* there is something to say about it.
WithLint(found, s, c) ==
  [u \in Uris |->
     IF u = Config
       THEN IF ConfigFindings(c) = {} THEN Absent ELSE ConfigFindings(c)
       ELSE IF s[u] = Absent THEN Absent
       ELSE OrDefault(found[u]) \cup LintFindings(s, c, u)]

\* A session takes no unit that does not parse.
CanBuild(s) == \A u \in Units : s[u] # Absent => ~Broken(s[u])

(***************************************************************************)
(* The announcement of a failure: once per message.                        *)
(***************************************************************************)
AnnounceEveryTime(m) ==
  /\ announced' = announced \cup {m}
  /\ outbox' = Append(outbox, Show(m))

Announce(m) ==
  /\ announced' = announced \cup {m}
  /\ outbox' = IF m \in announced THEN outbox ELSE Append(outbox, Show(m))

(***************************************************************************)
(* The thread's loop.                                                      *)
(***************************************************************************)

RecvKeepsPending ==
  /\ pc = "recv"
  /\ \/ /\ pending # <<>>
        /\ job' = Head(pending)
        /\ UNCHANGED jobs
     \/ /\ pending = <<>>
        /\ jobs # <<>>
        /\ job' = Head(jobs)
        /\ jobs' = Tail(jobs)
  /\ pc' = "debounce"
  /\ UNCHANGED <<pending, cycleVars, unsent, published, announced, outbox>>

\* Take the job that replaced the last result, or wait for one.
Recv ==
  /\ pc = "recv"
  /\ \/ /\ pending # <<>>
        /\ job' = Head(pending)
        /\ UNCHANGED jobs
     \/ /\ pending = <<>>
        /\ jobs # <<>>
        /\ job' = Head(jobs)
        /\ jobs' = Tail(jobs)
  /\ pending' = <<>>
  /\ pc' = "debounce"
  /\ UNCHANGED <<cycleVars, unsent, published, announced, outbox>>

\* A newer job replaces the one at hand until the channel stays quiet.
Collapse ==
  /\ pc = "debounce"
  /\ jobs # <<>>
  /\ job' = Head(jobs)
  /\ jobs' = Tail(jobs)
  /\ UNCHANGED <<pc, pending, cycleVars, unsent, published, announced, outbox>>

Quiet ==
  /\ pc = "debounce"
  /\ jobs = <<>>
  /\ serverUp
  /\ pc' = "collect"
  /\ UNCHANGED <<jobs, job, pending, cycleVars, unsent, published, announced, outbox>>

\* collect_sources: the walk over the root, re-read each cycle.
CollectSources ==
  /\ pc = "collect"
  /\ sources' = OverlaySources(disk, job)
  /\ byUri' = NoFindings(sources')
  /\ outcome' = "ok"
  /\ pc' = "check"
  /\ UNCHANGED <<jobs, job, pending, unsent, published, announced, outbox>>

\* check_sources: without the library there are no findings at all.
CheckSources ==
  /\ pc = "check"
  /\ \/ /\ library = "ok"
        /\ byUri' = CheckFindings(sources)
        /\ UNCHANGED outcome
     \/ /\ library = "unreadable"
        /\ outcome' = "failed"
        /\ UNCHANGED byUri
  /\ pc' = "lint"
  /\ UNCHANGED <<jobs, job, pending, sources, unsent, published, announced, outbox>>

\* The second build: the library is read again, then a unit that does not
\* parse refuses the session, then sysmlint.json is read.
LintSources ==
  /\ pc = "lint"
  /\ \/ /\ library = "unreadable"
        /\ outcome' = "failed"
        /\ UNCHANGED byUri
     \/ /\ library = "ok"
        /\ ~CanBuild(sources)
        /\ UNCHANGED <<byUri, outcome>>
     \/ /\ library = "ok"
        /\ CanBuild(sources)
        /\ byUri' = WithLint(byUri, sources, config)
        /\ UNCHANGED outcome
  /\ pc' = "report"
  /\ UNCHANGED <<jobs, job, pending, sources, unsent, published, announced, outbox>>

\* A panic anywhere in the cycle skips it; the thread stays up.
CyclePanics ==
  /\ pc \in {"collect", "check", "lint"}
  /\ Announce("panic")
  /\ outcome' = "panic"
  /\ pc' = "recv"
  /\ UNCHANGED <<jobs, job, pending, sources, byUri, unsent, published>>

ReportSilently ==
  /\ pc = "report"
  /\ pc' = "latest"
  /\ UNCHANGED <<jobs, job, pending, cycleVars, unsent, published, announced, outbox>>

Report ==
  /\ pc = "report"
  /\ IF outcome = "failed" THEN Announce("library") ELSE UNCHANGED <<announced, outbox>>
  /\ pc' = "latest"
  /\ UNCHANGED <<jobs, job, pending, cycleVars, unsent, published>>

SupersededForgetsJob ==
  /\ pc = "latest"
  /\ jobs # <<>>
  /\ jobs' = Tail(jobs)
  /\ pc' = "recv"
  /\ UNCHANGED <<pending, job, cycleVars, unsent, published, announced, outbox>>

\* Latest-only: a job that arrived during the computation wins, whatever
\* was computed.
Superseded ==
  /\ pc = "latest"
  /\ jobs # <<>>
  /\ pending' = <<Head(jobs)>>
  /\ jobs' = Tail(jobs)
  /\ pc' = "recv"
  /\ UNCHANGED <<job, cycleVars, unsent, published, announced, outbox>>

StartPublish ==
  /\ pc = "latest"
  /\ jobs = <<>>
  /\ unsent' = {u \in Uris : byUri[u] # Absent}
  /\ pc' = "publish"
  /\ UNCHANGED <<jobs, job, pending, cycleVars, published, announced, outbox>>

VersionOfOrMinusOne(docs, u) ==
  IF u \in Units /\ docs[u] # Absent THEN docs[u].version ELSE NoVersion - 1

VersionOf(docs, u) ==
  IF u \in Units /\ docs[u] # Absent THEN docs[u].version ELSE NoVersion

PublishOneNeverClears(u) ==
  /\ pc = "publish"
  /\ u \in unsent
  /\ unsent' = unsent \ {u}
  /\ outbox' = IF byUri[u] = {}
                 THEN outbox
                 ELSE Append(outbox, Publish(u, VersionOf(job, u), byUri[u]))
  /\ UNCHANGED <<jobs, pc, job, pending, cycleVars, published, announced>>

\* One entry of the loop over the findings, in any order (a hash map's):
\* an empty set is sent only to clear what the last cycle published.
PublishOne(u) ==
  /\ pc = "publish"
  /\ u \in unsent
  /\ unsent' = unsent \ {u}
  /\ outbox' = IF byUri[u] = {} /\ u \notin published
                 THEN outbox
                 ELSE Append(outbox, Publish(u, VersionOf(job, u), byUri[u]))
  /\ UNCHANGED <<jobs, pc, job, pending, cycleVars, published, announced>>

EndPublish ==
  /\ pc = "publish"
  /\ unsent = {}
  /\ published' = {u \in Uris : byUri[u] \notin {Absent, {}}}
  /\ pc' = "recv"
  /\ UNCHANGED <<jobs, job, pending, cycleVars, unsent, announced, outbox>>

DisconnectedAtRecvOnly ==
  /\ ~serverUp
  /\ jobs = <<>>
  /\ pc = "recv" /\ pending = <<>>
  /\ pc' = "ended"
  /\ UNCHANGED <<jobs, job, pending, cycleVars, unsent, published, announced, outbox>>

\* The main loop is gone: both receives return, with no job left to take.
Disconnected ==
  /\ ~serverUp
  /\ jobs = <<>>
  /\ \/ pc = "recv" /\ pending = <<>>
     \/ pc = "debounce"
  /\ pc' = "ended"
  /\ UNCHANGED <<jobs, job, pending, cycleVars, unsent, published, announced, outbox>>

WorkerStep ==
  /\ \/ Recv \/ Collapse \/ Quiet
     \/ CollectSources \/ CheckSources \/ LintSources
     \/ Report \/ Superseded \/ StartPublish \/ EndPublish
     \/ \E u \in Uris : PublishOne(u)
     \/ Disconnected
  /\ UNCHANGED <<envVars, serverUp>>

WorkerPcs == {"recv", "debounce", "collect", "check", "lint", "report",
              "latest", "publish", "ended", "off"}

WorkerTypeOK ==
  /\ disk \in Sources
  /\ config \in Configs
  /\ library \in {"ok", "unreadable"}
  /\ jobs \in Seq(Docs)
  /\ pc \in WorkerPcs
  /\ job \in Docs
  /\ pending \in Seq(Docs)
  /\ sources \in Sources
  /\ byUri \in [Uris -> {Absent} \cup SUBSET Findings]
  /\ outcome \in {"none", "ok", "failed", "panic"}
  /\ unsent \in SUBSET Uris
  /\ published \in SUBSET Uris
  /\ announced \in SUBSET Failures
  /\ serverUp \in BOOLEAN

=============================================================================
