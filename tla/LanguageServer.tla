---------------------------- MODULE LanguageServer ----------------------------
(***************************************************************************)
(* The language server's two diagnostics tiers over one editor session:    *)
(* the main loop of crates/sysmlv2-lsp/src/lib.rs, the worker thread of    *)
(* worker.rs (module DiagnosticsWorker), the editor at the other end of    *)
(* the connection, and the files both the user and other programs change.  *)
(*                                                                         *)
(* The main loop publishes a document's own syntax findings as each edit   *)
(* arrives and hands the worker a snapshot of the open documents; the      *)
(* worker publishes the model's findings when the edits pause.  Both send  *)
(* into one outgoing channel, and neither waits for the other.             *)
(***************************************************************************)
EXTENDS DiagnosticsWorker

CONSTANTS
  DiskTexts,  \* what other programs write to a model file (Absent: delete it)
  Prompt,     \* timing: a handler's last step takes less than the debounce
  MaxEdits,   \* bound: notifications the editor sends
  MaxOutside, \* bound: changes made outside the editor
  MaxPanics   \* bound: panics, in a handler or in a cycle

ASSUME SessionAssumption ==
  /\ DiskTexts \subseteq Texts \cup {Absent}
  /\ Prompt \in BOOLEAN
  /\ MaxEdits \in Nat /\ MaxOutside \in Nat /\ MaxPanics \in Nat

VARIABLES
  inbox,     \* notifications the editor sent and the main loop has not taken
  main,      \* where the main loop is: taking a message, or about to schedule
  docs,      \* the server's document store
  reported,  \* failures the main loop has shown
  editor,    \* the documents open in the editor
  view,      \* the findings the editor shows per uri
  strict,    \* the editor compares the versions of what it is sent
  told,      \* the failures the editor's user has been told of
  closing,   \* the editor has asked for shutdown
  edits, outside, panics,  \* what the bounds count
  fresh,     \* history: no outside change since the last cycle's first read
  dropped    \* history: uris published last that lost their entry uncleared

mainVars    == <<main, docs, reported>>
clientVars  == <<editor, view, strict, told, closing>>
countVars   == <<edits, outside, panics>>
historyVars == <<fresh, dropped>>
vars == <<envVars, workerVars, outbox, serverUp, inbox, mainVars, clientVars,
          countVars, historyVars>>

Open(u, d)    == [kind |-> "open", uri |-> u, doc |-> d]
Change(u, d)  == [kind |-> "change", uri |-> u, doc |-> d]
Close(u)      == [kind |-> "close", uri |-> u, doc |-> Absent]
Shutdown      == [kind |-> "shutdown", uri |-> Absent, doc |-> Absent]

\* The messages of the two channels.
Outgoing ==
  [kind : {"publish"}, uri : Uris, version : Nat, findings : SUBSET Findings]
    \cup [kind : {"show"}, message : Failures \cup {"off", "handler"}]
Incoming ==
  [kind : {"open", "change"}, uri : Units, doc : Doc]
    \cup [kind : {"close"}, uri : Units, doc : {Absent}]
    \cup {Shutdown}

(***************************************************************************)
(* Start: the worker's thread runs, or the host refused it its stack and   *)
(* the user is told that the workspace tier is off.                        *)
(***************************************************************************)
WorkerStarts ==
  \/ pc = "recv" /\ outbox = <<>>
  \/ pc = "off" /\ outbox = <<Show("off")>>

Init ==
  /\ disk \in [Units -> DiskTexts]
  /\ config \in Configs
  /\ library = "ok"
  /\ WorkerStarts
  /\ jobs = <<>> /\ job = NoDocs /\ pending = <<>>
  /\ sources = NoDocs
  /\ byUri = [u \in Uris |-> Absent]
  /\ outcome = "none"
  /\ unsent = {} /\ published = {} /\ announced = {}
  /\ serverUp = TRUE
  /\ inbox = <<>> /\ main = "recv" /\ docs = NoDocs /\ reported = {}
  /\ editor = NoDocs /\ view = [u \in Uris |-> {}] /\ told = {} /\ closing = FALSE
  /\ strict \in BOOLEAN
  /\ edits = 0 /\ outside = 0 /\ panics = 0
  /\ fresh = FALSE /\ dropped = {}

(***************************************************************************)
(* The editor (external): it numbers the versions of an open document and  *)
(* starts again at 1 when the document is opened again.                    *)
(***************************************************************************)
EditorSends(u, m, d) ==
  /\ ~closing
  /\ edits < MaxEdits
  /\ edits' = edits + 1
  /\ editor' = [editor EXCEPT ![u] = d]
  /\ inbox' = Append(inbox, m)
  /\ UNCHANGED <<envVars, workerVars, outbox, serverUp, mainVars, view, strict,
                 told, closing, outside, panics, historyVars>>

EditorOpens(u, t) ==
  LET d == [version |-> 1, text |-> t] IN
  /\ editor[u] = Absent
  /\ EditorSends(u, Open(u, d), d)

EditorChanges(u, t) ==
  LET d == [version |-> editor[u].version + 1, text |-> t] IN
  /\ editor[u] # Absent
  /\ EditorSends(u, Change(u, d), d)

EditorCloses(u) ==
  /\ editor[u] # Absent
  /\ EditorSends(u, Close(u), Absent)

EditorShutsDown ==
  /\ ~closing
  /\ closing' = TRUE
  /\ inbox' = Append(inbox, Shutdown)
  /\ UNCHANGED <<envVars, workerVars, outbox, serverUp, mainVars, editor, view,
                 strict, told, countVars, historyVars>>

\* The editor takes one message.  An editor that compares versions
\* discards a publish for another version of a document it has open.
Outdated(m) ==
  /\ m.version # NoVersion
  /\ VersionOf(editor, m.uri) \notin {NoVersion, m.version}

Deliver ==
  /\ outbox # <<>>
  /\ LET m == Head(outbox) IN
       \/ /\ m.kind = "publish"
          /\ view' = IF strict /\ Outdated(m) THEN view
                     ELSE [view EXCEPT ![m.uri] = m.findings]
          /\ UNCHANGED told
       \/ /\ m.kind = "show"
          /\ told' = told \cup {m.message}
          /\ UNCHANGED view
  /\ outbox' = Tail(outbox)
  /\ UNCHANGED <<envVars, workerVars, serverUp, inbox, mainVars, editor, strict, closing,
                 countVars, historyVars>>

(***************************************************************************)
(* Outside the editor: files are saved, written and deleted; the lint      *)
(* configuration and the library directory change.  Nothing is watched.    *)
(***************************************************************************)
OutsideStep ==
  /\ outside < MaxOutside
  /\ outside' = outside + 1
  /\ fresh' = FALSE
  /\ UNCHANGED <<workerVars, outbox, serverUp, inbox, mainVars, clientVars, edits,
                 panics, dropped>>

FileChanges(u, t) ==
  /\ disk[u] # t
  /\ disk' = [disk EXCEPT ![u] = t]
  /\ UNCHANGED <<config, library>>
  /\ OutsideStep

ConfigChanges(c) ==
  /\ config # c
  /\ config' = c
  /\ UNCHANGED <<disk, library>>
  /\ OutsideStep

LibraryChanges ==
  /\ library' = IF library = "ok" THEN "unreadable" ELSE "ok"
  /\ UNCHANGED <<disk, config>>
  /\ OutsideStep

(***************************************************************************)
(* The main loop.                                                          *)
(***************************************************************************)
Taking(kind) ==
  /\ main = "recv"
  /\ serverUp
  /\ inbox # <<>>
  /\ Head(inbox).kind = kind
  /\ inbox' = Tail(inbox)

\* The syntax tier: one text's own findings, under the document's version.
SyntaxPublish(u, d) ==
  Publish(u, d.version, ParseFindings(d.text) \cup ContextFindings(d.text))

\* didOpen and didChange: the syntax tier publishes, the store takes the
\* whole new text.
HandleEdit(kind) ==
  /\ Taking(kind)
  /\ LET u == Head(inbox).uri
         d == Head(inbox).doc IN
       /\ outbox' = Append(outbox, SyntaxPublish(u, d))
       /\ docs' = [docs EXCEPT ![u] = d]
  /\ main' = "schedule"
  /\ UNCHANGED <<envVars, workerVars, serverUp, reported, clientVars, countVars,
                 historyVars>>

\* didClose: the document leaves the store and its findings are cleared.
HandleClose ==
  /\ Taking("close")
  /\ LET u == Head(inbox).uri IN
       /\ docs' = [docs EXCEPT ![u] = Absent]
       /\ outbox' = Append(outbox, Publish(u, NoVersion, {}))
  /\ main' = "schedule"
  /\ UNCHANGED <<envVars, workerVars, serverUp, reported, clientVars, countVars,
                 historyVars>>

\* A panic while an edit is parsed drops the notification: nothing is
\* published, stored or scheduled, and the failure is shown once.
HandlerPanics(kind) ==
  /\ panics < MaxPanics
  /\ Taking(kind)
  /\ panics' = panics + 1
  /\ reported' = reported \cup {"handler"}
  /\ outbox' = IF "handler" \in reported THEN outbox ELSE Append(outbox, Show("handler"))
  /\ UNCHANGED <<envVars, workerVars, serverUp, main, docs, clientVars, edits,
                 outside, historyVars>>

\* A worker that has no thread drops every job.
Schedule(j) == jobs' = IF pc = "off" THEN jobs ELSE Append(jobs, j)

\* The last step of the three handlers: a snapshot of the store to the
\* worker.
ScheduleWorkspace ==
  /\ main = "schedule"
  /\ main' = "recv"
  /\ Schedule(docs)
  /\ UNCHANGED <<envVars, pc, job, pending, cycleVars, unsent, published, announced,
                 outbox, serverUp, inbox, docs, reported, clientVars, countVars,
                 historyVars>>

\* Shutdown ends the loop, and with it the only sender of jobs.
HandleShutdown ==
  /\ Taking("shutdown")
  /\ serverUp' = FALSE
  /\ UNCHANGED <<envVars, workerVars, outbox, mainVars, clientVars, countVars,
                 historyVars>>

(***************************************************************************)
(* The worker, with the history of what it read and what it left behind.   *)
(***************************************************************************)
WorkerRuns ==
  /\ WorkerStep
  /\ Prompt /\ pc = "debounce" /\ pc' = "collect" => main = "recv"
  /\ fresh' = (fresh \/ pc' = "check")
  /\ dropped' = IF pc = "publish" /\ pc' = "recv"
                  THEN dropped \cup {u \in published : byUri[u] = Absent}
                  ELSE dropped
  /\ UNCHANGED <<inbox, mainVars, clientVars, countVars>>

CyclePanicked ==
  /\ panics < MaxPanics
  /\ panics' = panics + 1
  /\ CyclePanics
  /\ UNCHANGED <<envVars, serverUp, inbox, mainVars, clientVars, edits, outside,
                 historyVars>>

MainStep ==
  \/ HandleEdit("open") \/ HandleEdit("change") \/ HandleClose
  \/ ScheduleWorkspace \/ HandleShutdown
  \/ HandlerPanics("open") \/ HandlerPanics("change")

EditorStep ==
  \/ \E u \in Units, t \in Texts : EditorOpens(u, t) \/ EditorChanges(u, t)
  \/ \E u \in Units : EditorCloses(u)
  \/ EditorShutsDown

Outside ==
  \/ \E u \in Units, t \in DiskTexts : FileChanges(u, t)
  \/ \E c \in Configs : ConfigChanges(c)
  \/ LibraryChanges

Next == EditorStep \/ Deliver \/ Outside \/ MainStep \/ WorkerRuns \/ CyclePanicked

Spec == Init /\ [][Next]_vars

(***************************************************************************)
(* Both threads are scheduled, and the editor reads what it is sent.  No   *)
(* fairness on what the user, other programs or panics do.                 *)
(***************************************************************************)
Handle == HandleEdit("open") \/ HandleEdit("change") \/ HandleClose
            \/ ScheduleWorkspace \/ HandleShutdown

FairSpec ==
  Spec /\ WF_vars(Handle) /\ WF_vars(WorkerRuns) /\ WF_vars(Deliver)

(***************************************************************************)
(* Properties.                                                             *)
(***************************************************************************)
TypeOK ==
  /\ WorkerTypeOK
  /\ outbox \in Seq(Outgoing)
  /\ inbox \in Seq(Incoming)
  /\ main \in {"recv", "schedule"}
  /\ docs \in Docs
  /\ reported \subseteq {"handler"}
  /\ editor \in Docs
  /\ view \in [Uris -> SUBSET Findings]
  /\ told \subseteq Failures \cup {"off", "handler"}
  /\ strict \in BOOLEAN /\ closing \in BOOLEAN
  /\ edits \in 0..MaxEdits /\ outside \in 0..MaxOutside /\ panics \in 0..MaxPanics
  /\ fresh \in BOOLEAN
  /\ dropped \subseteq Uris

\* The newest snapshot the worker holds, in the channel or on its stack.
NewestSnapshot ==
  IF jobs # <<>> THEN jobs[Len(jobs)]
  ELSE IF pending # <<>> THEN Head(pending) ELSE job

\* No edit is lost between the tiers: whatever the worker debounces,
\* replaces or abandons, the newest snapshot it holds is the document store
\* the main loop holds (run's debounce and latest-only receive against
\* schedule_workspace).
LatestSnapshot == main = "recv" /\ pc # "off" => NewestSnapshot = docs

\* Nothing is on its way anywhere.
Quiescent ==
  /\ inbox = <<>> /\ main = "recv"
  /\ jobs = <<>> /\ pending = <<>> /\ pc \in {"recv", "off", "ended"}
  /\ outbox = <<>>

\* What checking the workspace once, as it is now, would find.
Expected ==
  LET s == OverlaySources(disk, docs) IN
  IF CanBuild(s) THEN WithLint(CheckFindings(s), s, config) ELSE CheckFindings(s)

\* When everything has been delivered and nothing changed on disk since the
\* last cycle read it, the editor shows exactly what one check of the
\* workspace would find: the two tiers' publishes, the ones the editor
\* discarded and the clears the worker left out as needless add up.
\* Excepted are uris that left the findings uncleared (see ClearsVanished)
\* and documents whose last edit a handler panic dropped.
ViewIsCurrent ==
  Quiescent /\ pc = "recv" /\ outcome = "ok" /\ fresh =>
    \A u \in Uris \ dropped :
      (u \in Units => docs[u] = editor[u]) => view[u] = OrDefault(Expected[u])

\* A tier that could not do its work never reads as "no problems here": at
\* rest, a failed or panicking cycle, a worker that never started and an
\* edit the main loop dropped have each been shown to the user.
NoSilentLoss ==
  Quiescent =>
    /\ outcome = "panic" => "panic" \in told
    /\ outcome = "failed" => "library" \in told
    /\ pc = "off" => "off" \in told
    /\ docs # editor => "handler" \in told

\* One popup per failure, however often it recurs and whichever tier it
\* strikes (announce, show_message_once).
ToldOnce ==
  \A m \in Failures \cup {"off", "handler"} :
    LET queued == {i \in 1..Len(outbox) : outbox[i] = Show(m)} IN
    Cardinality(queued) <= IF m \in told THEN 0 ELSE 1

\* A uri whose findings vanished, or that left the workspace, is cleared.
ClearsVanished ==
  Quiescent /\ pc = "recv" /\ outcome = "ok" /\ fresh =>
    \A u \in Uris : byUri[u] = Absent => view[u] = {}

\* Once the user stops typing, the session comes to rest: no exchange
\* between the tiers keeps the worker going.
Settles == <>[]Quiescent

\* The thread ends after the main loop does, from wherever it is, so that
\* the last sender of the outgoing channel goes away.
WorkerEnds == ~serverUp ~> pc \in {"ended", "off"}

=============================================================================
