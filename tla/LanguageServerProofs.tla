------------------------- MODULE LanguageServerProofs -------------------------
(***************************************************************************)
(* For every workspace, every behaviour of the checks and every bound: the *)
(* session is type correct, and the worker never loses the newest snapshot *)
(* of the documents, whatever it debounces, replaces or abandons.  The user *)
(* is told of a failure once and only once, and a tier that could not do    *)
(* its work never reads as "no problems here".                              *)
(***************************************************************************)
EXTENDS LanguageServer, SequenceTheorems, FiniteSetTheorems, TLAPS

\* Where the worker's locals may be occupied: a replacing job waits only at
\* the top of the loop, and the publish loop visits only uris with findings.
LocalsInv ==
  /\ pending # <<>> => pc = "recv"
  /\ unsent # {} => pc = "publish"
  /\ \A u \in unsent : byUri[u] # Absent

IInv == TypeOK /\ LatestSnapshot /\ LocalsInv

(***************************************************************************)
(* The operators of a cycle.                                               *)
(***************************************************************************)

\* Overlaying open documents on the files on disk yields sources.
LEMMA OverlaySourcesType ==
  ASSUME NEW d \in Sources, NEW ds \in Docs
  PROVE  OverlaySources(d, ds) \in Sources
  BY DEF OverlaySources, Sources, Docs, Doc

\* The three stages of a cycle each yield findings per uri.
LEMMA CycleFindingsType ==
  ASSUME NEW s \in Sources, NEW c \in Configs,
         NEW found \in [Uris -> {Absent} \cup SUBSET Findings]
  PROVE  /\ NoFindings(s) \in [Uris -> {Absent} \cup SUBSET Findings]
         /\ CheckFindings(s) \in [Uris -> {Absent} \cup SUBSET Findings]
         /\ WithLint(found, s, c) \in [Uris -> {Absent} \cup SUBSET Findings]
<1>1. NoFindings(s) \in [Uris -> {Absent} \cup SUBSET Findings]
  BY DEF NoFindings
<1>2. CheckFindings(s) \in [Uris -> {Absent} \cup SUBSET Findings]
  <2>1. CleanUnits(s) \in [Units -> Texts \cup {Absent}]
    BY DEF CleanUnits, Sources
  <2>2. \A u \in Units : ModelFindings(CleanUnits(s), u) \in SUBSET Findings
    BY <2>1, WorkerAssumption
  <2>3. \A t \in Texts : UnitFindings(t) \in SUBSET Findings
    BY WorkerAssumption DEF UnitFindings
  <2>4. \A u \in Units : s[u] # Absent => UnitFindings(s[u]) \in SUBSET Findings
    BY <2>3 DEF Sources
  <2>5. QED
    BY <2>2, <2>4 DEF CheckFindings, Uris
<1>3. WithLint(found, s, c) \in [Uris -> {Absent} \cup SUBSET Findings]
  <2>1. ASSUME NEW u \in Units
        PROVE  OrDefault(found[u]) \cup LintFindings(s, c, u) \in SUBSET Findings
    BY <2>1, WorkerAssumption DEF Sources, OrDefault, Uris
  <2>2. ConfigFindings(c) \in SUBSET Findings
    BY WorkerAssumption
  <2>3. QED
    BY <2>1, <2>2 DEF WithLint, Uris
<1>4. QED
  BY <1>1, <1>2, <1>3

\* A sequence ends as the one without its first element does.
LEMMA ShiftKeepsLast ==
  ASSUME NEW S, NEW q \in Seq(S), NEW t \in Seq(S), q # <<>>,
         Len(t) = Len(q) - 1, \A i \in 1..Len(t) : t[i] = q[i + 1]
  PROVE  q[Len(q)] = IF t = <<>> THEN q[1] ELSE t[Len(t)]
<1>1. Len(q) \in Nat \ {0}
  OBVIOUS
<1>2. CASE t = <<>>
  <2>1. Len(q) - 1 = 0
    BY <1>2
  <2>2. Len(q) = 1
    BY <1>1, <2>1
  <2>3. QED
    BY <1>2, <2>2
<1>3. CASE t # <<>>
  <2>1. Len(t) \in 1..Len(t)
    BY <1>3
  <2>2. QED
    BY <1>1, <1>3, <2>1
<1>4. QED
  BY <1>2, <1>3

\* Taking the head off a sequence of snapshots keeps its last element.
LEMMA TailKeepsLast ==
  ASSUME NEW S, NEW q \in Seq(S), q # <<>>
  PROVE  /\ Head(q) \in S
         /\ Tail(q) \in Seq(S)
         /\ q[Len(q)] = IF Tail(q) = <<>> THEN Head(q) ELSE Tail(q)[Len(Tail(q))]
<1>1. /\ Head(q) \in S
      /\ Tail(q) \in Seq(S)
      /\ Len(Tail(q)) = Len(q) - 1
      /\ \A i \in 1..Len(Tail(q)) : Tail(q)[i] = q[i + 1]
  BY HeadTailProperties
<1>2. Head(q) = q[1]
  OBVIOUS
<1>3. q[Len(q)] = IF Tail(q) = <<>> THEN q[1] ELSE Tail(q)[Len(Tail(q))]
  BY <1>1, ShiftKeepsLast, Zenon
<1>4. QED
  BY <1>1, <1>2, <1>3, Zenon

\* Appending an element makes it the last.
LEMMA AppendLast ==
  ASSUME NEW S, NEW q \in Seq(S), NEW e \in S
  PROVE  /\ Append(q, e) \in Seq(S)
         /\ Append(q, e) # <<>>
         /\ Append(q, e)[Len(Append(q, e))] = e
  OBVIOUS

(***************************************************************************)
(* The inductive invariant holds initially and is kept by every action.    *)
(***************************************************************************)

\* A session starts with nothing open, nothing queued and nothing shown.
LEMMA InitEstablishes == Init => IInv
<1> SUFFICES ASSUME Init PROVE IInv
  OBVIOUS
<1>1. NoDocs \in Docs /\ NoDocs \in Sources
  BY DEF NoDocs, Docs, Sources
<1>2. disk \in Sources
  BY SessionAssumption DEF Init, Sources
<1>3. WorkerTypeOK
  <2>1. pc \in WorkerPcs
    BY DEF Init, WorkerStarts, WorkerPcs
  <2>2. byUri \in [Uris -> {Absent} \cup SUBSET Findings]
    BY DEF Init
  <2>3. <<>> \in Seq(Docs)
    OBVIOUS
  <2>4. /\ job \in Docs /\ sources \in Sources /\ jobs \in Seq(Docs)
        /\ pending \in Seq(Docs)
    BY <1>1, <2>3 DEF Init
  <2>5. QED
    BY <1>2, <2>1, <2>2, <2>4 DEF Init, WorkerTypeOK
<1>4. outbox \in Seq(Outgoing)
  <2>1. Show("off") \in Outgoing
    BY DEF Outgoing, Show
  <2>2. <<>> \in Seq(Outgoing) /\ <<Show("off")>> \in Seq(Outgoing)
    BY <2>1
  <2>3. QED
    BY <2>2 DEF Init, WorkerStarts
<1>5. TypeOK
  <2>1. strict \in BOOLEAN /\ closing \in BOOLEAN /\ fresh \in BOOLEAN
    BY DEF Init
  <2>2. inbox \in Seq(Incoming)
    BY DEF Init
  <2>3. QED
    BY <1>1, <1>3, <1>4, <2>1, <2>2, SessionAssumption DEF Init, TypeOK
<1>6. LatestSnapshot /\ LocalsInv
  BY DEF Init, LatestSnapshot, NewestSnapshot, LocalsInv
<1>7. QED
  BY <1>5, <1>6 DEF IInv

\* Steps that leave the worker, its channel and the store alone keep what
\* the invariant says about them.
LEMMA WorkerUntouched ==
  ASSUME IInv, UNCHANGED <<workerVars, main, docs>>
  PROVE  LatestSnapshot' /\ LocalsInv'
  BY DEF IInv, LatestSnapshot, NewestSnapshot, LocalsInv, workerVars

\* What the editor sends.
LEMMA EditorPreserves == IInv /\ EditorStep => IInv'
<1> SUFFICES ASSUME IInv, EditorStep PROVE IInv'
  OBVIOUS
<1> USE DEF IInv
<1>1. ASSUME NEW u \in Units, NEW m \in Incoming, NEW d \in Doc \cup {Absent},
             EditorSends(u, m, d)
      PROVE  TypeOK'
  BY <1>1, SessionAssumption
     DEF TypeOK, WorkerTypeOK, EditorSends, envVars, workerVars, mainVars,
         historyVars, Docs
<1>2. ASSUME NEW u \in Units, NEW t \in Texts, EditorOpens(u, t)
      PROVE  TypeOK'
  <2> DEFINE d == [version |-> 1, text |-> t]
  <2>1. d \in Doc /\ Open(u, d) \in Incoming
    BY DEF Doc, NoVersion, Open, Incoming
  <2>2. EditorSends(u, Open(u, d), d)
    BY <1>2 DEF EditorOpens
  <2>3. QED
    BY <1>1, <2>1, <2>2
<1>3. ASSUME NEW u \in Units, NEW t \in Texts, EditorChanges(u, t)
      PROVE  TypeOK'
  <2> DEFINE d == [version |-> editor[u].version + 1, text |-> t]
  <2>1. editor[u] \in Doc
    BY <1>3 DEF EditorChanges, TypeOK, Docs
  <2>2. d \in Doc /\ Change(u, d) \in Incoming
    BY <2>1 DEF Doc, NoVersion, Change, Incoming
  <2>3. EditorSends(u, Change(u, d), d)
    BY <1>3 DEF EditorChanges
  <2>4. QED
    BY <1>1, <2>2, <2>3
<1>4. ASSUME NEW u \in Units, EditorCloses(u)
      PROVE  TypeOK'
  <2>1. Close(u) \in Incoming
    BY DEF Close, Incoming
  <2>2. EditorSends(u, Close(u), Absent)
    BY <1>4 DEF EditorCloses
  <2>3. QED
    BY <1>1, <2>1, <2>2
<1>5. ASSUME EditorShutsDown PROVE TypeOK'
  <2>1. Shutdown \in Incoming
    BY DEF Incoming
  <2>2. QED
    BY <1>5, <2>1
       DEF TypeOK, WorkerTypeOK, EditorShutsDown, envVars, workerVars, mainVars,
           countVars, historyVars
<1>6. UNCHANGED <<workerVars, main, docs>>
  BY DEF EditorStep, EditorOpens, EditorChanges, EditorCloses, EditorShutsDown,
         EditorSends, mainVars
<1>7. LatestSnapshot' /\ LocalsInv'
  BY <1>6, WorkerUntouched
<1>8. QED
  BY <1>2, <1>3, <1>4, <1>5, <1>7 DEF EditorStep

\* What the editor takes.
LEMMA DeliverPreserves == IInv /\ Deliver => IInv'
<1> SUFFICES ASSUME IInv, Deliver PROVE IInv'
  OBVIOUS
<1> USE DEF IInv
<1> DEFINE m == Head(outbox)
<1>1. m \in Outgoing /\ outbox' \in Seq(Outgoing)
  BY HeadTailProperties DEF Deliver, TypeOK
<1>2. view' \in [Uris -> SUBSET Findings]
  <2>1. CASE m.kind = "publish"
    <3>1. m.findings \in SUBSET Findings
      BY <1>1, <2>1 DEF Outgoing
    <3>2. view' = view \/ view' = [view EXCEPT ![m.uri] = m.findings]
      BY <2>1 DEF Deliver
    <3>3. QED
      BY <3>1, <3>2 DEF TypeOK
  <2>2. CASE m.kind # "publish"
    BY <2>2 DEF Deliver, TypeOK
  <2>3. QED
    BY <2>1, <2>2
<1>3. told' \subseteq Failures \cup {"off", "handler"}
  <2>1. CASE m.kind = "show"
    <3>1. m.message \in Failures \cup {"off", "handler"}
      BY <1>1, <2>1 DEF Outgoing
    <3>2. told' = told \cup {m.message}
      BY <2>1 DEF Deliver
    <3>3. QED
      BY <3>1, <3>2 DEF TypeOK
  <2>2. CASE m.kind # "show"
    BY <2>2 DEF Deliver, TypeOK
  <2>3. QED
    BY <2>1, <2>2
<1>4. TypeOK'
  BY <1>1, <1>2, <1>3
     DEF TypeOK, WorkerTypeOK, Deliver, envVars, workerVars, mainVars, countVars,
         historyVars
<1>5. LatestSnapshot' /\ LocalsInv'
  BY WorkerUntouched DEF Deliver, mainVars
<1>6. QED
  BY <1>4, <1>5

\* What changes outside the editor.
LEMMA OutsidePreserves == IInv /\ Outside => IInv'
<1> SUFFICES ASSUME IInv, Outside PROVE IInv'
  OBVIOUS
<1> USE DEF IInv
<1>1. /\ disk' \in Sources
      /\ config' \in Configs
      /\ library' \in {"ok", "unreadable"}
  <2>1. ASSUME NEW u \in Units, NEW t \in DiskTexts, FileChanges(u, t)
        PROVE  <1>1
    BY <2>1, SessionAssumption DEF TypeOK, WorkerTypeOK, Sources, FileChanges
  <2>2. ASSUME NEW c \in Configs, ConfigChanges(c)
        PROVE  <1>1
    BY <2>2 DEF TypeOK, WorkerTypeOK, ConfigChanges
  <2>3. CASE LibraryChanges
    BY <2>3 DEF TypeOK, WorkerTypeOK, LibraryChanges
  <2>4. QED
    BY <2>1, <2>2, <2>3 DEF Outside
<1>2. OutsideStep
  BY DEF Outside, FileChanges, ConfigChanges, LibraryChanges
<1>3. TypeOK'
  <2>1. fresh' \in BOOLEAN
    BY <1>2 DEF OutsideStep
  <2>2. QED
    BY <1>1, <1>2, <2>1, SessionAssumption
       DEF TypeOK, WorkerTypeOK, OutsideStep, workerVars, mainVars, clientVars
<1>4. LatestSnapshot' /\ LocalsInv'
  BY <1>2, WorkerUntouched DEF OutsideStep, mainVars
<1>5. QED
  BY <1>3, <1>4

\* Taking a message leaves a well-formed channel, and an edit's message
\* carries a document.
LEMMA TakingType ==
  ASSUME TypeOK, NEW kind \in {"open", "change", "close", "shutdown"}, Taking(kind)
  PROVE  /\ inbox' \in Seq(Incoming)
         /\ kind \in {"open", "change"} =>
              Head(inbox).uri \in Units /\ Head(inbox).doc \in Doc
         /\ kind = "close" => Head(inbox).uri \in Units
<1>1. Head(inbox) \in Incoming /\ inbox' \in Seq(Incoming)
  BY HeadTailProperties DEF TypeOK, Taking
<1>2. Head(inbox).kind = kind
  BY DEF Taking
<1>3. QED
  BY <1>1, <1>2 DEF Incoming, Shutdown

\* Until the handler schedules, the newest snapshot may be behind the store.
LEMMA StoreChanges ==
  ASSUME IInv, UNCHANGED workerVars, main' = "schedule"
  PROVE  LatestSnapshot' /\ LocalsInv'
  BY DEF IInv, LatestSnapshot, LocalsInv, workerVars

\* didOpen and didChange.
LEMMA HandleEditPreserves ==
  ASSUME IInv, NEW kind \in {"open", "change"}, HandleEdit(kind)
  PROVE  IInv'
<1> USE DEF IInv
<1> DEFINE u == Head(inbox).uri
           d == Head(inbox).doc
<1>1. inbox' \in Seq(Incoming) /\ u \in Units /\ d \in Doc
  BY TakingType DEF HandleEdit
<1>2. SyntaxPublish(u, d) \in Outgoing
  BY <1>1, WorkerAssumption DEF Doc, SyntaxPublish, Publish, Outgoing, Uris
<1>3. outbox' \in Seq(Outgoing)
  BY <1>2 DEF HandleEdit, TypeOK
<1>4. docs' \in Docs
  BY <1>1 DEF HandleEdit, TypeOK, Docs
<1>5. TypeOK'
  BY <1>1, <1>3, <1>4
     DEF TypeOK, WorkerTypeOK, HandleEdit, envVars, workerVars, clientVars,
         countVars, historyVars
<1>6. LatestSnapshot' /\ LocalsInv'
  BY StoreChanges DEF HandleEdit
<1>7. QED
  BY <1>5, <1>6

\* didClose.
LEMMA HandleClosePreserves == IInv /\ HandleClose => IInv'
<1> SUFFICES ASSUME IInv, HandleClose PROVE IInv'
  OBVIOUS
<1> USE DEF IInv
<1> DEFINE u == Head(inbox).uri
<1>1. inbox' \in Seq(Incoming) /\ u \in Units
  BY TakingType DEF HandleClose
<1>2. Publish(u, NoVersion, {}) \in Outgoing
  BY <1>1 DEF Publish, Outgoing, Uris, NoVersion
<1>3. outbox' \in Seq(Outgoing)
  BY <1>2 DEF HandleClose, TypeOK
<1>4. docs' \in Docs
  BY <1>1 DEF HandleClose, TypeOK, Docs
<1>5. TypeOK'
  BY <1>1, <1>3, <1>4
     DEF TypeOK, WorkerTypeOK, HandleClose, envVars, workerVars, clientVars,
         countVars, historyVars
<1>6. LatestSnapshot' /\ LocalsInv'
  BY StoreChanges DEF HandleClose
<1>7. QED
  BY <1>5, <1>6

\* A handler that panics.
LEMMA HandlerPanicsPreserves ==
  ASSUME IInv, NEW kind \in {"open", "change"}, HandlerPanics(kind)
  PROVE  IInv'
<1> USE DEF IInv
<1>1. inbox' \in Seq(Incoming)
  BY TakingType DEF HandlerPanics
<1>2. Show("handler") \in Outgoing
  BY DEF Show, Outgoing
<1>3. outbox' \in Seq(Outgoing)
  BY <1>2 DEF HandlerPanics, TypeOK
<1>4. TypeOK'
  BY <1>1, <1>3, SessionAssumption
     DEF TypeOK, WorkerTypeOK, HandlerPanics, envVars, workerVars, clientVars,
         historyVars
<1>5. LatestSnapshot' /\ LocalsInv'
  BY WorkerUntouched DEF HandlerPanics
<1>6. QED
  BY <1>4, <1>5

\* The snapshot a handler schedules is the store.
LEMMA SchedulePreserves == IInv /\ ScheduleWorkspace => IInv'
<1> SUFFICES ASSUME IInv, ScheduleWorkspace PROVE IInv'
  OBVIOUS
<1> USE DEF IInv
<1>1. jobs \in Seq(Docs) /\ docs \in Docs
  BY DEF TypeOK, WorkerTypeOK
<1>2. /\ Append(jobs, docs) \in Seq(Docs)
      /\ Append(jobs, docs) # <<>>
      /\ Append(jobs, docs)[Len(Append(jobs, docs))] = docs
  BY <1>1, AppendLast
<1>3. jobs' \in Seq(Docs)
  BY <1>1, <1>2 DEF ScheduleWorkspace, Schedule
<1>4. TypeOK'
  BY <1>3
     DEF TypeOK, WorkerTypeOK, ScheduleWorkspace, envVars, cycleVars, clientVars,
         countVars, historyVars
<1>5. LatestSnapshot'
  <2>1. CASE pc = "off"
    BY <2>1 DEF ScheduleWorkspace, LatestSnapshot
  <2>2. CASE pc # "off"
    <3>1. jobs' = Append(jobs, docs) /\ docs' = docs
      BY <2>2 DEF ScheduleWorkspace, Schedule
    <3>2. NewestSnapshot' = docs'
      BY <1>2, <3>1, Zenon DEF NewestSnapshot
    <3>3. QED
      BY <3>2 DEF LatestSnapshot
  <2>3. QED
    BY <2>1, <2>2
<1>6. LocalsInv'
  BY DEF LocalsInv, ScheduleWorkspace, cycleVars
<1>7. QED
  BY <1>4, <1>5, <1>6

\* Shutdown.
LEMMA HandleShutdownPreserves == IInv /\ HandleShutdown => IInv'
<1> SUFFICES ASSUME IInv, HandleShutdown PROVE IInv'
  OBVIOUS
<1> USE DEF IInv
<1>1. inbox' \in Seq(Incoming)
  BY TakingType DEF HandleShutdown
<1>2. serverUp' \in BOOLEAN
  BY DEF HandleShutdown
<1>3. TypeOK'
  BY <1>1, <1>2
     DEF TypeOK, WorkerTypeOK, HandleShutdown, envVars, workerVars, mainVars,
         clientVars, countVars, historyVars
<1>4. LatestSnapshot' /\ LocalsInv'
  BY WorkerUntouched DEF HandleShutdown, mainVars
<1>5. QED
  BY <1>3, <1>4

(***************************************************************************)
(* The worker's steps, with the store they are compared against unchanged. *)
(***************************************************************************)
WorkerInv ==
  /\ WorkerTypeOK
  /\ outbox \in Seq(Outgoing)
  /\ LatestSnapshot
  /\ LocalsInv

Frame == UNCHANGED <<envVars, serverUp, main, docs>>

\* The loop's three receives: what is taken is the oldest snapshot held, so
\* the newest stays.
LEMMA ReceivesPreserve ==
  ASSUME WorkerInv, Frame, Recv \/ Collapse \/ Superseded
  PROVE  WorkerInv'
<1> USE DEF WorkerInv, Frame
<1>1. /\ jobs # <<>> =>
           /\ Head(jobs) \in Docs /\ Tail(jobs) \in Seq(Docs)
           /\ jobs[Len(jobs)] = IF Tail(jobs) = <<>> THEN Head(jobs)
                               ELSE Tail(jobs)[Len(Tail(jobs))]
      /\ pending # <<>> => Head(pending) \in Docs
  BY TailKeepsLast, HeadTailProperties DEF WorkerTypeOK
<1>2. <<>> \in Seq(Docs)
  OBVIOUS
<1>3. CASE Recv
  <2>1. WorkerTypeOK'
    BY <1>1, <1>2, <1>3 DEF WorkerTypeOK, Recv, WorkerPcs, envVars, cycleVars
  <2>2. NewestSnapshot' = NewestSnapshot
    BY <1>1, <1>3, Zenon DEF NewestSnapshot, Recv
  <2>3. LatestSnapshot' /\ LocalsInv'
    BY <1>3, <2>2 DEF LatestSnapshot, LocalsInv, Recv, cycleVars
  <2>4. QED
    BY <1>3, <2>1, <2>3 DEF Recv
<1>4. CASE Collapse
  <2>1. WorkerTypeOK'
    BY <1>1, <1>4 DEF WorkerTypeOK, Collapse, envVars, cycleVars
  <2>2. pending = <<>>
    BY <1>4 DEF LocalsInv, Collapse
  <2>3. NewestSnapshot' = NewestSnapshot
    BY <1>1, <1>4, <2>2, Zenon DEF NewestSnapshot, Collapse
  <2>4. LatestSnapshot' /\ LocalsInv'
    BY <1>4, <2>3 DEF LatestSnapshot, LocalsInv, Collapse, cycleVars
  <2>5. QED
    BY <1>4, <2>1, <2>4 DEF Collapse
<1>5. CASE Superseded
  <2>1. <<Head(jobs)>> \in Seq(Docs) /\ <<Head(jobs)>> # <<>> /\ Head(<<Head(jobs)>>) = Head(jobs)
    BY <1>1, <1>5 DEF Superseded
  <2>2. WorkerTypeOK'
    BY <1>1, <1>5, <2>1 DEF WorkerTypeOK, Superseded, WorkerPcs, envVars, cycleVars
  <2>3. NewestSnapshot' = NewestSnapshot
    BY <1>1, <1>5, <2>1, Zenon DEF NewestSnapshot, Superseded
  <2>4. LatestSnapshot' /\ LocalsInv'
    BY <1>5, <2>3 DEF LatestSnapshot, LocalsInv, Superseded, cycleVars
  <2>5. QED
    BY <1>5, <2>2, <2>4 DEF Superseded
<1>6. QED
  BY <1>3, <1>4, <1>5

\* The steps of a cycle compute; they take nothing off the channel.
LEMMA CyclePreserves ==
  ASSUME WorkerInv, Frame, CollectSources \/ CheckSources \/ LintSources
  PROVE  WorkerInv'
<1> USE DEF WorkerInv, Frame
<1>1. UNCHANGED <<jobs, job, pending, unsent, published, announced, outbox>>
  BY DEF CollectSources, CheckSources, LintSources
<1>2. pc \in {"collect", "check", "lint"} /\ pc' \in {"check", "lint", "report"}
  BY DEF CollectSources, CheckSources, LintSources
<1>3. pending = <<>> /\ unsent = {}
  BY <1>2 DEF LocalsInv
<1>4. LatestSnapshot' /\ LocalsInv'
  BY <1>1, <1>2, <1>3 DEF LatestSnapshot, NewestSnapshot, LocalsInv
<1>5. /\ sources' \in Sources
      /\ byUri' \in [Uris -> {Absent} \cup SUBSET Findings]
      /\ outcome' \in {"none", "ok", "failed", "panic"}
  <2>1. CASE CollectSources
    <3>1. sources' \in Sources
      BY <2>1, OverlaySourcesType DEF CollectSources, WorkerTypeOK
    <3>2. byUri' \in [Uris -> {Absent} \cup SUBSET Findings]
      BY <2>1, <3>1, CycleFindingsType DEF CollectSources, WorkerTypeOK
    <3>3. QED
      BY <2>1, <3>1, <3>2 DEF CollectSources
  <2>2. CASE CheckSources
    <3>1. CheckFindings(sources) \in [Uris -> {Absent} \cup SUBSET Findings]
      BY CycleFindingsType DEF WorkerTypeOK
    <3>2. QED
      BY <2>2, <3>1 DEF CheckSources, WorkerTypeOK
  <2>3. CASE LintSources
    <3>1. WithLint(byUri, sources, config) \in [Uris -> {Absent} \cup SUBSET Findings]
      BY CycleFindingsType DEF WorkerTypeOK
    <3>2. QED
      BY <2>3, <3>1 DEF LintSources, WorkerTypeOK
  <2>4. QED
    BY <2>1, <2>2, <2>3
<1>6. WorkerTypeOK'
  BY <1>1, <1>2, <1>5 DEF WorkerTypeOK, WorkerPcs, envVars
<1>7. QED
  BY <1>1, <1>4, <1>6

\* Announcing a failure sends at most one message.
LEMMA AnnounceType ==
  ASSUME WorkerInv, NEW m \in Failures, Announce(m)
  PROVE  announced' \in SUBSET Failures /\ outbox' \in Seq(Outgoing)
<1>1. Show(m) \in Outgoing
  BY DEF Show, Outgoing
<1>2. QED
  BY <1>1 DEF Announce, WorkerInv, WorkerTypeOK

\* A panic and the reports of a cycle.
LEMMA ReportsPreserve ==
  ASSUME WorkerInv, Frame, Report \/ CyclePanics
  PROVE  WorkerInv'
<1> USE DEF WorkerInv, Frame
<1>1. announced' \in SUBSET Failures /\ outbox' \in Seq(Outgoing)
  BY AnnounceType DEF Report, CyclePanics, Failures, WorkerTypeOK
<1>2. UNCHANGED <<jobs, job, pending, sources, byUri, unsent, published>>
  BY DEF Report, CyclePanics, cycleVars
<1>3. /\ pc \in {"collect", "check", "lint", "report"}
      /\ pc' \in {"recv", "latest"}
      /\ outcome' \in {outcome, "panic"}
  BY DEF Report, CyclePanics, cycleVars
<1>4. WorkerTypeOK'
  BY <1>1, <1>2, <1>3 DEF WorkerTypeOK, WorkerPcs, envVars
<1>5. pending = <<>> /\ unsent = {}
  BY <1>3 DEF LocalsInv
<1>6. LatestSnapshot' /\ LocalsInv'
  BY <1>2, <1>3, <1>5 DEF LatestSnapshot, NewestSnapshot, LocalsInv
<1>7. QED
  BY <1>1, <1>4, <1>6

\* The publish loop.
LEMMA PublishPreserves ==
  ASSUME WorkerInv, Frame, StartPublish \/ EndPublish \/ \E u \in Uris : PublishOne(u)
  PROVE  WorkerInv'
<1> USE DEF WorkerInv, Frame
<1>1. UNCHANGED <<jobs, job, pending, sources, byUri, outcome, announced>>
  BY DEF StartPublish, EndPublish, PublishOne, cycleVars
<1>2. CASE StartPublish
  BY <1>1, <1>2
     DEF StartPublish, WorkerTypeOK, WorkerPcs, envVars, LatestSnapshot,
         NewestSnapshot, LocalsInv
<1>3. CASE EndPublish
  BY <1>1, <1>3
     DEF EndPublish, WorkerTypeOK, WorkerPcs, envVars, LatestSnapshot,
         NewestSnapshot, LocalsInv
<1>4. ASSUME NEW u \in Uris, PublishOne(u) PROVE WorkerInv'
  <2>1. byUri[u] \in SUBSET Findings
    BY <1>4 DEF PublishOne, LocalsInv, WorkerTypeOK
  <2>2. VersionOf(job, u) \in Nat
    BY DEF VersionOf, WorkerTypeOK, Docs, Doc, NoVersion
  <2>3. Publish(u, VersionOf(job, u), byUri[u]) \in Outgoing
    BY <2>1, <2>2 DEF Publish, Outgoing
  <2>4. outbox' \in Seq(Outgoing)
    BY <1>4, <2>3 DEF PublishOne
  <2>5. QED
    BY <1>1, <1>4, <2>4
       DEF PublishOne, WorkerTypeOK, envVars, LatestSnapshot, NewestSnapshot,
           LocalsInv
<1>5. QED
  BY <1>2, <1>3, <1>4

\* The debounce running out, and the end of the thread.
LEMMA PassPreserves ==
  ASSUME WorkerInv, Frame, Quiet \/ Disconnected
  PROVE  WorkerInv'
<1> USE DEF WorkerInv, Frame
<1>1. UNCHANGED <<jobs, job, pending, sources, byUri, outcome, unsent, published,
                  announced, outbox>>
  BY DEF Quiet, Disconnected, cycleVars
<1>2. pc \in {"recv", "debounce"} /\ pc' \in {"collect", "ended"} /\ pending = <<>>
  BY DEF Quiet, Disconnected, LocalsInv
<1>3. QED
  BY <1>1, <1>2
     DEF WorkerTypeOK, WorkerPcs, envVars, LatestSnapshot, NewestSnapshot, LocalsInv

\* Every step of the worker, and a panic in its cycle.
LEMMA WorkerPreserves == IInv /\ (WorkerRuns \/ CyclePanicked) => IInv'
<1> SUFFICES ASSUME IInv, WorkerRuns \/ CyclePanicked PROVE IInv'
  OBVIOUS
<1>1. WorkerInv /\ Frame
  BY DEF IInv, TypeOK, WorkerInv, Frame, WorkerRuns, WorkerStep, CyclePanicked, mainVars
<1>2. WorkerInv'
  BY <1>1, ReceivesPreserve, CyclePreserves, ReportsPreserve, PublishPreserves,
     PassPreserves
     DEF WorkerRuns, WorkerStep, CyclePanicked
<1>3. fresh' \in BOOLEAN /\ dropped' \subseteq Uris
  <2>1. fresh \in BOOLEAN /\ dropped \subseteq Uris /\ published \subseteq Uris
    BY DEF IInv, TypeOK, WorkerTypeOK
  <2>2. fresh' \in BOOLEAN
    BY <2>1 DEF WorkerRuns, CyclePanicked, historyVars
  <2>3. dropped' \subseteq Uris
    BY <2>1 DEF WorkerRuns, CyclePanicked, historyVars
  <2>4. QED
    BY <2>2, <2>3
<1>4. panics' \in 0..MaxPanics /\ UNCHANGED <<inbox, mainVars, clientVars, edits, outside>>
  BY SessionAssumption DEF IInv, TypeOK, WorkerRuns, CyclePanicked, countVars
<1>5. TypeOK'
  BY <1>2, <1>3, <1>4 DEF IInv, TypeOK, WorkerInv, mainVars, clientVars
<1>6. QED
  BY <1>2, <1>5 DEF IInv, WorkerInv

(***************************************************************************)
(* The theorems.                                                           *)
(***************************************************************************)

\* The invariant holds in every state of every session.
THEOREM Invariance == Spec => []IInv
<1>1. IInv /\ [Next]_vars => IInv'
  <2> SUFFICES ASSUME IInv, [Next]_vars PROVE IInv'
    OBVIOUS
  <2>1. CASE MainStep
    BY <2>1, HandleEditPreserves, HandleClosePreserves, HandlerPanicsPreserves,
       SchedulePreserves, HandleShutdownPreserves DEF MainStep
  <2>2. CASE UNCHANGED vars
    BY <2>2
       DEF IInv, TypeOK, WorkerTypeOK, LatestSnapshot, NewestSnapshot, LocalsInv, vars,
           envVars, workerVars, mainVars, clientVars, countVars, historyVars
  <2>3. QED
    BY <2>1, <2>2, EditorPreserves, DeliverPreserves, OutsidePreserves, WorkerPreserves
       DEF Next
<1>2. QED
  BY <1>1, InitEstablishes, PTL DEF Spec

\* Every state of every session has its types: in particular the worker
\* never publishes for a uri without an entry and never holds anything but
\* snapshots of the store (worker.rs, lib.rs).
THEOREM TypeCorrect == Spec => []TypeOK
<1>1. IInv => TypeOK
  BY DEF IInv
<1>2. QED
  BY <1>1, Invariance, PTL

\* No edit is lost between the tiers, whatever the number of documents, of
\* edits and of panics: between two notifications the newest snapshot the
\* worker holds is the main loop's document store.
THEOREM NoLostSnapshot == Spec => []LatestSnapshot
<1>1. IInv => LatestSnapshot
  BY DEF IInv
<1>2. QED
  BY <1>1, Invariance, PTL

-----------------------------------------------------------------------------
(***************************************************************************)
(* Failures and lost notifications.  NoticeInv follows a failure from the   *)
(* tier that announces it through the outgoing channel to the editor;       *)
(* ReplayInv says that the notifications on their way take the store to     *)
(* what the editor has open, unless a panic dropped one.                    *)
(***************************************************************************)
Notices == Failures \cup {"off", "handler"}

\* Where q holds the notice of m.
Places(q, m) == {i \in 1..Len(q) : q[i] = Show(m)}

\* m is told of or on its way, once, exactly if somebody decided to tell.
Carried(q, isTold, known, m) ==
  /\ isTold \/ Places(q, m) # {} <=> known
  /\ isTold => Places(q, m) = {}
  /\ \A i, j \in Places(q, m) : i = j

\* A tier has decided to tell the user of m.
Known(m) == m \in announced \/ m \in reported \/ (m = "off" /\ pc = "off")

AllCarried == \A m \in Notices : Carried(outbox, m \in told, Known(m), m)

\* How the last cycle went is known, or will be once it reports.
OutcomeKnown ==
  /\ outcome = "panic" => "panic" \in announced
  /\ outcome = "failed" => "library" \in announced \/ pc \in {"lint", "report"}

NoticeInv == AllCarried /\ OutcomeKnown

About(m, u) == m.kind # "shutdown" /\ m.uri = u

\* The last message of q about a document, or what the store holds of it when
\* there is none, is what the editor has.
InStep(q, store, open) ==
  \A u \in Units :
    /\ (\A i \in 1..Len(q) : ~About(q[i], u)) => store[u] = open[u]
    /\ \A i \in 1..Len(q) :
         About(q[i], u) /\ (\A j \in 1..Len(q) : j > i => ~About(q[j], u))
           => q[i].doc = open[u]

ReplayInv == "handler" \in reported \/ InStep(inbox, docs, editor)

-----------------------------------------------------------------------------
(***************************************************************************)
(* The two channels.                                                        *)
(***************************************************************************)

\* What a message sent does to a channel,
LEMMA AppendAt ==
  ASSUME NEW S, NEW q \in Seq(S), NEW e
  PROVE  /\ Len(Append(q, e)) = Len(q) + 1
         /\ \A i \in 1..Len(q) : Append(q, e)[i] = q[i]
         /\ Append(q, e)[Len(q) + 1] = e
         /\ Len(q) \in Nat
  OBVIOUS

\* and what taking one does.
LEMMA TailAt ==
  ASSUME NEW S, NEW q \in Seq(S), q # <<>>
  PROVE  /\ Len(Tail(q)) = Len(q) - 1
         /\ \A i \in 1..Len(Tail(q)) : Tail(q)[i] = q[i + 1]
         /\ Head(q) = q[1]
         /\ Len(q) \in Nat \ {0}
<1>1. /\ Len(Tail(q)) = Len(q) - 1
      /\ \A i \in 1..Len(Tail(q)) : Tail(q)[i] = q[i + 1]
  BY HeadTailProperties
<1>2. Head(q) = q[1] /\ Len(q) \in Nat \ {0}
  OBVIOUS
<1> QED BY <1>1, <1>2

\* Two notices are the same when what they tell is, and no publish is one.
LEMMA NoticesDiffer ==
  /\ \A m, n : Show(m) = Show(n) => m = n
  /\ \A u, v, f, m : Publish(u, v, f) # Show(m)
<1>1. \A m, n : Show(m) = Show(n) => m = n
  <2> SUFFICES ASSUME NEW m, NEW n, Show(m) = Show(n) PROVE m = n
    OBVIOUS
  <2>1. Show(m).message = m /\ Show(n).message = n
    BY DEF Show
  <2> QED BY <2>1
<1>2. \A u, v, f, m : Publish(u, v, f) # Show(m)
  <2> SUFFICES ASSUME NEW u, NEW v, NEW f, NEW m, Publish(u, v, f) = Show(m)
               PROVE  FALSE
    OBVIOUS
  <2>1. Publish(u, v, f).kind = "publish" /\ Show(m).kind = "show"
    BY DEF Publish, Show
  <2> QED BY <2>1
<1> QED BY <1>1, <1>2

\* A message that is no notice of m changes nothing about it.
LEMMA OtherAppended ==
  ASSUME NEW q \in Seq(Outgoing), NEW e, NEW m, e # Show(m),
         NEW isTold \in BOOLEAN, NEW known \in BOOLEAN,
         Carried(q, isTold, known, m)
  PROVE  Carried(Append(q, e), isTold, known, m)
<1>1. Places(Append(q, e), m) = Places(q, m)
  <2>1. /\ Len(Append(q, e)) = Len(q) + 1 /\ Len(q) \in Nat
        /\ \A i \in 1..Len(q) : Append(q, e)[i] = q[i]
        /\ Append(q, e)[Len(q) + 1] = e
    BY AppendAt
  <2>2. \A i \in 1..Len(Append(q, e)) : i \in 1..Len(q) \/ i = Len(q) + 1
    BY <2>1
  <2>3. 1..Len(q) \subseteq 1..Len(Append(q, e))
    BY <2>1
  <2> QED BY <2>1, <2>2, <2>3 DEF Places
<1> QED BY <1>1 DEF Carried

\* The first to find out about m puts it on the way.
LEMMA NoticeAppended ==
  ASSUME NEW q \in Seq(Outgoing), NEW m,
         NEW isTold \in BOOLEAN, Carried(q, isTold, FALSE, m)
  PROVE  Carried(Append(q, Show(m)), isTold, TRUE, m)
<1>1. Places(q, m) = {} /\ ~isTold
  BY DEF Carried
<1>2. /\ Len(Append(q, Show(m))) = Len(q) + 1 /\ Len(q) \in Nat
      /\ \A i \in 1..Len(q) : Append(q, Show(m))[i] = q[i]
      /\ Append(q, Show(m))[Len(q) + 1] = Show(m)
  BY AppendAt
<1>3. \A i \in 1..Len(Append(q, Show(m))) : i \in 1..Len(q) \/ i = Len(q) + 1
  BY <1>2
<1>4. Len(q) + 1 \in 1..Len(Append(q, Show(m)))
  BY <1>2
<1>5. Places(Append(q, Show(m)), m) = {Len(q) + 1}
  BY <1>1, <1>2, <1>3, <1>4 DEF Places
<1> QED BY <1>1, <1>5 DEF Carried

\* The editor takes the head of the channel: a notice of m, or not.
LEMMA NoticeTaken ==
  ASSUME NEW q \in Seq(Outgoing), q # <<>>, NEW m,
         NEW isTold \in BOOLEAN, NEW known \in BOOLEAN,
         Carried(q, isTold, known, m)
  PROVE  Carried(Tail(q), isTold \/ Head(q) = Show(m), known, m)
<1>1. /\ Len(Tail(q)) = Len(q) - 1 /\ Head(q) = q[1]
      /\ \A i \in 1..Len(Tail(q)) : Tail(q)[i] = q[i + 1]
      /\ Len(q) \in Nat \ {0}
  BY TailAt
<1>2. ASSUME NEW i \in Places(Tail(q), m) PROVE i + 1 \in Places(q, m) /\ i \in Nat
  BY <1>1 DEF Places
<1>3. ASSUME NEW i \in Places(q, m), i # 1 PROVE i - 1 \in Places(Tail(q), m)
  <2>1. i \in Int /\ i - 1 \in 1..Len(Tail(q)) /\ (i - 1) + 1 = i
    BY <1>1, <1>3 DEF Places
  <2> QED BY <1>1, <2>1 DEF Places
<1>4. 1 \in Places(q, m) <=> Head(q) = Show(m)
  BY <1>1 DEF Places
<1>5. \A i, j \in Places(Tail(q), m) : i = j
  <2> SUFFICES ASSUME NEW i \in Places(Tail(q), m), NEW j \in Places(Tail(q), m)
               PROVE  i = j
    OBVIOUS
  <2>1. i + 1 = j + 1 /\ i \in Nat /\ j \in Nat
    BY <1>2 DEF Carried
  <2> QED BY <2>1
<1>6. CASE Head(q) = Show(m)
  <2>1. Places(Tail(q), m) = {}
    <3> SUFFICES ASSUME NEW i \in Places(Tail(q), m) PROVE FALSE
      OBVIOUS
    <3>1. i + 1 = 1 /\ i \in 1..Len(Tail(q))
      BY <1>2, <1>4, <1>6 DEF Carried, Places
    <3> QED BY <3>1
  <2>2. known = TRUE
    BY <1>4, <1>6 DEF Carried
  <2> QED BY <1>6, <2>1, <2>2 DEF Carried
<1>7. CASE Head(q) # Show(m)
  <2>1. Places(Tail(q), m) = {} <=> Places(q, m) = {}
    <3>1. ASSUME NEW i \in Places(q, m) PROVE Places(Tail(q), m) # {}
      BY <1>3, <1>4, <1>7, <3>1
    <3>2. ASSUME NEW i \in Places(Tail(q), m) PROVE Places(q, m) # {}
      BY <1>2, <3>2
    <3> QED BY <3>1, <3>2
  <2> QED BY <1>5, <1>7, <2>1 DEF Carried
<1> QED BY <1>6, <1>7
-----------------------------------------------------------------------------
(***************************************************************************)
(* Notices.                                                                 *)
(***************************************************************************)

\* Nobody finds out about anything; a publish may go out.
LEMMA NothingNew ==
  ASSUME TypeOK, AllCarried, UNCHANGED <<told, announced, reported>>,
         pc = "off" <=> pc' = "off",
         \/ outbox' = outbox
         \/ \E u, v, f : outbox' = Append(outbox, Publish(u, v, f))
  PROVE  AllCarried'
<1> SUFFICES ASSUME NEW m \in Notices
             PROVE  Carried(outbox', m \in told, Known(m), m)
  BY DEF AllCarried, Known
<1>1. outbox \in Seq(Outgoing) /\ Known(m) \in BOOLEAN /\ (m \in told) \in BOOLEAN
  BY DEF TypeOK, Known
<1>2. Carried(outbox, m \in told, Known(m), m)
  BY DEF AllCarried
<1>3. ASSUME NEW u, NEW v, NEW f, outbox' = Append(outbox, Publish(u, v, f))
      PROVE  Carried(outbox', m \in told, Known(m), m)
  <2>1. Publish(u, v, f) # Show(m)
    BY NoticesDiffer
  <2> QED BY <1>1, <1>2, <1>3, <2>1, OtherAppended
<1> QED BY <1>2, <1>3

\* A tier finds out about n, and tells unless it did before.
LEMMA SomethingNew ==
  ASSUME TypeOK, AllCarried, UNCHANGED told, NEW n \in Notices,
         \A m \in Notices : Known(m)' <=> Known(m) \/ m = n,
         outbox' = IF Known(n) THEN outbox ELSE Append(outbox, Show(n))
  PROVE  AllCarried'
<1> SUFFICES ASSUME NEW m \in Notices
             PROVE  Carried(outbox', m \in told, Known(m) \/ m = n, m)
  BY DEF AllCarried, Carried
<1>1. outbox \in Seq(Outgoing) /\ Known(m) \in BOOLEAN /\ (m \in told) \in BOOLEAN
  BY DEF TypeOK, Known
<1>2. Carried(outbox, m \in told, Known(m), m)
  BY DEF AllCarried
<1>3. CASE m # n
  <2>1. Carried(outbox', m \in told, Known(m), m)
    <3>1. Show(n) # Show(m)
      BY <1>3, NoticesDiffer
    <3>2. Carried(Append(outbox, Show(n)), m \in told, Known(m), m)
      BY <1>1, <1>2, <3>1, OtherAppended
    <3> QED BY <1>2, <3>2
  <2> QED BY <1>3, <2>1 DEF Carried
<1>4. CASE m = n /\ Known(n)
  BY <1>2, <1>4 DEF Carried
<1>5. CASE m = n /\ ~Known(n)
  <2>1. Carried(outbox, m \in told, FALSE, m)
    BY <1>2, <1>5 DEF Carried
  <2>2. Carried(Append(outbox, Show(m)), m \in told, TRUE, m)
    BY <1>1, <2>1, NoticeAppended
  <2> QED BY <1>5, <2>2 DEF Carried
<1> QED BY <1>3, <1>4, <1>5

\* The editor takes a message.
LEMMA DeliverNotices ==
  ASSUME TypeOK, AllCarried, Deliver
  PROVE  AllCarried'
<1> SUFFICES ASSUME NEW m \in Notices
             PROVE  Carried(outbox', m \in told', Known(m), m)
  BY DEF AllCarried, Known, Deliver, workerVars, mainVars
<1>1. outbox \in Seq(Outgoing) /\ Known(m) \in BOOLEAN /\ (m \in told) \in BOOLEAN
  BY DEF TypeOK, Known
<1>2. Carried(outbox, m \in told, Known(m), m)
  BY DEF AllCarried
<1>3. m \in told' <=> m \in told \/ Head(outbox) = Show(m)
  <2>1. Head(outbox) \in Outgoing /\ outbox # <<>>
    BY <1>1 DEF Deliver
  <2>2. CASE Head(outbox).kind = "publish"
    <3>1. Head(outbox) # Show(m)
      BY <2>2 DEF Show
    <3> QED BY <2>2, <3>1 DEF Deliver
  <2>3. CASE Head(outbox).kind = "show"
    <3>1. Head(outbox) \in [kind : {"show"}, message : Notices]
      BY <2>1, <2>3 DEF Outgoing, Notices
    <3>2. Head(outbox) = Show(Head(outbox).message)
      BY <3>1 DEF Show
    <3>3. told' = told \cup {Head(outbox).message}
      BY <2>3 DEF Deliver
    <3> QED BY <3>2, <3>3, NoticesDiffer
  <2> QED BY <2>1, <2>2, <2>3 DEF Deliver
<1>4. Carried(Tail(outbox), (m \in told) \/ Head(outbox) = Show(m), Known(m), m)
  BY <1>1, <1>2, NoticeTaken DEF Deliver
<1> QED BY <1>3, <1>4 DEF Deliver

\* The worker's steps.
LEMMA WorkerNotices ==
  ASSUME TypeOK, AllCarried, OutcomeKnown, WorkerStep, UNCHANGED <<told, reported>>
  PROVE  AllCarried' /\ OutcomeKnown'
<1>1. announced \subseteq Failures /\ reported \subseteq {"handler"}
  BY DEF TypeOK, WorkerTypeOK
<1>2. CASE Report
  <2>1. CASE outcome = "failed"
    <3>1. Announce("library") /\ pc' = "latest" /\ pc = "report" /\ outcome' = outcome
      BY <1>2, <2>1 DEF Report, cycleVars
    <3>2. \A m \in Notices : Known(m)' <=> Known(m) \/ m = "library"
      BY <3>1 DEF Announce, Known
    <3>3. Known("library") <=> "library" \in announced
      BY <1>1 DEF Known
    <3>4. "library" \in Notices
      BY DEF Notices, Failures
    <3>5. AllCarried'
      BY <3>1, <3>2, <3>3, <3>4, SomethingNew DEF Announce
    <3> QED BY <2>1, <3>1, <3>5 DEF Announce, OutcomeKnown
  <2>2. CASE outcome # "failed"
    <3>1. /\ UNCHANGED <<announced, outbox, outcome>>
          /\ pc = "report" /\ pc' = "latest"
      BY <1>2, <2>2 DEF Report, cycleVars
    <3> QED BY <2>2, <3>1, NothingNew DEF OutcomeKnown
  <2> QED BY <2>1, <2>2
<1>3. ASSUME NEW u \in Uris, PublishOne(u) PROVE AllCarried' /\ OutcomeKnown'
  <2>1. UNCHANGED <<pc, announced, outcome>>
    BY <1>3 DEF PublishOne, cycleVars
  <2>2. \/ outbox' = outbox
        \/ outbox' = Append(outbox, Publish(u, VersionOf(job, u), byUri[u]))
    BY <1>3 DEF PublishOne
  <2> QED BY <2>1, <2>2, NothingNew DEF OutcomeKnown
<1>4. CASE \/ Recv \/ Collapse \/ Quiet \/ CollectSources \/ CheckSources
           \/ LintSources \/ Superseded \/ StartPublish \/ EndPublish \/ Disconnected
  <2>1. UNCHANGED <<announced, outbox>>
    BY <1>4 DEF Recv, Collapse, Quiet, CollectSources, CheckSources, LintSources,
       Superseded, StartPublish, EndPublish, Disconnected
  <2>2. pc # "off" /\ pc' # "off"
    BY <1>4 DEF Recv, Collapse, Quiet, CollectSources, CheckSources, LintSources,
       Superseded, StartPublish, EndPublish, Disconnected
  <2>3. \/ UNCHANGED outcome /\ pc \notin {"lint", "report"}
        \/ outcome' = "ok"
        \/ outcome' \in {outcome, "failed"} /\ pc' \in {"lint", "report"}
    BY <1>4 DEF Recv, Collapse, Quiet, CollectSources, CheckSources, LintSources,
       Superseded, StartPublish, EndPublish, Disconnected, cycleVars
  <2> QED BY <2>1, <2>2, <2>3, NothingNew DEF OutcomeKnown
<1> QED BY <1>2, <1>3, <1>4 DEF WorkerStep

\* Every step: two find out about something (a panic), one reports.
LEMMA NextNotices ==
  ASSUME TypeOK, NoticeInv, [Next]_vars
  PROVE  NoticeInv'
<1> SUFFICES AllCarried' /\ OutcomeKnown'
  BY DEF NoticeInv
<1>1. AllCarried /\ OutcomeKnown
  BY DEF NoticeInv
<1>2. announced \subseteq Failures /\ reported \subseteq {"handler"}
  BY DEF TypeOK, WorkerTypeOK
<1>3. ASSUME UNCHANGED <<told, announced, reported, pc, outcome>>,
             \/ outbox' = outbox
             \/ \E u, v, f : outbox' = Append(outbox, Publish(u, v, f))
      PROVE  AllCarried' /\ OutcomeKnown'
  BY <1>1, <1>3, NothingNew DEF OutcomeKnown
<1>4. CASE EditorStep
  BY <1>3, <1>4 DEF EditorStep, EditorOpens, EditorChanges, EditorCloses,
     EditorSends, EditorShutsDown, workerVars, cycleVars, mainVars
<1>5. CASE Deliver
  <2>1. AllCarried'
    BY <1>1, <1>5, DeliverNotices
  <2>2. OutcomeKnown'
    BY <1>1, <1>5 DEF Deliver, workerVars, cycleVars, OutcomeKnown
  <2> QED BY <2>1, <2>2
<1>6. CASE Outside
  BY <1>3, <1>6 DEF Outside, FileChanges, ConfigChanges, LibraryChanges,
     OutsideStep, workerVars, cycleVars, mainVars, clientVars
<1>7. ASSUME NEW kind, HandlerPanics(kind) PROVE AllCarried' /\ OutcomeKnown'
  <2>1. /\ UNCHANGED <<told, announced, pc, outcome>>
        /\ reported' = reported \cup {"handler"}
        /\ outbox' = IF "handler" \in reported THEN outbox
                     ELSE Append(outbox, Show("handler"))
    BY <1>7 DEF HandlerPanics, workerVars, cycleVars, clientVars
  <2>2. Known("handler") <=> "handler" \in reported
    BY <1>2 DEF Known, Failures
  <2>3. \A m \in Notices : Known(m)' <=> Known(m) \/ m = "handler"
    BY <2>1 DEF Known
  <2>4. "handler" \in Notices
    BY DEF Notices
  <2>5. AllCarried'
    BY <1>1, <2>1, <2>2, <2>3, <2>4, SomethingNew
  <2> QED BY <1>1, <2>1, <2>5 DEF OutcomeKnown
<1>8. CASE MainStep /\ \A kind \in {"open", "change"} : ~HandlerPanics(kind)
  <2>1. UNCHANGED <<told, announced, reported, pc, outcome>>
    BY <1>8 DEF MainStep, HandleEdit, HandleClose, ScheduleWorkspace,
       HandleShutdown, workerVars, cycleVars, mainVars, clientVars
  <2>2. \/ outbox' = outbox
        \/ \E u, v, f : outbox' = Append(outbox, Publish(u, v, f))
    BY <1>8 DEF MainStep, HandleEdit, SyntaxPublish, HandleClose,
       ScheduleWorkspace, HandleShutdown
  <2> QED BY <1>3, <2>1, <2>2
<1>9. CASE WorkerRuns
  BY <1>1, <1>9, WorkerNotices DEF WorkerRuns, mainVars, clientVars
<1>10. CASE CyclePanicked
  <2>1. /\ UNCHANGED <<told, reported>> /\ Announce("panic")
        /\ pc \in {"collect", "check", "lint"} /\ pc' = "recv" /\ outcome' = "panic"
    BY <1>10 DEF CyclePanicked, CyclePanics, mainVars, clientVars
  <2>2. Known("panic") <=> "panic" \in announced
    BY <1>2 DEF Known
  <2>3. \A m \in Notices : Known(m)' <=> Known(m) \/ m = "panic"
    BY <2>1 DEF Announce, Known
  <2>4. "panic" \in Notices
    BY DEF Notices, Failures
  <2>5. AllCarried'
    BY <1>1, <2>1, <2>2, <2>3, <2>4, SomethingNew DEF Announce
  <2> QED BY <2>1, <2>5 DEF Announce, OutcomeKnown
<1>11. CASE UNCHANGED vars
  BY <1>3, <1>11 DEF vars, workerVars, cycleVars, mainVars, clientVars
<1> QED
  BY <1>4, <1>5, <1>6, <1>7, <1>8, <1>9, <1>10, <1>11 DEF Next, MainStep
-----------------------------------------------------------------------------
(***************************************************************************)
(* Notifications.                                                           *)
(***************************************************************************)

\* The editor sends what it does to a document.
LEMMA SentInStep ==
  ASSUME NEW q \in Seq(Incoming), NEW store, NEW open \in Docs, NEW m,
         NEW v \in Units, m.kind # "shutdown", m.uri = v,
         m.doc \in Doc \cup {Absent}, InStep(q, store, open)
  PROVE  InStep(Append(q, m), store, [open EXCEPT ![v] = m.doc])
<1> DEFINE a == Append(q, m)
           open2 == [open EXCEPT ![v] = m.doc]
<1>1. /\ Len(a) = Len(q) + 1 /\ Len(q) \in Nat
      /\ \A i \in 1..Len(q) : a[i] = q[i]
      /\ a[Len(q) + 1] = m
  BY AppendAt
<1>2. \A u \in Units : open2[u] = IF u = v THEN m.doc ELSE open[u]
  BY DEF Docs
<1>3. \A u \in Units : About(m, u) <=> u = v
  BY DEF About
<1> HIDE DEF a, open2
<1>4. /\ Len(q) + 1 \in 1..Len(a)
      /\ \A i \in 1..Len(q) : i \in 1..Len(a) /\ Len(q) + 1 > i
      /\ \A i \in 1..Len(a) : i \in 1..Len(q) \/ i = Len(q) + 1
  BY <1>1
<1>5. ASSUME NEW u \in Units, u = v
      PROVE  /\ ~ \A i \in 1..Len(a) : ~About(a[i], u)
             /\ \A i \in 1..Len(a) :
                  About(a[i], u) /\ (\A j \in 1..Len(a) : j > i => ~About(a[j], u))
                    => a[i].doc = open2[u]
  BY <1>1, <1>2, <1>3, <1>4, <1>5
<1>6. ASSUME NEW u \in Units, u # v
      PROVE  /\ (\A i \in 1..Len(a) : ~About(a[i], u)) => store[u] = open2[u]
             /\ \A i \in 1..Len(a) :
                  About(a[i], u) /\ (\A j \in 1..Len(a) : j > i => ~About(a[j], u))
                    => a[i].doc = open2[u]
  <2>1. ~About(a[Len(q) + 1], u)
    BY <1>1, <1>3, <1>6
  <2>2. (\A i \in 1..Len(a) : ~About(a[i], u)) => store[u] = open2[u]
    BY <1>1, <1>2, <1>4, <1>6 DEF InStep
  <2>3. ASSUME NEW i \in 1..Len(a), About(a[i], u),
               \A j \in 1..Len(a) : j > i => ~About(a[j], u)
        PROVE  a[i].doc = open2[u]
    <3>1. i \in 1..Len(q) /\ a[i] = q[i]
      BY <1>1, <1>4, <2>1, <2>3
    <3>2. \A j \in 1..Len(q) : j > i => ~About(q[j], u)
      BY <1>1, <1>4, <2>3
    <3> QED BY <1>2, <1>6, <2>3, <3>1, <3>2 DEF InStep
  <2> QED BY <2>2, <2>3
<1> QED BY <1>5, <1>6 DEF InStep, a, open2

\* The main loop takes the head into its store.
LEMMA TakenInStep ==
  ASSUME NEW q \in Seq(Incoming), q # <<>>, NEW store \in Docs, NEW open,
         NEW v \in Units, Head(q).kind # "shutdown", Head(q).uri = v,
         InStep(q, store, open)
  PROVE  InStep(Tail(q), [store EXCEPT ![v] = Head(q).doc], open)
<1> DEFINE r == Tail(q)
           store2 == [store EXCEPT ![v] = Head(q).doc]
<1>1. /\ Len(r) = Len(q) - 1 /\ Head(q) = q[1] /\ Len(q) \in Nat \ {0}
      /\ \A i \in 1..Len(r) : r[i] = q[i + 1]
  BY TailAt
<1>2. \A u \in Units : store2[u] = IF u = v THEN q[1].doc ELSE store[u]
  BY <1>1 DEF Docs
<1>3. \A u \in Units : About(q[1], u) <=> u = v
  BY <1>1 DEF About
<1> HIDE DEF r, store2
<1>4. /\ 1 \in 1..Len(q)
      /\ \A i \in 1..Len(r) : i \in Int /\ i + 1 \in 1..Len(q)
      /\ \A i \in 1..Len(q) : i = 1 \/ (i - 1 \in 1..Len(r) /\ (i - 1) + 1 = i /\ i \in Int)
  BY <1>1
<1>5. ASSUME NEW u \in Units, \A i \in 1..Len(r) : ~About(r[i], u)
      PROVE  store2[u] = open[u]
  <2>1. ASSUME NEW i \in 1..Len(q), i # 1 PROVE ~About(q[i], u)
    <3>1. i - 1 \in 1..Len(r) /\ (i - 1) + 1 = i
      BY <1>4, <2>1
    <3> QED BY <1>1, <1>5, <3>1
  <2>2. CASE u = v
    BY <1>2, <1>3, <1>4, <2>1, <2>2 DEF InStep
  <2>3. CASE u # v
    <3>1. \A i \in 1..Len(q) : ~About(q[i], u)
      BY <1>3, <1>4, <2>1, <2>3
    <3> QED BY <1>2, <2>3, <3>1 DEF InStep
  <2> QED BY <2>2, <2>3
<1>6. ASSUME NEW u \in Units, NEW i \in 1..Len(r), About(r[i], u),
             \A j \in 1..Len(r) : j > i => ~About(r[j], u)
      PROVE  r[i].doc = open[u]
  <2>1. ASSUME NEW j \in 1..Len(q), j > i + 1 PROVE ~About(q[j], u)
    <3>1. j - 1 \in 1..Len(r) /\ (j - 1) + 1 = j /\ j - 1 > i
      BY <1>4, <2>1
    <3> QED BY <1>1, <1>6, <3>1
  <2> QED BY <1>1, <1>4, <1>6, <2>1 DEF InStep
<1> QED BY <1>5, <1>6 DEF InStep, r, store2

\* What is about no document changes nothing.
LEMMA ShutdownInStep ==
  ASSUME NEW q \in Seq(Incoming), NEW store, NEW open, InStep(q, store, open),
         NEW m, m.kind = "shutdown"
  PROVE  /\ InStep(Append(q, m), store, open)
         /\ q # <<>> /\ Head(q).kind = "shutdown" => InStep(Tail(q), store, open)
<1>1. InStep(Append(q, m), store, open)
  <2> DEFINE a == Append(q, m)
  <2>1. /\ Len(a) = Len(q) + 1 /\ Len(q) \in Nat
        /\ \A i \in 1..Len(q) : a[i] = q[i]
        /\ a[Len(q) + 1] = m
    BY AppendAt
  <2> HIDE DEF a
  <2>2. /\ \A i \in 1..Len(q) : i \in 1..Len(a)
        /\ \A i \in 1..Len(a) : i \in 1..Len(q) \/ i = Len(q) + 1
    BY <2>1
  <2>3. \A u \in Units : ~About(m, u)
    BY DEF About
  <2>4. ASSUME NEW u \in Units, \A i \in 1..Len(a) : ~About(a[i], u)
        PROVE  store[u] = open[u]
    BY <2>1, <2>2, <2>4 DEF InStep
  <2>5. ASSUME NEW u \in Units, NEW i \in 1..Len(a), About(a[i], u),
               \A j \in 1..Len(a) : j > i => ~About(a[j], u)
        PROVE  a[i].doc = open[u]
    <3>1. i \in 1..Len(q) /\ a[i] = q[i]
      BY <2>1, <2>2, <2>3, <2>5
    <3>2. \A j \in 1..Len(q) : j > i => ~About(q[j], u)
      BY <2>1, <2>2, <2>5
    <3> QED BY <2>5, <3>1, <3>2 DEF InStep
  <2> QED BY <2>4, <2>5 DEF InStep, a
<1>2. ASSUME q # <<>>, Head(q).kind = "shutdown"
      PROVE  InStep(Tail(q), store, open)
  <2> DEFINE r == Tail(q)
  <2>1. /\ Len(r) = Len(q) - 1 /\ Head(q) = q[1] /\ Len(q) \in Nat \ {0}
        /\ \A i \in 1..Len(r) : r[i] = q[i + 1]
    BY <1>2, TailAt
  <2> HIDE DEF r
  <2>2. /\ \A i \in 1..Len(r) : i \in Int /\ i + 1 \in 1..Len(q)
        /\ \A i \in 1..Len(q) : i = 1 \/ (i - 1 \in 1..Len(r) /\ (i - 1) + 1 = i /\ i \in Int)
    BY <2>1
  <2>3. \A u \in Units : ~About(q[1], u)
    BY <1>2, <2>1 DEF About
  <2>4. ASSUME NEW u \in Units, \A i \in 1..Len(r) : ~About(r[i], u)
        PROVE  store[u] = open[u]
    <3>1. \A i \in 1..Len(q) : ~About(q[i], u)
      BY <2>1, <2>2, <2>3, <2>4
    <3> QED BY <3>1 DEF InStep
  <2>5. ASSUME NEW u \in Units, NEW i \in 1..Len(r), About(r[i], u),
               \A j \in 1..Len(r) : j > i => ~About(r[j], u)
        PROVE  r[i].doc = open[u]
    <3>1. ASSUME NEW j \in 1..Len(q), j > i + 1 PROVE ~About(q[j], u)
      <4>1. j - 1 \in 1..Len(r) /\ (j - 1) + 1 = j /\ j - 1 > i
        BY <2>2, <3>1
      <4> QED BY <2>1, <2>5, <4>1
    <3> QED BY <2>1, <2>2, <2>5, <3>1 DEF InStep
  <2> QED BY <2>4, <2>5 DEF InStep, r
<1> QED BY <1>1, <1>2

\* Every step: the editor sends, the main loop takes, the rest looks on.
LEMMA NextReplay ==
  ASSUME TypeOK, ReplayInv, [Next]_vars
  PROVE  ReplayInv'
<1>1. CASE UNCHANGED <<inbox, docs, editor, reported>>
  BY <1>1 DEF ReplayInv, InStep
<1>2. reported \subseteq reported'
  BY DEF Next, vars, mainVars, EditorStep, EditorOpens, EditorChanges,
     EditorCloses, EditorSends, EditorShutsDown, Deliver, Outside, FileChanges,
     ConfigChanges, LibraryChanges, OutsideStep, MainStep, HandleEdit,
     HandleClose, HandlerPanics, ScheduleWorkspace, HandleShutdown, WorkerRuns,
     CyclePanicked
<1> SUFFICES ASSUME "handler" \notin reported' PROVE InStep(inbox, docs, editor)'
  BY DEF ReplayInv
<1>3. InStep(inbox, docs, editor)
  BY <1>2 DEF ReplayInv
<1>4. inbox \in Seq(Incoming) /\ docs \in Docs /\ editor \in Docs
  BY DEF TypeOK
<1>5. ASSUME NEW u \in Units, NEW m, NEW d, EditorSends(u, m, d),
             m.kind # "shutdown", m.uri = u, m.doc = d, d \in Doc \cup {Absent}
      PROVE  InStep(inbox', docs', editor')
  BY <1>3, <1>4, <1>5, SentInStep DEF EditorSends, mainVars
<1>6. CASE EditorStep
  <2>1. ASSUME NEW u \in Units, NEW t \in Texts, EditorOpens(u, t)
        PROVE  InStep(inbox', docs', editor')
    <3> DEFINE d == [version |-> 1, text |-> t]
    <3>1. d \in Doc
      BY DEF Doc, NoVersion
    <3>2. /\ Open(u, d).kind # "shutdown" /\ Open(u, d).uri = u
          /\ Open(u, d).doc = d
      BY DEF Open
    <3>3. EditorSends(u, Open(u, d), d)
      BY <2>1 DEF EditorOpens
    <3> HIDE DEF d
    <3> QED BY <1>5, <3>1, <3>2, <3>3
  <2>2. ASSUME NEW u \in Units, NEW t \in Texts, EditorChanges(u, t)
        PROVE  InStep(inbox', docs', editor')
    <3> DEFINE d == [version |-> editor[u].version + 1, text |-> t]
    <3>1. d \in Doc
      <4>1. editor[u] \in Doc
        BY <1>4, <2>2 DEF EditorChanges, Docs
      <4> QED BY <4>1 DEF Doc, NoVersion
    <3>2. /\ Change(u, d).kind # "shutdown" /\ Change(u, d).uri = u
          /\ Change(u, d).doc = d
      BY DEF Change
    <3>3. EditorSends(u, Change(u, d), d)
      BY <2>2 DEF EditorChanges
    <3> HIDE DEF d
    <3> QED BY <1>5, <3>1, <3>2, <3>3
  <2>3. ASSUME NEW u \in Units, EditorCloses(u)
        PROVE  InStep(inbox', docs', editor')
    <3>1. /\ Close(u).kind # "shutdown" /\ Close(u).uri = u
          /\ Close(u).doc = Absent
      BY DEF Close
    <3>2. EditorSends(u, Close(u), Absent)
      BY <2>3 DEF EditorCloses
    <3> QED BY <1>5, <3>1, <3>2
  <2>4. CASE EditorShutsDown
    <3>1. Shutdown.kind = "shutdown"
      BY DEF Shutdown
    <3> QED BY <1>3, <1>4, <2>4, <3>1, ShutdownInStep DEF EditorShutsDown, mainVars
  <2> QED BY <1>6, <2>1, <2>2, <2>3, <2>4 DEF EditorStep
<1>7. ASSUME NEW kind \in {"open", "change"}, HandleEdit(kind)
      PROVE  InStep(inbox', docs', editor')
  <2>1. Head(inbox).uri \in Units
    BY <1>4, <1>7, TakingType DEF HandleEdit
  <2> QED BY <1>3, <1>4, <1>7, <2>1, TakenInStep DEF HandleEdit, Taking, clientVars
<1>8. CASE HandleClose
  <2>1. Head(inbox).uri \in Units
    BY <1>4, <1>8, TakingType DEF HandleClose
  <2>2. Head(inbox) \in Incoming /\ Head(inbox).kind = "close"
    BY <1>4, <1>8 DEF HandleClose, Taking
  <2>3. Head(inbox).doc = Absent
    BY <2>2 DEF Incoming, Shutdown
  <2> QED BY <1>3, <1>4, <1>8, <2>1, <2>3, TakenInStep
          DEF HandleClose, Taking, clientVars
<1>9. CASE HandleShutdown
  BY <1>3, <1>4, <1>9, ShutdownInStep DEF HandleShutdown, Taking, mainVars, clientVars
<1>10. CASE MainStep
  <2>1. ASSUME NEW kind, HandlerPanics(kind) PROVE FALSE
    BY <2>1 DEF HandlerPanics
  <2>2. CASE ScheduleWorkspace
    BY <1>3, <2>2 DEF ScheduleWorkspace, clientVars
  <2> QED BY <1>7, <1>8, <1>9, <1>10, <2>1, <2>2 DEF MainStep
<1>11. CASE Deliver \/ Outside \/ WorkerRuns \/ CyclePanicked \/ UNCHANGED vars
  <2>1. UNCHANGED <<inbox, docs, editor>>
    BY <1>11 DEF Deliver, Outside, FileChanges, ConfigChanges, LibraryChanges,
       OutsideStep, WorkerRuns, CyclePanicked, vars, mainVars, clientVars
  <2> QED BY <1>3, <2>1
<1> QED BY <1>6, <1>10, <1>11 DEF Next

-----------------------------------------------------------------------------
\* A session starts with nobody told of anything but a worker that is off.
LEMMA InitNotices == Init => NoticeInv /\ ReplayInv
<1> SUFFICES ASSUME Init PROVE NoticeInv /\ ReplayInv
  OBVIOUS
<1>1. ReplayInv
  BY DEF Init, ReplayInv, InStep
<1>2. ASSUME NEW m \in Notices PROVE Carried(outbox, m \in told, Known(m), m)
  <2>1. CASE pc = "recv" /\ outbox = <<>>
    BY <2>1 DEF Init, Carried, Places, Known
  <2>2. CASE pc = "off" /\ outbox = <<Show("off")>>
    <3>1. Places(outbox, m) = IF m = "off" THEN {1} ELSE {}
      BY <2>2, NoticesDiffer DEF Places
    <3> QED BY <2>2, <3>1 DEF Init, Carried, Known
  <2> QED BY <2>1, <2>2 DEF Init, WorkerStarts
<1> QED BY <1>1, <1>2 DEF Init, NoticeInv, AllCarried, OutcomeKnown

(***************************************************************************)
(* Whatever fails, in whichever tier and however often: each notice is on   *)
(* its way or told exactly if a tier decided to tell, and the notifications *)
(* on their way lead the store to the editor's documents.                   *)
(***************************************************************************)
THEOREM NoticesFollowed == Spec => [](NoticeInv /\ ReplayInv)
<1>1. TypeOK /\ NoticeInv /\ ReplayInv /\ [Next]_vars => NoticeInv' /\ ReplayInv'
  BY NextNotices, NextReplay
<1> QED
  BY <1>1, InitNotices, TypeCorrect, PTL DEF Spec

\* One popup per failure (announce, show_message_once).
THEOREM FailureToldOnce == Spec => []ToldOnce
<1>1. NoticeInv => ToldOnce
  <2> SUFFICES ASSUME NoticeInv, NEW m \in Notices
               PROVE  Cardinality(Places(outbox, m)) <= IF m \in told THEN 0 ELSE 1
    BY DEF ToldOnce, Notices, Places
  <2>1. Carried(outbox, m \in told, Known(m), m)
    BY DEF NoticeInv, AllCarried
  <2>2. CASE Places(outbox, m) = {}
    BY <2>2, FS_EmptySet
  <2>3. ASSUME NEW i \in Places(outbox, m)
        PROVE  Cardinality(Places(outbox, m)) = 1 /\ m \notin told
    <3>1. Places(outbox, m) = {i}
      BY <2>1, <2>3 DEF Carried
    <3>2. Cardinality({i}) = 1
      BY FS_Singleton
    <3> QED BY <2>1, <3>1, <3>2 DEF Carried
  <2> QED BY <2>2, <2>3
<1> QED
  BY <1>1, NoticesFollowed, PTL

\* No tier that failed reads as "no problems here".
THEOREM LossIsTold == Spec => []NoSilentLoss
<1>1. TypeOK /\ NoticeInv /\ ReplayInv => NoSilentLoss
  <2> SUFFICES ASSUME TypeOK, NoticeInv, ReplayInv, Quiescent
               PROVE  /\ outcome = "panic" => "panic" \in told
                      /\ outcome = "failed" => "library" \in told
                      /\ pc = "off" => "off" \in told
                      /\ docs # editor => "handler" \in told
    BY DEF NoSilentLoss
  <2>1. outbox = <<>> /\ inbox = <<>> /\ pc \notin {"lint", "report"}
    BY DEF Quiescent
  <2>2. \A m \in Notices : Known(m) => m \in told
    <3>1. \A m \in Notices : Places(outbox, m) = {}
      BY <2>1 DEF Places
    <3> QED BY <3>1 DEF NoticeInv, AllCarried, Carried
  <2>3. docs # editor => "handler" \in reported
    <3>1. InStep(inbox, docs, editor) => \A u \in Units : docs[u] = editor[u]
      BY <2>1 DEF InStep
    <3> QED BY <3>1 DEF ReplayInv, TypeOK, Docs
  <2> QED BY <2>1, <2>2, <2>3 DEF NoticeInv, OutcomeKnown, Known, Notices, Failures
<1> QED
  BY <1>1, NoticesFollowed, TypeCorrect, PTL

-----------------------------------------------------------------------------
(***************************************************************************)
(* ViewIsCurrent, with handlers that finish within the debounce (Prompt):   *)
(* at rest the editor shows what one check of the workspace would find.     *)
(*                                                                          *)
(* Three invariants carry it.  VersionsInv: the notifications on their way  *)
(* about a document bring ever newer versions of it, so a dropped one never *)
(* leaves the store in step with the editor.  CycleInv and FreshInv: what a *)
(* cycle has computed so far is a check of what it read.  ShowInv: what the *)
(* editor shows of a document, or will once it has read its messages, is    *)
(* what the tier that published last says of it.                            *)
(***************************************************************************)
(***************************************************************************)
(* The notifications about one document.                                   *)
(***************************************************************************)
Silent(q, u) == \A i \in 1..Len(q) : ~About(q[i], u)

FirstAbout(q, u, i) ==
  /\ i \in 1..Len(q) /\ About(q[i], u)
  /\ \A j \in 1..Len(q) : j < i => ~About(q[j], u)

LastAbout(q, u, i) ==
  /\ i \in 1..Len(q) /\ About(q[i], u)
  /\ \A j \in 1..Len(q) : j > i => ~About(q[j], u)

NextAbout(q, u, i, j) ==
  /\ i \in 1..Len(q) /\ j \in 1..Len(q) /\ i < j
  /\ About(q[i], u) /\ About(q[j], u)
  /\ \A k \in 1..Len(q) : i < k /\ k < j => ~About(q[k], u)

\* d is Absent or an older version of the document than e.
Older(d, e) == d = Absent \/ e = Absent \/ d.version < e.version

\* From what the store holds of a document (d), through the notifications in
\* q, to what the editor has of it (e): each edit brings a newer version.
InOrder(q, d, e, u) ==
  /\ \A i : LastAbout(q, u, i) => q[i].doc = e
  /\ \A i : FirstAbout(q, u, i) => Older(d, q[i].doc)
  /\ \A i, j : NextAbout(q, u, i, j) => Older(q[i].doc, q[j].doc)
  /\ Silent(q, u) => d = Absent \/ (e # Absent /\ d.version <= e.version)

VersionsInv == \A u \in Units : InOrder(inbox, docs[u], editor[u], u)

\* Where t has what it has about a document, when t is q without its head,
Shortened(t, q, u) ==
  /\ \A i : LastAbout(t, u, i) => LastAbout(q, u, i + 1) /\ t[i] = q[i + 1]
  /\ \A i, j : NextAbout(t, u, i, j) =>
       NextAbout(q, u, i + 1, j + 1) /\ t[i] = q[i + 1] /\ t[j] = q[j + 1]
  /\ \A i : FirstAbout(t, u, i) =>
       /\ t[i] = q[i + 1]
       /\ IF About(Head(q), u) THEN NextAbout(q, u, 1, i + 1) /\ FirstAbout(q, u, 1)
          ELSE FirstAbout(q, u, i + 1)
  /\ Silent(t, u) => IF About(Head(q), u) THEN LastAbout(q, u, 1) /\ FirstAbout(q, u, 1)
                     ELSE Silent(q, u)

\* and when p is q with m at its end.
Lengthened(p, q, m, u) ==
  /\ \A i : LastAbout(p, u, i) =>
       IF About(m, u) THEN p[i] = m ELSE LastAbout(q, u, i) /\ p[i] = q[i]
  /\ \A i : FirstAbout(p, u, i) =>
       \/ FirstAbout(q, u, i) /\ p[i] = q[i]
       \/ Silent(q, u) /\ About(m, u) /\ p[i] = m
  /\ \A i, j : NextAbout(p, u, i, j) =>
       /\ p[i] = q[i]
       /\ \/ NextAbout(q, u, i, j) /\ p[j] = q[j]
          \/ LastAbout(q, u, i) /\ About(m, u) /\ p[j] = m
  /\ Silent(p, u) => Silent(q, u) /\ ~About(m, u)

\* Both describe the channel's two operations.
LEMMA TailPlaces ==
  ASSUME NEW q \in Seq(Incoming), q # <<>>, NEW u, NEW t, t = Tail(q)
  PROVE  Shortened(t, q, u)
<1>1. /\ Len(t) = Len(q) - 1 /\ Head(q) = q[1] /\ Len(q) \in Nat \ {0}
      /\ \A i \in 1..Len(t) : t[i] = q[i + 1]
  BY TailAt
<1>2. \A i \in 1..Len(t) : i + 1 \in 1..Len(q) /\ i \in Nat
  BY <1>1
<1>3. \A j \in 1..Len(q) : j = 1 \/ (j - 1 \in 1..Len(t) /\ q[j] = t[j - 1] /\ j \in Int)
  <2> SUFFICES ASSUME NEW j \in 1..Len(q), j # 1
               PROVE  j - 1 \in 1..Len(t) /\ q[j] = t[j - 1] /\ j \in Int
    OBVIOUS
  <2>1. j - 1 \in 1..Len(t) /\ j \in Int /\ (j - 1) + 1 = j
    BY <1>1
  <2> QED BY <1>1, <2>1
<1>4. ASSUME NEW i, LastAbout(t, u, i) PROVE LastAbout(q, u, i + 1) /\ t[i] = q[i + 1]
  <2>1. i \in 1..Len(t) /\ t[i] = q[i + 1] /\ i + 1 \in 1..Len(q) /\ i \in Nat
    BY <1>1, <1>2, <1>4 DEF LastAbout
  <2>2. ASSUME NEW j \in 1..Len(q), j > i + 1 PROVE ~About(q[j], u)
    <3>1. j - 1 \in 1..Len(t) /\ q[j] = t[j - 1] /\ j - 1 > i
      BY <1>3, <2>1, <2>2
    <3> QED BY <1>4, <3>1 DEF LastAbout
  <2> QED BY <1>4, <2>1, <2>2 DEF LastAbout
<1>5. ASSUME NEW i, NEW j, NextAbout(t, u, i, j)
      PROVE  NextAbout(q, u, i + 1, j + 1) /\ t[i] = q[i + 1] /\ t[j] = q[j + 1]
  <2>1. /\ i \in 1..Len(t) /\ t[i] = q[i + 1] /\ i + 1 \in 1..Len(q) /\ i \in Nat
        /\ j \in 1..Len(t) /\ t[j] = q[j + 1] /\ j + 1 \in 1..Len(q) /\ j \in Nat
        /\ i < j
    BY <1>1, <1>2, <1>5 DEF NextAbout
  <2>2. ASSUME NEW k \in 1..Len(q), i + 1 < k, k < j + 1 PROVE ~About(q[k], u)
    <3>1. k - 1 \in 1..Len(t) /\ q[k] = t[k - 1] /\ i < k - 1 /\ k - 1 < j
      BY <1>3, <2>1, <2>2
    <3> QED BY <1>5, <3>1 DEF NextAbout
  <2>3. i + 1 < j + 1
    BY <2>1
  <2> QED BY <1>5, <2>1, <2>2, <2>3 DEF NextAbout
<1>6. ASSUME NEW i, FirstAbout(t, u, i)
      PROVE  /\ t[i] = q[i + 1]
             /\ IF About(Head(q), u) THEN NextAbout(q, u, 1, i + 1) /\ FirstAbout(q, u, 1)
                ELSE FirstAbout(q, u, i + 1)
  <2>1. i \in 1..Len(t) /\ t[i] = q[i + 1] /\ i + 1 \in 1..Len(q) /\ i \in Nat /\ 1 < i + 1
    BY <1>1, <1>2, <1>6 DEF FirstAbout
  <2>2. ASSUME NEW k \in 1..Len(q), 1 < k, k < i + 1 PROVE ~About(q[k], u)
    <3>1. k - 1 \in 1..Len(t) /\ q[k] = t[k - 1] /\ k - 1 < i
      BY <1>3, <2>1, <2>2
    <3> QED BY <1>6, <3>1 DEF FirstAbout
  <2>3. CASE About(Head(q), u)
    <3>1. 1 \in 1..Len(q) /\ \A j \in 1..Len(q) : ~(j < 1)
      BY <1>1
    <3> QED BY <1>1, <1>6, <2>1, <2>2, <2>3, <3>1 DEF NextAbout, FirstAbout
  <2>4. CASE ~About(Head(q), u)
    <3>1. \A j \in 1..Len(q) : j = 1 \/ 1 < j
      BY <1>1
    <3> QED BY <1>1, <1>6, <2>1, <2>2, <2>4, <3>1 DEF FirstAbout
  <2> QED BY <2>1, <2>3, <2>4
<1>7. ASSUME Silent(t, u)
      PROVE  IF About(Head(q), u) THEN LastAbout(q, u, 1) /\ FirstAbout(q, u, 1)
             ELSE Silent(q, u)
  <2>1. \A j \in 1..Len(q) : j # 1 => ~About(q[j], u)
    BY <1>3, <1>7 DEF Silent
  <2>2. 1 \in 1..Len(q) /\ \A j \in 1..Len(q) : ~(j < 1) /\ (j > 1 => j # 1)
    BY <1>1
  <2> QED BY <1>1, <2>1, <2>2 DEF LastAbout, FirstAbout, Silent
<1> QED BY <1>4, <1>5, <1>6, <1>7 DEF Shortened

\* A message that is sent goes behind those on their way.
LEMMA AppendPlaces ==
  ASSUME NEW q \in Seq(Incoming), NEW m, NEW u, NEW p, p = Append(q, m)
  PROVE  Lengthened(p, q, m, u)
<1> DEFINE n == Len(q) + 1
<1>1. /\ Len(p) = n /\ Len(q) \in Nat /\ p[n] = m
      /\ \A i \in 1..Len(q) : p[i] = q[i]
  BY AppendAt
<1>2. /\ \A i \in 1..Len(p) : i = n \/ i \in 1..Len(q)
      /\ \A i \in 1..Len(q) : i \in 1..Len(p) /\ i < n
      /\ n \in 1..Len(p)
  BY <1>1
<1> HIDE DEF n
<1>3. ASSUME NEW i, LastAbout(p, u, i)
      PROVE  IF About(m, u) THEN p[i] = m ELSE LastAbout(q, u, i) /\ p[i] = q[i]
  <2>1. CASE i = n
    BY <1>1, <1>3, <2>1 DEF LastAbout
  <2>2. CASE i \in 1..Len(q)
    <3>1. n > i
      BY <1>1, <1>2, <2>2 DEF n
    <3>2. ~About(m, u)
      BY <1>1, <1>2, <1>3, <3>1 DEF LastAbout
    <3> QED BY <1>1, <1>2, <1>3, <2>2, <3>2 DEF LastAbout
  <2> QED BY <1>2, <1>3, <2>1, <2>2 DEF LastAbout
<1>4. ASSUME NEW i, FirstAbout(p, u, i)
      PROVE  \/ FirstAbout(q, u, i) /\ p[i] = q[i]
             \/ Silent(q, u) /\ About(m, u) /\ p[i] = m
  <2>1. CASE i = n
    BY <1>1, <1>2, <1>4, <2>1 DEF FirstAbout, Silent
  <2>2. CASE i \in 1..Len(q)
    BY <1>1, <1>2, <1>4, <2>2 DEF FirstAbout
  <2> QED BY <1>2, <1>4, <2>1, <2>2 DEF FirstAbout
<1>5. ASSUME NEW i, NEW j, NextAbout(p, u, i, j)
      PROVE  /\ p[i] = q[i]
             /\ \/ NextAbout(q, u, i, j) /\ p[j] = q[j]
                \/ LastAbout(q, u, i) /\ About(m, u) /\ p[j] = m
  <2>1. i \in 1..Len(q)
    <3>1. i \in 1..Len(p) /\ j \in 1..Len(p) /\ i < j
      BY <1>5 DEF NextAbout
    <3> QED BY <1>1, <3>1 DEF n
  <2>2. CASE j = n
    BY <1>1, <1>2, <1>5, <2>1, <2>2 DEF NextAbout, LastAbout
  <2>3. CASE j \in 1..Len(q)
    BY <1>1, <1>2, <1>5, <2>1, <2>3 DEF NextAbout
  <2> QED BY <1>1, <1>2, <1>5, <2>1, <2>2, <2>3 DEF NextAbout
<1>6. Silent(p, u) => Silent(q, u) /\ ~About(m, u)
  BY <1>1, <1>2 DEF Silent
<1> QED BY <1>3, <1>4, <1>5, <1>6 DEF Lengthened


\* Older is transitive between documents.
LEMMA OlderTransitive ==
  ASSUME NEW d \in Doc \cup {Absent}, NEW e \in Doc, NEW f \in Doc \cup {Absent},
         e # Absent, Older(d, e), Older(e, f)
  PROVE  Older(d, f)
<1>1. CASE d = Absent \/ f = Absent
  BY <1>1 DEF Older
<1>2. CASE d # Absent /\ f # Absent
  <2>1. d.version < e.version /\ e.version < f.version
    BY <1>2 DEF Older
  <2>2. d.version \in Nat /\ e.version \in Nat /\ f.version \in Nat
    BY <1>2 DEF Doc
  <2> QED BY <2>1, <2>2 DEF Older
<1> QED BY <1>1, <1>2

\* A message about u carries a document or none.
LEMMA AboutDoc ==
  ASSUME NEW m \in Incoming, NEW u \in Units, About(m, u)
  PROVE  m.doc \in Doc \cup {Absent}
  BY DEF About, Incoming, Shutdown

\* The editor sends an edit of the document, which brings a newer version,
LEMMA SentInOrder ==
  ASSUME NEW q \in Seq(Incoming), NEW d \in Doc \cup {Absent}, NEW e \in Doc \cup {Absent},
         NEW m \in Incoming, NEW u \in Units,
         InOrder(q, d, e, u), About(m, u), Older(e, m.doc)
  PROVE  InOrder(Append(q, m), d, m.doc, u)
<1>0. SUFFICES ASSUME NEW p, p = Append(q, m) PROVE InOrder(p, d, m.doc, u)
  OBVIOUS
<1>9. Lengthened(p, q, m, u)
  BY <1>0, AppendPlaces
<1>1. /\ \A i : LastAbout(p, u, i) => p[i] = m
      /\ ~Silent(p, u)
  BY <1>9 DEF Lengthened
<1>2. Silent(q, u) => Older(d, m.doc)
  <2> SUFFICES ASSUME Silent(q, u), d # Absent, m.doc # Absent
               PROVE  d.version < m.doc.version
    BY DEF Older
  <2>1. e # Absent /\ d.version <= e.version /\ e.version < m.doc.version
    BY DEF InOrder, Older
  <2>2. d.version \in Nat /\ e.version \in Nat /\ m.doc.version \in Nat
    BY <2>1, AboutDoc DEF Doc
  <2> QED BY <2>1, <2>2
<1>3. \A i : FirstAbout(p, u, i) => Older(d, p[i].doc)
  BY <1>9, <1>2 DEF InOrder, Lengthened
<1>4. \A i, j : NextAbout(p, u, i, j) => Older(p[i].doc, p[j].doc)
  BY <1>9 DEF InOrder, Lengthened
<1> QED BY <1>1, <1>3, <1>4 DEF InOrder

\* or something about another document;
LEMMA OtherSentInOrder ==
  ASSUME NEW q \in Seq(Incoming), NEW d, NEW e, NEW m, NEW u,
         InOrder(q, d, e, u), ~About(m, u)
  PROVE  InOrder(Append(q, m), d, e, u)
<1>0. SUFFICES ASSUME NEW p, p = Append(q, m) PROVE InOrder(p, d, e, u)
  OBVIOUS
<1>9. Lengthened(p, q, m, u)
  BY <1>0, AppendPlaces
<1>1. /\ \A i : LastAbout(p, u, i) => LastAbout(q, u, i) /\ p[i] = q[i]
      /\ \A i : FirstAbout(p, u, i) => FirstAbout(q, u, i) /\ p[i] = q[i]
      /\ \A i, j : NextAbout(p, u, i, j) =>
           NextAbout(q, u, i, j) /\ p[i] = q[i] /\ p[j] = q[j]
      /\ Silent(p, u) => Silent(q, u)
  BY <1>9 DEF Lengthened
<1> QED BY <1>1 DEF InOrder

\* the main loop takes one of the document's, and stores it or drops it;
LEMMA TakenInOrder ==
  ASSUME NEW q \in Seq(Incoming), q # <<>>, NEW d \in Doc \cup {Absent},
         NEW e \in Doc \cup {Absent}, NEW u \in Units,
         InOrder(q, d, e, u), About(Head(q), u)
  PROVE  /\ InOrder(Tail(q), Head(q).doc, e, u)
         /\ Head(q).doc # Absent =>
              InOrder(Tail(q), d, e, u) /\ (Silent(Tail(q), u) => d # e)
<1>0. SUFFICES ASSUME NEW t, t = Tail(q)
             PROVE  /\ InOrder(t, Head(q).doc, e, u)
                    /\ Head(q).doc # Absent =>
                         InOrder(t, d, e, u) /\ (Silent(t, u) => d # e)
  OBVIOUS
<1> DEFINE h == q[1].doc
<1>9. Shortened(t, q, u)
  BY <1>0, TailPlaces
<1>1. /\ \A i : LastAbout(t, u, i) => LastAbout(q, u, i + 1) /\ t[i] = q[i + 1]
      /\ \A i, j : NextAbout(t, u, i, j) =>
           NextAbout(q, u, i + 1, j + 1) /\ t[i] = q[i + 1] /\ t[j] = q[j + 1]
      /\ \A i : FirstAbout(t, u, i) =>
           t[i] = q[i + 1] /\ NextAbout(q, u, 1, i + 1) /\ FirstAbout(q, u, 1)
      /\ Silent(t, u) => LastAbout(q, u, 1) /\ FirstAbout(q, u, 1)
  BY <1>9 DEF Shortened
<1>2. h \in Doc \cup {Absent} /\ Head(q) = q[1]
  <2>1. Head(q) \in Incoming /\ Head(q) = q[1]
    BY HeadTailProperties
  <2> QED BY <2>1, AboutDoc
<1>3. \A i : FirstAbout(t, u, i) => t[i].doc \in Doc \cup {Absent}
  <2> SUFFICES ASSUME NEW i, FirstAbout(t, u, i) PROVE t[i].doc \in Doc \cup {Absent}
    OBVIOUS
  <2>1. t \in Seq(Incoming)
    BY <1>0, HeadTailProperties
  <2>2. t[i] \in Incoming /\ About(t[i], u)
    BY <2>1 DEF FirstAbout
  <2> QED BY <2>2, AboutDoc
<1> HIDE DEF h
<1>4. /\ \A i : LastAbout(t, u, i) => t[i].doc = e
      /\ \A i, j : NextAbout(t, u, i, j) => Older(t[i].doc, t[j].doc)
      /\ \A i : FirstAbout(t, u, i) => Older(h, t[i].doc) /\ Older(d, h)
      /\ Silent(t, u) => h = e /\ Older(d, h)
  BY <1>1 DEF InOrder, h
<1>5. Silent(t, u) => h = Absent \/ (e # Absent /\ h.version <= e.version)
  BY <1>2, <1>4 DEF Doc
<1>6. InOrder(t, h, e, u)
  BY <1>4, <1>5 DEF InOrder
<1>7. ASSUME h # Absent
      PROVE  InOrder(t, d, e, u) /\ (Silent(t, u) => d # e)
  <2>1. \A i : FirstAbout(t, u, i) => Older(d, t[i].doc)
    BY <1>2, <1>3, <1>4, <1>7, OlderTransitive
  <2>2. ASSUME Silent(t, u)
        PROVE  d # e /\ (d = Absent \/ (e # Absent /\ d.version <= e.version))
    <3>1. h = e /\ e # Absent /\ e \in Doc /\ Older(d, e)
      BY <1>2, <1>4, <1>7, <2>2
    <3>2. CASE d # Absent
      <4>1. d.version < e.version /\ d.version \in Nat /\ e.version \in Nat
        BY <3>1, <3>2 DEF Older, Doc
      <4>2. d.version # e.version /\ d.version <= e.version
        BY <4>1
      <4> QED BY <3>1, <4>2
    <3> QED BY <3>1, <3>2
  <2> QED BY <1>4, <2>1, <2>2 DEF InOrder
<1>8. Head(q).doc = h
  BY <1>2 DEF h
<1> QED BY <1>6, <1>7, <1>8

\* or one of another document's.
LEMMA OtherTakenInOrder ==
  ASSUME NEW q \in Seq(Incoming), q # <<>>, NEW d, NEW e, NEW u,
         InOrder(q, d, e, u), ~About(Head(q), u)
  PROVE  InOrder(Tail(q), d, e, u)
<1>0. SUFFICES ASSUME NEW t, t = Tail(q) PROVE InOrder(t, d, e, u)
  OBVIOUS
<1>9. Shortened(t, q, u)
  BY <1>0, TailPlaces
<1>1. /\ \A i : LastAbout(t, u, i) => LastAbout(q, u, i + 1) /\ t[i] = q[i + 1]
      /\ \A i, j : NextAbout(t, u, i, j) =>
           NextAbout(q, u, i + 1, j + 1) /\ t[i] = q[i + 1] /\ t[j] = q[j + 1]
      /\ \A i : FirstAbout(t, u, i) => t[i] = q[i + 1] /\ FirstAbout(q, u, i + 1)
      /\ Silent(t, u) => Silent(q, u)
  BY <1>9 DEF Shortened
<1> QED BY <1>1 DEF InOrder


\* What the editor does to a document brings a newer version of it.
LEMMA EditorSendsNewer ==
  ASSUME TypeOK, EditorStep, ~EditorShutsDown
  PROVE  \E v \in Units, m \in Incoming :
           /\ EditorSends(v, m, m.doc)
           /\ m.kind # "shutdown" /\ m.uri = v
           /\ Older(editor[v], m.doc)
<1>1. ASSUME NEW v \in Units, NEW t \in Texts, EditorOpens(v, t)
      PROVE  \E m \in Incoming : /\ EditorSends(v, m, m.doc)
                                 /\ m.kind # "shutdown" /\ m.uri = v
                                 /\ Older(editor[v], m.doc)
  <2> DEFINE d == [version |-> 1, text |-> t]
  <2>1. Open(v, d) \in Incoming
    BY DEF Doc, NoVersion, Open, Incoming
  <2>2. /\ Open(v, d).kind # "shutdown" /\ Open(v, d).uri = v
        /\ Open(v, d).doc = d /\ Older(editor[v], d)
    BY <1>1 DEF Open, EditorOpens, Older
  <2>3. EditorSends(v, Open(v, d), d)
    BY <1>1 DEF EditorOpens
  <2> HIDE DEF d
  <2> QED BY <2>1, <2>2, <2>3
<1>2. ASSUME NEW v \in Units, NEW t \in Texts, EditorChanges(v, t)
      PROVE  \E m \in Incoming : /\ EditorSends(v, m, m.doc)
                                 /\ m.kind # "shutdown" /\ m.uri = v
                                 /\ Older(editor[v], m.doc)
  <2> DEFINE d == [version |-> editor[v].version + 1, text |-> t]
  <2>1. editor[v] \in Doc /\ editor[v].version \in Nat
    BY <1>2 DEF EditorChanges, TypeOK, Docs, Doc
  <2>2. Change(v, d) \in Incoming
    BY <2>1 DEF Doc, NoVersion, Change, Incoming
  <2>3. /\ Change(v, d).kind # "shutdown" /\ Change(v, d).uri = v
        /\ Change(v, d).doc = d
    BY DEF Change
  <2>4. Older(editor[v], d)
    BY <2>1 DEF Older
  <2>5. EditorSends(v, Change(v, d), d)
    BY <1>2 DEF EditorChanges
  <2> HIDE DEF d
  <2> QED BY <2>2, <2>3, <2>4, <2>5
<1>3. ASSUME NEW v \in Units, EditorCloses(v)
      PROVE  \E m \in Incoming : /\ EditorSends(v, m, m.doc)
                                 /\ m.kind # "shutdown" /\ m.uri = v
                                 /\ Older(editor[v], m.doc)
  <2>1. Close(v) \in Incoming
    BY DEF Close, Incoming
  <2>2. /\ Close(v).kind # "shutdown" /\ Close(v).uri = v
        /\ Close(v).doc = Absent /\ Older(editor[v], Absent)
    BY DEF Close, Older
  <2>3. EditorSends(v, Close(v), Absent)
    BY <1>3 DEF EditorCloses
  <2> QED BY <2>1, <2>2, <2>3
<1> QED BY <1>1, <1>2, <1>3 DEF EditorStep

\* What the main loop takes, and what becomes of it in the store.
LEMMA MainTakes ==
  ASSUME TypeOK, NEW u \in Units,
         \/ HandleEdit("open") \/ HandleEdit("change") \/ HandleClose
         \/ HandlerPanics("open") \/ HandlerPanics("change") \/ HandleShutdown
  PROVE  /\ inbox # <<>> /\ inbox' = Tail(inbox) /\ Head(inbox) \in Incoming
         /\ UNCHANGED editor
         /\ ~About(Head(inbox), u) => UNCHANGED docs[u]
         /\ About(Head(inbox), u) =>
              \/ docs'[u] = Head(inbox).doc
              \/ UNCHANGED docs[u] /\ Head(inbox).doc # Absent
<1>1. /\ inbox # <<>> /\ inbox' = Tail(inbox) /\ Head(inbox) \in Incoming
      /\ inbox \in Seq(Incoming) /\ docs \in Docs
  BY HeadTailProperties DEF TypeOK, HandleEdit, HandleClose, HandlerPanics, HandleShutdown, Taking
<1>2. UNCHANGED editor
  BY DEF HandleEdit, HandleClose, HandlerPanics, HandleShutdown, clientVars
<1>3. ASSUME NEW kind \in {"open", "change"}, HandleEdit(kind) \/ HandlerPanics(kind)
      PROVE  Head(inbox).kind = kind /\ Head(inbox).uri \in Units /\ Head(inbox).doc # Absent
  <2>1. Head(inbox).doc \in Doc /\ Head(inbox).kind = kind /\ Head(inbox).uri \in Units
    BY <1>3, TakingType DEF HandleEdit, HandlerPanics, Taking
  <2> QED BY <2>1, WorkerAssumption DEF Doc
<1>4. ASSUME HandleClose
      PROVE  /\ Head(inbox).kind = "close" /\ Head(inbox).uri \in Units
             /\ Head(inbox).doc = Absent
  BY <1>1, <1>4 DEF HandleClose, Taking, Incoming, Shutdown
<1>5. ASSUME HandleEdit("open") \/ HandleEdit("change")
      PROVE  docs' = [docs EXCEPT ![Head(inbox).uri] = Head(inbox).doc]
  BY <1>5 DEF HandleEdit
<1>6. ASSUME HandleClose
      PROVE  docs' = [docs EXCEPT ![Head(inbox).uri] = Head(inbox).doc]
  BY <1>4, <1>6 DEF HandleClose
<1>7. ASSUME HandlerPanics("open") \/ HandlerPanics("change") PROVE UNCHANGED docs
  BY <1>7 DEF HandlerPanics
<1>8. ASSUME HandleShutdown PROVE UNCHANGED docs /\ ~About(Head(inbox), u)
  BY <1>8 DEF HandleShutdown, mainVars, About, Taking
<1>9. CASE HandleEdit("open") \/ HandleEdit("change") \/ HandleClose
  <2>1. /\ docs' = [docs EXCEPT ![Head(inbox).uri] = Head(inbox).doc]
        /\ Head(inbox).kind # "shutdown"
    BY <1>3, <1>4, <1>5, <1>6, <1>9
  <2>2. docs'[u] = IF Head(inbox).uri = u THEN Head(inbox).doc ELSE docs[u]
    BY <1>1, <2>1 DEF Docs
  <2> QED BY <1>1, <1>2, <2>1, <2>2 DEF About
<1> QED BY <1>1, <1>2, <1>3, <1>7, <1>8, <1>9

\* The channel keeps the order of the versions, whoever takes, drops or sends.
LEMMA NextVersions ==
  ASSUME TypeOK, VersionsInv, [Next]_vars
  PROVE  VersionsInv'
<1> SUFFICES ASSUME NEW u \in Units
             PROVE  InOrder(inbox', docs'[u], editor'[u], u)
  BY DEF VersionsInv
<1>1. /\ InOrder(inbox, docs[u], editor[u], u)
      /\ inbox \in Seq(Incoming) /\ docs \in Docs /\ editor \in Docs
      /\ docs[u] \in Doc \cup {Absent} /\ editor[u] \in Doc \cup {Absent}
  BY DEF VersionsInv, TypeOK, Docs
<1>2. CASE EditorStep /\ ~EditorShutsDown
  <2>1. PICK v \in Units, m \in Incoming :
          /\ EditorSends(v, m, m.doc)
          /\ m.kind # "shutdown" /\ m.uri = v
          /\ Older(editor[v], m.doc)
    BY <1>2, EditorSendsNewer
  <2>2. /\ inbox' = Append(inbox, m) /\ docs' = docs
        /\ editor'[u] = IF u = v THEN m.doc ELSE editor[u]
    BY <1>1, <2>1 DEF EditorSends, mainVars, Docs
  <2>3. CASE u = v
    <3>1. About(m, u) /\ Older(editor[u], m.doc)
      BY <2>1, <2>3 DEF About
    <3>2. InOrder(Append(inbox, m), docs[u], m.doc, u)
      BY <1>1, <3>1, SentInOrder
    <3> QED BY <2>2, <2>3, <3>2
  <2>4. CASE u # v
    <3>1. ~About(m, u)
      BY <2>1, <2>4 DEF About
    <3>2. InOrder(Append(inbox, m), docs[u], editor[u], u)
      BY <1>1, <3>1, OtherSentInOrder
    <3> QED BY <2>2, <2>4, <3>2
  <2> QED BY <2>3, <2>4
<1>3. CASE EditorShutsDown
  <2>1. ~About(Shutdown, u)
    BY DEF About, Shutdown
  <2>2. InOrder(Append(inbox, Shutdown), docs[u], editor[u], u)
    BY <1>1, <2>1, OtherSentInOrder
  <2> QED BY <1>3, <2>2 DEF EditorShutsDown, mainVars
<1>4. CASE MainStep /\ ~ScheduleWorkspace
  <2>1. /\ inbox # <<>> /\ inbox' = Tail(inbox) /\ Head(inbox) \in Incoming
        /\ UNCHANGED editor
        /\ ~About(Head(inbox), u) => UNCHANGED docs[u]
        /\ About(Head(inbox), u) =>
             \/ docs'[u] = Head(inbox).doc
             \/ UNCHANGED docs[u] /\ Head(inbox).doc # Absent
    BY <1>4, MainTakes DEF MainStep
  <2>2. CASE About(Head(inbox), u)
    BY <1>1, <2>1, <2>2, TakenInOrder
  <2>3. CASE ~About(Head(inbox), u)
    BY <1>1, <2>1, <2>3, OtherTakenInOrder
  <2> QED BY <2>2, <2>3
<1>5. CASE UNCHANGED <<inbox, docs, editor>>
  BY <1>1, <1>5
<1>6. Deliver \/ Outside \/ ScheduleWorkspace \/ WorkerRuns \/ CyclePanicked \/ UNCHANGED vars
        => UNCHANGED <<inbox, docs, editor>>
  BY DEF Deliver, Outside, FileChanges, ConfigChanges, LibraryChanges, OutsideStep,
     ScheduleWorkspace, WorkerRuns, CyclePanicked, vars, mainVars, clientVars
<1> QED BY <1>2, <1>3, <1>4, <1>5, <1>6 DEF Next

-----------------------------------------------------------------------------
(***************************************************************************)
(* The cycle.                                                               *)
(***************************************************************************)
Computing == {"check", "lint", "report", "latest", "publish"}

\* What one check of the sources finds.
Found(s, c) == IF CanBuild(s) THEN WithLint(CheckFindings(s), s, c) ELSE CheckFindings(s)

\* A cycle reads an open document as its job has it, and what it found so far
\* has an entry for every unit, with what the unit's own text gives once the
\* check ran.
CycleInv ==
  pc \in Computing =>
    /\ outcome # "panic"
    /\ \A u \in Units :
         /\ job[u] # Absent => sources[u] = job[u].text
         /\ byUri[u] = Absent => sources[u] = Absent
         /\ pc # "check" /\ outcome = "ok" /\ sources[u] # Absent =>
              UnitFindings(sources[u]) \subseteq byUri[u]

\* While nothing changed outside the editor since its first read, a cycle's
\* findings are those of a check of the files and its job, as far as it is.
FreshInv ==
  fresh /\ outcome = "ok" =>
    /\ pc \in Computing \cup {"recv"} => sources = OverlaySources(disk, job)
    /\ pc = "lint" => byUri = CheckFindings(sources)
    /\ pc \in {"report", "latest", "publish", "recv"} => byUri = Found(sources, config)

\* The first read.
LEMMA CollectCycle ==
  ASSUME TypeOK, CollectSources, UNCHANGED <<disk, config>>
  PROVE  CycleInv' /\ FreshInv'
<1>1. /\ pc' = "check" /\ outcome' = "ok" /\ job' = job
      /\ sources' = OverlaySources(disk, job) /\ byUri' = NoFindings(sources')
  BY DEF CollectSources
<1>2. ASSUME NEW u \in Units
      PROVE  /\ job'[u] # Absent => sources'[u] = job'[u].text
             /\ byUri'[u] = Absent => sources'[u] = Absent
  <2>1. sources'[u] = IF job[u] # Absent THEN job[u].text ELSE disk[u]
    BY <1>1 DEF OverlaySources
  <2>2. byUri'[u] = IF sources'[u] # Absent THEN {} ELSE Absent
    BY <1>1 DEF NoFindings, Uris
  <2>3. {} # Absent
    BY WorkerAssumption
  <2> QED BY <1>1, <2>1, <2>2, <2>3
<1> QED BY <1>1, <1>2 DEF CycleInv, FreshInv, Computing

\* The check: every unit read has an entry, its own text's findings among it.
LEMMA CheckCycle ==
  ASSUME TypeOK, CycleInv, FreshInv, CheckSources, UNCHANGED <<disk, config, fresh>>
  PROVE  CycleInv' /\ FreshInv'
<1>1. /\ pc = "check" /\ pc' = "lint" /\ UNCHANGED <<job, sources>>
      /\ \/ byUri' = CheckFindings(sources) /\ outcome' = outcome
         \/ byUri' = byUri /\ outcome' = "failed"
  BY DEF CheckSources
<1>2. ASSUME NEW u \in Units, byUri' = CheckFindings(sources)
      PROVE  /\ byUri'[u] = Absent => sources[u] = Absent
             /\ sources[u] # Absent => UnitFindings(sources[u]) \subseteq byUri'[u]
  <2>1. byUri'[u] = IF sources[u] = Absent THEN Absent
                    ELSE UnitFindings(sources[u]) \cup
                           IF Broken(sources[u]) THEN {}
                           ELSE ModelFindings(CleanUnits(sources), u)
    BY <1>2, WorkerAssumption DEF CheckFindings, Uris
  <2>2. byUri'[u] \in SUBSET Findings \/ sources[u] = Absent
    <3>1. sources \in Sources /\ CleanUnits(sources) \in [Units -> Texts \cup {Absent}]
      BY DEF TypeOK, WorkerTypeOK, CleanUnits, Sources
    <3>2. ModelFindings(CleanUnits(sources), u) \in SUBSET Findings
      BY <3>1, WorkerAssumption
    <3>3. sources[u] # Absent => UnitFindings(sources[u]) \in SUBSET Findings
      BY <3>1, WorkerAssumption DEF UnitFindings, Sources
    <3> QED BY <2>1, <3>2, <3>3
  <2>3. sources[u] # Absent => byUri'[u] # Absent
    BY <2>2, WorkerAssumption
  <2> QED BY <2>1, <2>3
<1>3. CycleInv'
  BY <1>1, <1>2 DEF CycleInv, Computing
<1>4. FreshInv'
  BY <1>1 DEF FreshInv, Computing
<1> QED BY <1>3, <1>4

\* The lint adds to the entries.
LEMMA LintCycle ==
  ASSUME TypeOK, CycleInv, FreshInv, LintSources, UNCHANGED <<disk, config, fresh>>
  PROVE  CycleInv' /\ FreshInv'
<1>1. /\ pc = "lint" /\ pc' = "report" /\ UNCHANGED <<job, sources>>
      /\ \/ byUri' = byUri /\ outcome' = "failed"
         \/ ~CanBuild(sources) /\ byUri' = byUri /\ outcome' = outcome
         \/ CanBuild(sources) /\ byUri' = WithLint(byUri, sources, config) /\ outcome' = outcome
  BY DEF LintSources
<1>2. ASSUME NEW u \in Units, byUri' = WithLint(byUri, sources, config)
      PROVE  /\ byUri'[u] = Absent => sources[u] = Absent
             /\ byUri[u] \subseteq byUri'[u] \/ byUri[u] = Absent \/ sources[u] = Absent
  <2>1. byUri'[u] = IF sources[u] = Absent THEN Absent
                    ELSE OrDefault(byUri[u]) \cup LintFindings(sources, config, u)
    BY <1>2, WorkerAssumption DEF WithLint, Uris
  <2>2. OrDefault(byUri[u]) \cup LintFindings(sources, config, u) \in SUBSET Findings
    <3>1. /\ sources \in [Units -> Texts \cup {Absent}] /\ config \in Configs
          /\ byUri[u] \in {Absent} \cup SUBSET Findings
      BY DEF TypeOK, WorkerTypeOK, Sources, Uris
    <3>2. LintFindings(sources, config, u) \in SUBSET Findings
      BY <3>1, WorkerAssumption
    <3> QED BY <3>1, <3>2 DEF OrDefault
  <2>3. sources[u] # Absent => byUri'[u] # Absent
    BY <2>1, <2>2, WorkerAssumption
  <2> QED BY <2>1, <2>3 DEF OrDefault
<1>3. CycleInv'
  <2>1. outcome' # "panic"
    BY <1>1 DEF CycleInv, Computing
  <2>2. ASSUME NEW u \in Units
        PROVE  /\ job'[u] # Absent => sources'[u] = job'[u].text
               /\ byUri'[u] = Absent => sources'[u] = Absent
               /\ outcome' = "ok" /\ sources'[u] # Absent =>
                    UnitFindings(sources'[u]) \subseteq byUri'[u]
    <3>1. /\ job[u] # Absent => sources[u] = job[u].text
          /\ byUri[u] = Absent => sources[u] = Absent
          /\ outcome = "ok" /\ sources[u] # Absent => UnitFindings(sources[u]) \subseteq byUri[u]
      BY <1>1 DEF CycleInv, Computing
    <3>2. CASE byUri' = byUri
      BY <1>1, <3>1, <3>2
    <3>3. CASE byUri' = WithLint(byUri, sources, config)
      BY <1>1, <1>2, <3>1, <3>3
    <3> QED BY <1>1, <3>2, <3>3
  <2> QED BY <2>1, <2>2 DEF CycleInv
<1>4. FreshInv'
  BY <1>1 DEF FreshInv, Computing, Found
<1> QED BY <1>3, <1>4

\* Every step.
LEMMA NextCycle ==
  ASSUME TypeOK, CycleInv, FreshInv, [Next]_vars
  PROVE  CycleInv' /\ FreshInv'
<1>1. ASSUME UNCHANGED <<job, sources, byUri, outcome>>,
             UNCHANGED <<disk, config>>, fresh' => fresh,
             \/ pc' = pc
             \/ pc' \notin Computing \cup {"recv"}
             \/ pc \in {"report", "latest", "publish"} /\ pc' \in {"latest", "publish", "recv"}
      PROVE  CycleInv' /\ FreshInv'
  BY <1>1 DEF CycleInv, FreshInv, Computing
<1>2. CASE EditorStep \/ Deliver \/ MainStep \/ UNCHANGED vars
  <2>1. UNCHANGED <<pc, job, sources, byUri, outcome, disk, config, fresh>>
    BY <1>2 DEF EditorStep, EditorOpens, EditorChanges, EditorCloses, EditorSends,
       EditorShutsDown, Deliver, MainStep, HandleEdit, HandleClose, ScheduleWorkspace,
       HandleShutdown, HandlerPanics, vars, envVars, workerVars, cycleVars, historyVars
  <2> QED BY <1>1, <2>1
<1>3. CASE Outside
  <2>1. UNCHANGED <<pc, job, sources, byUri, outcome>> /\ ~fresh'
    BY <1>3 DEF Outside, FileChanges, ConfigChanges, LibraryChanges, OutsideStep, workerVars
  <2> QED BY <2>1 DEF CycleInv, FreshInv, Computing
<1>4. CASE CyclePanicked
  <2>1. pc' = "recv" /\ outcome' = "panic"
    BY <1>4 DEF CyclePanicked, CyclePanics
  <2> QED BY <2>1 DEF CycleInv, FreshInv, Computing
<1>5. CASE WorkerRuns
  <2>1. UNCHANGED <<disk, config>> /\ (fresh' <=> fresh \/ pc' = "check") /\ fresh' \in BOOLEAN
    BY <1>5 DEF WorkerRuns, WorkerStep, envVars, TypeOK
  <2>2. fresh \in BOOLEAN
    BY DEF TypeOK
  <2>3. CASE CollectSources
    BY <2>1, <2>3, CollectCycle
  <2>4. CASE CheckSources \/ LintSources
    <3>1. pc' # "check"
      BY <2>4 DEF CheckSources, LintSources
    <3> QED BY <2>1, <2>2, <2>4, <3>1, CheckCycle, LintCycle
  <2>5. CASE Recv \/ Collapse
    <3>1. pc' = "debounce"
      BY <2>5 DEF Recv, Collapse
    <3> QED BY <3>1 DEF CycleInv, FreshInv, Computing
  <2>6. CASE \/ Quiet \/ Report \/ Superseded \/ StartPublish \/ EndPublish \/ Disconnected
             \/ \E u \in Uris : PublishOne(u)
    <3>1. /\ UNCHANGED <<job, sources, byUri, outcome>>
          /\ \/ pc' = pc /\ pc = "publish"
             \/ pc' \in {"collect", "ended"}
             \/ pc \in {"report", "latest", "publish"} /\ pc' \in {"latest", "publish", "recv"}
      BY <2>6 DEF Quiet, Report, Superseded, StartPublish, EndPublish, Disconnected,
         PublishOne, cycleVars
    <3> QED BY <1>1, <2>1, <3>1 DEF Computing
  <2> QED BY <1>5, <2>3, <2>4, <2>5, <2>6 DEF WorkerRuns, WorkerStep
<1> QED BY <1>2, <1>3, <1>4, <1>5 DEF Next

-----------------------------------------------------------------------------
(***************************************************************************)
(* What the editor shows.                                                   *)
(***************************************************************************)

\* A message that sets what the editor (its documents e, comparing versions
\* or not, s) shows of u.
Lands(m, s, e, u) ==
  /\ m.kind = "publish" /\ m.uri = u
  /\ ~(s /\ m.version # NoVersion /\ VersionOf(e, u) \notin {NoVersion, m.version})

\* Once it has read all of q, an editor that shows v shows f of u.
WillShow(q, v, s, e, u, f) ==
  \/ /\ \A i \in 1..Len(q) : ~Lands(q[i], s, e, u)
     /\ v[u] = f
  \/ \E i \in 1..Len(q) :
       /\ Lands(q[i], s, e, u) /\ q[i].findings = f
       /\ \A j \in 1..Len(q) : j > i => ~Lands(q[j], s, e, u)

\* A publish the editor takes decides, one it discards does not matter,
LEMMA SentShows ==
  ASSUME NEW q \in Seq(Outgoing), NEW v, NEW s, NEW e, NEW u, NEW f, NEW m
  PROVE  /\ Lands(m, s, e, u) => WillShow(Append(q, m), v, s, e, u, m.findings)
         /\ ~Lands(m, s, e, u) /\ WillShow(q, v, s, e, u, f) =>
              WillShow(Append(q, m), v, s, e, u, f)
<1>0. SUFFICES ASSUME NEW p, p = Append(q, m)
               PROVE  /\ Lands(m, s, e, u) => WillShow(p, v, s, e, u, m.findings)
                      /\ ~Lands(m, s, e, u) /\ WillShow(q, v, s, e, u, f) =>
                           WillShow(p, v, s, e, u, f)
  OBVIOUS
<1> DEFINE n == Len(q) + 1
<1>1. /\ Len(p) = n /\ Len(q) \in Nat /\ p[n] = m
      /\ \A i \in 1..Len(q) : p[i] = q[i]
  BY <1>0, AppendAt
<1>2. /\ \A i \in 1..Len(p) : i = n \/ i \in 1..Len(q)
      /\ \A i \in 1..Len(q) : i \in 1..Len(p)
      /\ n \in 1..Len(p) /\ \A i \in 1..Len(p) : ~(i > n)
  BY <1>1
<1> HIDE DEF n
<1>3. Lands(m, s, e, u) => WillShow(p, v, s, e, u, m.findings)
  BY <1>1, <1>2 DEF WillShow
<1>4. ASSUME ~Lands(m, s, e, u), WillShow(q, v, s, e, u, f)
      PROVE  WillShow(p, v, s, e, u, f)
  BY <1>1, <1>2, <1>4 DEF WillShow
<1> QED BY <1>3, <1>4

\* and what the editor reads is what it was going to show.
LEMMA ReadShows ==
  ASSUME NEW q \in Seq(Outgoing), q # <<>>, NEW v, NEW w, NEW s, NEW e, NEW u, NEW f,
         w[u] = IF Lands(Head(q), s, e, u) THEN Head(q).findings ELSE v[u],
         WillShow(q, v, s, e, u, f)
  PROVE  WillShow(Tail(q), w, s, e, u, f)
<1>0. SUFFICES ASSUME NEW t, t = Tail(q) PROVE WillShow(t, w, s, e, u, f)
  OBVIOUS
<1>1. /\ Len(t) = Len(q) - 1 /\ Head(q) = q[1] /\ Len(q) \in Nat \ {0}
      /\ \A i \in 1..Len(t) : t[i] = q[i + 1]
  BY <1>0, TailAt
<1>2. /\ 1 \in 1..Len(q)
      /\ \A i \in 1..Len(t) : i \in Int /\ i + 1 \in 1..Len(q) /\ i + 1 > 1
      /\ \A i \in 1..Len(q) : i = 1 \/ (i - 1 \in 1..Len(t) /\ (i - 1) + 1 = i /\ i \in Int)
  BY <1>1
<1>3. \A i \in 1..Len(t) : t[i] = q[i + 1]
  BY <1>1
<1>4. CASE (\A i \in 1..Len(q) : ~Lands(q[i], s, e, u)) /\ v[u] = f
  <2>1. w[u] = f /\ \A i \in 1..Len(t) : ~Lands(t[i], s, e, u)
    BY <1>1, <1>2, <1>3, <1>4
  <2> QED BY <2>1 DEF WillShow
<1>5. ASSUME NEW i \in 1..Len(q), Lands(q[i], s, e, u), q[i].findings = f,
             \A j \in 1..Len(q) : j > i => ~Lands(q[j], s, e, u)
      PROVE  WillShow(t, w, s, e, u, f)
  <2>1. CASE i = 1
    <3>1. w[u] = f
      BY <1>1, <1>5, <2>1
    <3>2. \A j \in 1..Len(t) : ~Lands(t[j], s, e, u)
      BY <1>2, <1>3, <1>5, <2>1
    <3> QED BY <3>1, <3>2 DEF WillShow
  <2>2. CASE i # 1
    <3>1. i - 1 \in 1..Len(t) /\ t[i - 1] = q[i]
      BY <1>2, <1>3, <2>2
    <3>2. ASSUME NEW j \in 1..Len(t), j > i - 1 PROVE ~Lands(t[j], s, e, u)
      <4>1. j + 1 \in 1..Len(q) /\ j + 1 > i /\ t[j] = q[j + 1]
        BY <1>2, <1>3, <3>2
      <4> QED BY <1>5, <4>1
    <3> QED BY <1>5, <3>1, <3>2 DEF WillShow
  <2> QED BY <2>1, <2>2
<1> QED BY <1>4, <1>5 DEF WillShow

\* What the editor will show of u, by the state's own channel.
Shows(u, f) == WillShow(outbox, view, strict, editor, u, f)

\* The store has what the editor has of the document, and no news of it is on
\* its way.
Synced(u) == u \in Units => docs[u] = editor[u] /\ Silent(inbox, u)

\* The worker has taken every snapshot there is to take.
Caught == jobs = <<>> /\ pending = <<>> /\ main = "recv"

\* The publish loop has visited u.
Processed(u) == pc = "publish" /\ u \notin unsent /\ byUri[u] # Absent

\* The editor will show the open document's own findings, from the syntax tier.
OwnFindings(t) == ParseFindings(t) \cup ContextFindings(t)
Own(u) == u \in Units /\ docs[u] # Absent /\ Shows(u, OwnFindings(docs[u].text))

\* Either the editor will show nothing the worker does not know of, or the
\* worker remembers (published) that it has something to clear.
Tracked(u) ==
  \/ u \in dropped \/ Shows(u, {}) \/ Own(u)
  \/ IF Processed(u) THEN byUri[u] # {} ELSE u \in published

\* A document changed since the cycle's job shows what the syntax tier said
\* of the change, until the cycle's own publish of it.
Edited(u) ==
  /\ pc \in Computing \cup {"collect"} /\ ~Processed(u)
  /\ u \in Units /\ docs[u] # job[u]
  => IF docs[u] = Absent THEN Shows(u, {}) ELSE Own(u)

\* Nothing changed since the cycle's job: what it published is what shows.
Published(u) ==
  Caught /\ outcome = "ok" /\ u \notin dropped =>
    /\ Processed(u) => Shows(u, byUri[u])
    /\ pc = "recv" => Shows(u, OrDefault(byUri[u]))

ShowOf(u) == Tracked(u) /\ Edited(u) /\ Published(u)
ShowInv == \A u \in Uris : Synced(u) => ShowOf(u)

\* What the editor will show of u, it still will after the step.
Keeps(u) ==
  \A f : Shows(u, f) => WillShow(outbox', view', strict', editor', u, f)

\* What somebody else is told, or of something else, leaves u alone.
LEMMA ElsewhereKeeps ==
  ASSUME TypeOK, NEW u \in Uris, UNCHANGED <<view, strict>>,
         u \in Units => UNCHANGED editor[u],
         \/ UNCHANGED outbox
         \/ \E m : outbox' = Append(outbox, m) /\ ~Lands(m, strict, editor, u)
  PROVE  Keeps(u)
<1> SUFFICES ASSUME NEW f, Shows(u, f)
             PROVE  WillShow(outbox', view', strict', editor', u, f)
  BY DEF Keeps
<1>1. WillShow(outbox', view, strict, editor, u, f)
  <2>1. WillShow(outbox, view, strict, editor, u, f) /\ outbox \in Seq(Outgoing)
    BY DEF Shows, TypeOK
  <2>2. ASSUME NEW m, outbox' = Append(outbox, m), ~Lands(m, strict, editor, u)
        PROVE  WillShow(outbox', view, strict, editor, u, f)
    BY <2>1, <2>2, SentShows, Zenon
  <2> QED BY <2>1, <2>2
<1>2. VersionOf(editor', u) = VersionOf(editor, u)
  BY DEF VersionOf
<1>3. \A m : Lands(m, strict', editor', u) <=> Lands(m, strict, editor, u)
  BY <1>2 DEF Lands
<1> QED BY <1>1, <1>3 DEF WillShow

\* The editor reads its messages.
LEMMA DeliverKeeps ==
  ASSUME TypeOK, NEW u \in Uris, Deliver
  PROVE  Keeps(u)
<1> SUFFICES ASSUME NEW f, Shows(u, f)
             PROVE  WillShow(outbox', view', strict', editor', u, f)
  BY DEF Keeps
<1>1. /\ outbox \in Seq(Outgoing) /\ outbox # <<>> /\ outbox' = Tail(outbox)
      /\ UNCHANGED <<strict, editor>> /\ view \in [Uris -> SUBSET Findings]
  BY DEF Deliver, TypeOK
<1>2. view'[u] = IF Lands(Head(outbox), strict, editor, u) THEN Head(outbox).findings
                 ELSE view[u]
  <2>1. CASE Head(outbox).kind = "publish"
    <3>1. Lands(Head(outbox), strict, editor, u) <=>
            Head(outbox).uri = u /\ ~(strict /\ Outdated(Head(outbox)))
      BY <2>1 DEF Lands, Outdated
    <3>2. view' = IF strict /\ Outdated(Head(outbox)) THEN view
                  ELSE [view EXCEPT ![Head(outbox).uri] = Head(outbox).findings]
      BY <2>1 DEF Deliver
    <3> QED BY <1>1, <3>1, <3>2
  <2>2. CASE Head(outbox).kind # "publish"
    BY <2>2 DEF Deliver, Lands
  <2> QED BY <2>1, <2>2
<1>3. WillShow(Tail(outbox), view', strict, editor, u, f)
  BY <1>1, <1>2, ReadShows DEF Shows
<1> QED BY <1>1, <1>3

\* Steps that leave the worker and the document alone.
LEMMA ShowUndisturbed ==
  ASSUME NEW u \in Uris, ShowOf(u), Keeps(u), u \in Units => UNCHANGED docs[u],
         UNCHANGED <<pc, unsent, byUri, published, dropped, job, outcome>>,
         pc \in {"recv", "publish"} /\ Caught' => Caught
  PROVE  ShowOf(u)'
<1>1. Processed(u)' <=> Processed(u)
  BY DEF Processed
<1>2. Own(u) => Own(u)'
  BY DEF Own, Shows, Keeps
<1>3. Shows(u, {}) => Shows(u, {})'
  BY DEF Shows, Keeps
<1>4. Tracked(u)'
  BY <1>1, <1>2, <1>3 DEF ShowOf, Tracked
<1>5. Edited(u)'
  BY <1>1, <1>2, <1>3 DEF ShowOf, Edited
<1>6. Published(u)'
  BY <1>1 DEF ShowOf, Published, Shows, Keeps, Processed
<1> QED BY <1>4, <1>5, <1>6 DEF ShowOf

\* Steps of the worker up to its publish loop, which leave what it last
\* published to what it has yet to publish.
LEMMA ShowComputing ==
  ASSUME NEW u \in Uris, ShowOf(u), Keeps(u), UNCHANGED <<published, dropped, docs>>,
         ~Processed(u), ~Processed(u)',
         pc' = "recv" => ~Caught' \/ outcome' # "ok",
         \/ pc' \notin Computing \cup {"collect"}
         \/ pc \in Computing \cup {"collect"} /\ UNCHANGED job
         \/ UNCHANGED job /\ job = docs
  PROVE  ShowOf(u)'
<1>1. Own(u) => Own(u)'
  BY DEF Own, Shows, Keeps
<1>2. Shows(u, {}) => Shows(u, {})'
  BY DEF Shows, Keeps
<1>3. Tracked(u)'
  BY <1>1, <1>2 DEF ShowOf, Tracked
<1>4. Edited(u)'
  BY <1>1, <1>2 DEF ShowOf, Edited
<1>5. Published(u)'
  BY DEF Published
<1> QED BY <1>3, <1>4, <1>5 DEF ShowOf


\* The publish loop sends a finding set, or has nothing to send.
LEMMA PublishOneShows ==
  ASSUME IInv, CycleInv, NEW u \in Uris, NEW w \in Uris, PublishOne(w), ShowOf(u),
         Synced(u), UNCHANGED <<main, docs, view, strict, editor, dropped>>
  PROVE  ShowOf(u)'
<1>1. /\ pc = "publish" /\ w \in unsent /\ unsent' = unsent \ {w}
      /\ UNCHANGED <<jobs, pc, job, pending, byUri, outcome, published>>
      /\ byUri[w] # Absent
  BY DEF PublishOne, cycleVars, IInv, LocalsInv
<1> DEFINE m == Publish(w, VersionOf(job, w), byUri[w])
<1>2. /\ outbox \in Seq(Outgoing)
      /\ IF byUri[w] = {} /\ w \notin published THEN outbox' = outbox
         ELSE outbox' = Append(outbox, m)
  BY DEF PublishOne, IInv, TypeOK
<1>3. /\ m.kind = "publish" /\ m.uri = w /\ m.version = VersionOf(job, w)
      /\ m.findings = byUri[w]
  BY DEF Publish
<1> HIDE DEF m
<1>4. CASE w # u
  <2>1. ~Lands(m, strict, editor, u)
    BY <1>3, <1>4 DEF Lands
  <2>2. Keeps(u)
    BY <1>2, <2>1, ElsewhereKeeps DEF IInv
  <2>3. Processed(u)' <=> Processed(u)
    BY <1>1, <1>4 DEF Processed
  <2>4. Own(u) => Own(u)'
    BY <2>2 DEF Own, Shows, Keeps
  <2>5. Shows(u, {}) => Shows(u, {})'
    BY <2>2 DEF Shows, Keeps
  <2>6. Tracked(u)' /\ Edited(u)'
    BY <1>1, <2>3, <2>4, <2>5 DEF ShowOf, Tracked, Edited
  <2>7. Published(u)'
    BY <1>1, <2>2, <2>3 DEF ShowOf, Published, Shows, Keeps, Caught
  <2> QED BY <2>6, <2>7 DEF ShowOf
<1>5. CASE w = u
  <2>1. ~Processed(u) /\ Processed(u)'
    BY <1>1, <1>5 DEF Processed
  <2>2. Edited(u)'
    BY <2>1 DEF Edited
  <2>3. CASE outbox' = outbox /\ byUri[u] = {} /\ u \notin published
    <3>1. Keeps(u)
      BY <2>3 DEF Keeps, Shows
    <3>2. Own(u) => Own(u)'
      BY <3>1 DEF Own, Shows, Keeps
    <3>3. Shows(u, {}) => Shows(u, {})'
      BY <3>1 DEF Shows, Keeps
    <3>4. u \in dropped \/ Shows(u, {}) \/ Own(u)
      BY <2>1, <2>3 DEF ShowOf, Tracked
    <3>5. Tracked(u)'
      BY <3>2, <3>3, <3>4 DEF Tracked
    <3>6. ASSUME Caught, outcome = "ok", u \notin dropped
          PROVE  Shows(u, {})'
      <4>1. CASE Own(u)
        <5>1. job = docs
          BY <1>1, <3>6 DEF IInv, LatestSnapshot, NewestSnapshot, Caught
        <5>2. sources[u] = docs[u].text /\ UnitFindings(sources[u]) \subseteq {}
          <6>1. u \in Units /\ docs[u] # Absent /\ job[u] # Absent
            BY <4>1, <5>1 DEF Own
          <6>2. sources[u] = docs[u].text
            BY <1>1, <5>1, <6>1 DEF CycleInv, Computing
          <6>3. docs[u].text \in Texts
            BY <6>1 DEF IInv, TypeOK, Docs, Doc
          <6>4. sources[u] # Absent
            BY <6>2, <6>3, WorkerAssumption
          <6> QED BY <1>1, <2>3, <3>6, <6>1, <6>2, <6>4 DEF CycleInv, Computing
        <5>3. OwnFindings(docs[u].text) = {}
          BY <5>2 DEF UnitFindings, Broken, OwnFindings
        <5>4. Shows(u, {})
          BY <4>1, <5>3 DEF Own
        <5> QED BY <3>3, <5>4
      <4> QED BY <3>3, <3>4, <3>6, <4>1
    <3>7. Published(u)'
      BY <1>1, <2>3, <3>6 DEF Published, Caught
    <3> QED BY <2>2, <3>5, <3>7 DEF ShowOf
  <2>4. CASE outbox' = Append(outbox, m)
    <3>1. CASE Lands(m, strict, editor, u)
      <4>1. Shows(u, byUri[u])'
        BY <1>1, <1>2, <1>3, <1>5, <2>4, <3>1, SentShows, Zenon DEF Shows
      <4>2. Tracked(u)'
        BY <1>1, <2>1, <4>1 DEF Tracked
      <4>3. Published(u)'
        BY <1>1, <4>1 DEF Published
      <4> QED BY <2>2, <4>2, <4>3 DEF ShowOf
    <3>2. CASE ~Lands(m, strict, editor, u)
      <4>1. Keeps(u)
        BY <2>4, <3>2, ElsewhereKeeps DEF IInv
      <4>2. Own(u) => Own(u)'
        BY <4>1 DEF Own, Shows, Keeps
      <4>3. Shows(u, {}) => Shows(u, {})'
        BY <4>1 DEF Shows, Keeps
      <4>4. u \in Units /\ docs[u] # job[u]
        <5>1. VersionOf(editor, u) \notin {NoVersion, VersionOf(job, u)}
          BY <1>3, <1>5, <3>2 DEF Lands
        <5>2. u \in Units
          BY <5>1 DEF VersionOf
        <5>3. docs[u] = editor[u]
          BY <5>2 DEF Synced
        <5> QED BY <5>1, <5>2, <5>3 DEF VersionOf
      <4>5. IF docs[u] = Absent THEN Shows(u, {}) ELSE Own(u)
        BY <1>1, <2>1, <4>4 DEF ShowOf, Edited, Computing
      <4>6. Tracked(u)'
        BY <4>2, <4>3, <4>5 DEF Tracked
      <4>7. ~Caught'
        BY <1>1, <4>4 DEF IInv, LatestSnapshot, NewestSnapshot, Caught
      <4> QED BY <2>2, <4>6, <4>7 DEF ShowOf, Published
    <3> QED BY <3>1, <3>2
  <2> QED BY <1>2, <1>5, <2>3, <2>4
<1> QED BY <1>4, <1>5

\* The publish loop ends: what it published is remembered, and what the last
\* cycle published but this one has no entry for is dropped.
LEMMA EndPublishShows ==
  ASSUME IInv, CycleInv, NEW u \in Uris, EndPublish, ShowOf(u),
         UNCHANGED <<main, docs, view, strict, editor>>,
         dropped' = dropped \cup {w \in published : byUri[w] = Absent}
  PROVE  ShowOf(u)'
<1>1. /\ pc = "publish" /\ pc' = "recv" /\ unsent = {}
      /\ published' = {w \in Uris : byUri[w] \notin {Absent, {}}}
      /\ UNCHANGED <<jobs, job, pending, byUri, outcome, outbox>>
  BY DEF EndPublish, cycleVars
<1>2. Keeps(u)
  BY <1>1 DEF Keeps, Shows
<1>3. Own(u) => Own(u)'
  BY <1>2 DEF Own, Shows, Keeps
<1>4. Shows(u, {}) => Shows(u, {})'
  BY <1>2 DEF Shows, Keeps
<1>5. ~Processed(u)' /\ (Processed(u) <=> byUri[u] # Absent)
  BY <1>1 DEF Processed
<1>6. Tracked(u)'
  <2>1. CASE Processed(u) /\ byUri[u] # {}
    <3>1. u \in published'
      BY <1>1, <1>5, <2>1
    <3> QED BY <1>5, <3>1 DEF Tracked
  <2>2. CASE ~Processed(u) /\ u \in published
    <3>1. u \in dropped'
      BY <1>5, <2>2
    <3> QED BY <3>1 DEF Tracked
  <2> QED BY <1>3, <1>4, <2>1, <2>2 DEF ShowOf, Tracked
<1>7. Edited(u)'
  BY <1>1 DEF Edited, Computing
<1>8. ASSUME Caught', outcome = "ok", u \notin dropped'
      PROVE  Shows(u, OrDefault(byUri[u]))'
  <2>1. Caught /\ u \notin dropped
    BY <1>1, <1>8 DEF Caught
  <2>2. CASE byUri[u] # Absent
    <3>1. Shows(u, byUri[u])
      BY <1>5, <1>8, <2>1, <2>2 DEF ShowOf, Published
    <3> QED BY <1>1, <1>2, <2>2, <3>1 DEF OrDefault, Shows, Keeps
  <2>3. CASE byUri[u] = Absent
    <3>1. u \notin published
      BY <1>8, <2>3
    <3>2. ~Own(u)
      <4> SUFFICES ASSUME Own(u) PROVE FALSE
        OBVIOUS
      <4>1. u \in Units /\ job = docs /\ job[u] # Absent
        BY <1>1, <2>1 DEF IInv, LatestSnapshot, NewestSnapshot, Caught, Own
      <4>2. sources[u] = job[u].text /\ sources[u] = Absent
        BY <1>1, <2>3, <4>1 DEF CycleInv, Computing
      <4>3. job[u].text \in Texts
        BY <4>1 DEF IInv, TypeOK, Docs, Doc
      <4> QED BY <4>2, <4>3, WorkerAssumption
    <3>3. Shows(u, {})
      BY <1>5, <2>1, <2>3, <3>1, <3>2 DEF ShowOf, Tracked
    <3> QED BY <1>1, <1>4, <2>3, <3>3 DEF OrDefault, Shows
  <2> QED BY <2>2, <2>3
<1>9. Published(u)'
  BY <1>1, <1>5, <1>8 DEF Published
<1> QED BY <1>6, <1>7, <1>9 DEF ShowOf


\* The syntax tier publishes what it stores, under the version it stores.
LEMMA StoreShows ==
  ASSUME TypeOK, NEW u \in Units, About(Head(inbox), u),
         HandleEdit("open") \/ HandleEdit("change") \/ HandleClose,
         Synced(u)'
  PROVE  ShowOf(u)'
<1>1. outbox \in Seq(Outgoing) /\ docs \in Docs
  BY DEF TypeOK
<1>2. /\ UNCHANGED <<pc, job, unsent, byUri, published, view, strict, editor, dropped>>
      /\ main' = "schedule" /\ docs'[u] = editor'[u]
  BY DEF HandleEdit, HandleClose, workerVars, clientVars, historyVars, Synced
<1>3. IF docs'[u] = Absent THEN Shows(u, {})' ELSE Own(u)'
  <2>1. ASSUME NEW kind \in {"open", "change"}, HandleEdit(kind)
        PROVE  docs'[u] # Absent /\ Own(u)'
    <3> DEFINE d == Head(inbox).doc
               m == SyntaxPublish(u, d)
    <3>1. d \in Doc /\ Head(inbox).uri = u
      BY <2>1, TakingType DEF HandleEdit, About
    <3>2. d # Absent
      BY <3>1, WorkerAssumption DEF Doc
    <3>3. outbox' = Append(outbox, m) /\ docs'[u] = d
      BY <1>1, <2>1, <3>1 DEF HandleEdit, Docs
    <3>4. /\ m.kind = "publish" /\ m.uri = u /\ m.version = d.version
          /\ m.findings = OwnFindings(d.text)
      BY DEF SyntaxPublish, Publish, OwnFindings
    <3>5. VersionOf(editor', u) = d.version
      BY <1>2, <3>2, <3>3 DEF VersionOf
    <3>6. Lands(m, strict', editor', u)
      BY <3>4, <3>5 DEF Lands
    <3> HIDE DEF m, d
    <3>7. WillShow(outbox', view', strict', editor', u, OwnFindings(docs'[u].text))
      BY <1>1, <3>3, <3>4, <3>6, SentShows
    <3> QED BY <3>2, <3>3, <3>7 DEF Own, Shows
  <2>2. ASSUME HandleClose PROVE docs'[u] = Absent /\ Shows(u, {})'
    <3> DEFINE m == Publish(u, NoVersion, {})
    <3>1. Head(inbox).uri = u
      BY DEF About
    <3>2. outbox' = Append(outbox, m) /\ docs'[u] = Absent
      BY <1>1, <2>2, <3>1 DEF HandleClose, Docs
    <3>3. Lands(m, strict', editor', u) /\ m.findings = {}
      BY DEF Publish, Lands
    <3> HIDE DEF m
    <3>4. WillShow(outbox', view', strict', editor', u, {})
      BY <1>1, <3>2, <3>3, SentShows
    <3> QED BY <3>2, <3>4 DEF Shows
  <2> QED BY <2>1, <2>2
<1>4. ~Caught'
  BY <1>2 DEF Caught
<1> QED BY <1>3, <1>4 DEF ShowOf, Tracked, Edited, Published

\* A document gets in step with the editor only as the main loop stores what
\* the editor last did to it: dropping an edit never does.
LEMMA InStepBefore ==
  ASSUME TypeOK, VersionsInv, [Next]_vars, NEW u \in Uris, Synced(u)'
  PROVE  \/ Synced(u) /\ (u \in Units => UNCHANGED <<docs[u], editor[u]>>)
         \/ /\ u \in Units /\ About(Head(inbox), u)
            /\ HandleEdit("open") \/ HandleEdit("change") \/ HandleClose
<1> SUFFICES ASSUME u \in Units,
                    ~(/\ About(Head(inbox), u)
                      /\ HandleEdit("open") \/ HandleEdit("change") \/ HandleClose)
             PROVE  Synced(u) /\ UNCHANGED <<docs[u], editor[u]>>
  BY DEF Synced
<1>1. /\ inbox \in Seq(Incoming) /\ docs[u] \in Doc \cup {Absent}
      /\ editor[u] \in Doc \cup {Absent} /\ editor \in Docs
      /\ InOrder(inbox, docs[u], editor[u], u)
      /\ docs'[u] = editor'[u] /\ Silent(inbox', u)
  BY DEF VersionsInv, TypeOK, Docs, Synced
<1>2. CASE EditorStep /\ ~EditorShutsDown
  <2>1. PICK v \in Units, m \in Incoming :
          /\ EditorSends(v, m, m.doc)
          /\ m.kind # "shutdown" /\ m.uri = v
    BY <1>2, EditorSendsNewer
  <2>2. inbox' = Append(inbox, m) /\ docs' = docs /\ editor' = [editor EXCEPT ![v] = m.doc]
    BY <2>1 DEF EditorSends, mainVars
  <2>3. Silent(inbox, u) /\ ~About(m, u)
    BY <1>1, <2>2, AppendPlaces DEF Lengthened
  <2>4. editor'[u] = editor[u]
    BY <1>1, <2>1, <2>2, <2>3 DEF About, Docs
  <2> QED BY <1>1, <2>2, <2>3, <2>4 DEF Synced
<1>3. CASE EditorShutsDown
  <2>1. inbox' = Append(inbox, Shutdown) /\ UNCHANGED <<docs, editor>>
    BY <1>3 DEF EditorShutsDown, mainVars
  <2>2. Silent(inbox, u)
    BY <1>1, <2>1, AppendPlaces DEF Lengthened
  <2> QED BY <1>1, <2>1, <2>2 DEF Synced
<1>4. CASE MainStep /\ ~ScheduleWorkspace
  <2>1. /\ inbox # <<>> /\ inbox' = Tail(inbox) /\ Head(inbox) \in Incoming
        /\ UNCHANGED editor
        /\ ~About(Head(inbox), u) => UNCHANGED docs[u]
        /\ About(Head(inbox), u) =>
             \/ docs'[u] = Head(inbox).doc
             \/ UNCHANGED docs[u] /\ Head(inbox).doc # Absent
    BY <1>4, MainTakes DEF MainStep
  <2>2. CASE About(Head(inbox), u)
    <3>1. HandlerPanics("open") \/ HandlerPanics("change")
      BY <1>4, <2>2 DEF MainStep, HandleShutdown, Taking, About
    <3>2. UNCHANGED docs[u] /\ Head(inbox).doc # Absent
      <4>1. PICK kind \in {"open", "change"} : HandlerPanics(kind)
        BY <3>1
      <4>2. Head(inbox).doc \in Doc /\ docs' = docs
        BY <4>1, TakingType DEF HandlerPanics
      <4> QED BY <4>2, WorkerAssumption DEF Doc
    <3>3. docs[u] # editor[u]
      BY <1>1, <2>1, <2>2, <3>2, TakenInOrder
    <3> QED BY <1>1, <2>1, <3>2, <3>3
  <2>3. CASE ~About(Head(inbox), u)
    <3>1. Silent(inbox, u)
      BY <1>1, <2>1, <2>3, TailPlaces DEF Shortened
    <3> QED BY <1>1, <2>1, <2>3, <3>1 DEF Synced
  <2> QED BY <2>2, <2>3
<1>5. CASE UNCHANGED <<inbox, docs, editor>>
  BY <1>1, <1>5 DEF Synced
<1>6. Deliver \/ Outside \/ ScheduleWorkspace \/ WorkerRuns \/ CyclePanicked \/ UNCHANGED vars
        => UNCHANGED <<inbox, docs, editor>>
  BY DEF Deliver, Outside, FileChanges, ConfigChanges, LibraryChanges, OutsideStep,
     ScheduleWorkspace, WorkerRuns, CyclePanicked, vars, mainVars, clientVars
<1> QED BY <1>2, <1>3, <1>4, <1>5, <1>6 DEF Next


\* The worker's steps.  When the debounce runs out the main loop has handed
\* over all it stored (Prompt), so the cycle's job is the store.
LEMMA WorkerShows ==
  ASSUME Prompt, IInv, CycleInv, NEW u \in Uris, Synced(u), ShowOf(u),
         WorkerRuns \/ CyclePanicked
  PROVE  ShowOf(u)'
<1>1. UNCHANGED <<main, docs, view, strict, editor>>
  BY DEF WorkerRuns, CyclePanicked, mainVars, clientVars
<1>2. ASSUME UNCHANGED outbox \/ \E n : outbox' = Append(outbox, Show(n))
      PROVE  Keeps(u)
  <2>1. \A n : ~Lands(Show(n), strict, editor, u)
    BY DEF Lands, Show
  <2> QED BY <1>1, <1>2, <2>1, ElsewhereKeeps DEF IInv
<1>3. CASE CyclePanicked
  <2>1. /\ UNCHANGED <<published, dropped, job>> /\ outcome' = "panic" /\ pc' = "recv"
        /\ pc \in {"collect", "check", "lint"}
        /\ UNCHANGED outbox \/ \E n : outbox' = Append(outbox, Show(n))
    BY <1>3 DEF CyclePanicked, CyclePanics, Announce, historyVars
  <2>2. ~Processed(u) /\ ~Processed(u)'
    BY <2>1 DEF Processed
  <2>3. pc' \notin Computing \cup {"collect"}
    BY <2>1 DEF Computing
  <2> QED BY <1>1, <1>2, <2>1, <2>2, <2>3, ShowComputing
<1>4. CASE WorkerRuns
  <2>1. /\ Prompt /\ pc = "debounce" /\ pc' = "collect" => main = "recv"
        /\ dropped' = IF pc = "publish" /\ pc' = "recv"
                        THEN dropped \cup {w \in published : byUri[w] = Absent}
                        ELSE dropped
    BY <1>4 DEF WorkerRuns
  <2>2. CASE EndPublish
    <3>1. dropped' = dropped \cup {w \in published : byUri[w] = Absent}
      BY <2>1, <2>2 DEF EndPublish
    <3> QED BY <1>1, <2>2, <3>1, EndPublishShows
  <2>3. ASSUME NEW w \in Uris, PublishOne(w) PROVE ShowOf(u)'
    <3>1. dropped' = dropped
      BY <2>1, <2>3 DEF PublishOne
    <3> QED BY <1>1, <2>3, <3>1, PublishOneShows
  <2>4. CASE Quiet
    <3>1. /\ pc = "debounce" /\ pc' = "collect" /\ jobs = <<>> /\ pending = <<>>
          /\ UNCHANGED <<published, job, outbox>>
      BY <2>4 DEF Quiet, IInv, LocalsInv
    <3>2. job = docs
      BY <2>1, <3>1 DEF IInv, LatestSnapshot, NewestSnapshot
    <3>3. ~Processed(u) /\ ~Processed(u)' /\ dropped' = dropped
      BY <2>1, <3>1 DEF Processed
    <3> QED BY <1>1, <1>2, <3>1, <3>2, <3>3, ShowComputing
  <2>5. CASE Recv \/ Collapse \/ Disconnected
    <3>1. /\ pc \in {"recv", "debounce"} /\ pc' \in {"debounce", "ended"}
          /\ UNCHANGED <<published, outbox>>
      BY <2>5 DEF Recv, Collapse, Disconnected
    <3>2. ~Processed(u) /\ ~Processed(u)' /\ dropped' = dropped
      BY <2>1, <3>1 DEF Processed
    <3>3. pc' \notin Computing \cup {"collect"} /\ pc' # "recv"
      BY <3>1 DEF Computing
    <3> QED BY <1>1, <1>2, <3>1, <3>2, <3>3, ShowComputing
  <2>6. CASE CollectSources \/ CheckSources \/ LintSources \/ Report \/ Superseded
    <3>1. /\ pc \in {"collect", "check", "lint", "report", "latest"}
          /\ pc' \in {"check", "lint", "report", "latest", "recv"}
          /\ UNCHANGED <<published, job>>
          /\ UNCHANGED outbox \/ \E n : outbox' = Append(outbox, Show(n))
      BY <2>6 DEF CollectSources, CheckSources, LintSources, Report, Superseded, Announce
    <3>2. pc' = "recv" => pending' # <<>>
      <4>1. pc' = "recv" => pending' = <<Head(jobs)>>
        BY <2>6 DEF CollectSources, CheckSources, LintSources, Report, Superseded
      <4>2. <<Head(jobs)>> # <<>>
        OBVIOUS
      <4> QED BY <4>1, <4>2, Zenon
    <3>3. ~Processed(u) /\ ~Processed(u)' /\ dropped' = dropped
      BY <2>1, <3>1 DEF Processed
    <3>4. pc \in Computing \cup {"collect"} /\ (pc' = "recv" => ~Caught')
      BY <3>1, <3>2 DEF Computing, Caught
    <3> QED BY <1>1, <1>2, <3>1, <3>3, <3>4, ShowComputing
  <2>7. CASE StartPublish
    <3>1. /\ pc = "latest" /\ pc' = "publish" /\ unsent' = {w \in Uris : byUri[w] # Absent}
          /\ UNCHANGED <<published, job, outbox, byUri>>
      BY <2>7 DEF StartPublish, cycleVars
    <3>2. ~Processed(u) /\ ~Processed(u)' /\ dropped' = dropped
      BY <2>1, <3>1 DEF Processed
    <3>3. pc \in Computing \cup {"collect"} /\ pc' # "recv"
      BY <3>1 DEF Computing
    <3> QED BY <1>1, <1>2, <3>1, <3>2, <3>3, ShowComputing
  <2> QED BY <1>4, <2>2, <2>3, <2>4, <2>5, <2>6, <2>7 DEF WorkerRuns, WorkerStep
<1> QED BY <1>3, <1>4

\* Every step: the syntax tier, the worker, and whoever leaves both alone.
LEMMA NextShow ==
  ASSUME Prompt, IInv, VersionsInv, CycleInv, ShowInv, [Next]_vars
  PROVE  ShowInv'
<1> SUFFICES ASSUME NEW u \in Uris, Synced(u)' PROVE ShowOf(u)'
  BY DEF ShowInv
<1>1. CASE /\ u \in Units /\ About(Head(inbox), u)
           /\ HandleEdit("open") \/ HandleEdit("change") \/ HandleClose
  BY <1>1, StoreShows DEF IInv
<1>2. CASE Synced(u) /\ (u \in Units => UNCHANGED <<docs[u], editor[u]>>)
  <2>1. ShowOf(u)
    BY <1>2 DEF ShowInv
  <2>2. ASSUME UNCHANGED <<view, strict>>,
               \/ UNCHANGED outbox
               \/ \E m : outbox' = Append(outbox, m) /\ ~Lands(m, strict, editor, u)
        PROVE  Keeps(u)
    BY <1>2, <2>2, ElsewhereKeeps DEF IInv
  <2>3. CASE EditorStep \/ Outside \/ UNCHANGED vars \/ HandleShutdown
    <3>1. UNCHANGED <<pc, unsent, byUri, published, dropped, job, outcome, view, strict,
                      outbox, jobs, pending, main>>
      BY <2>3 DEF EditorStep, EditorOpens, EditorChanges, EditorCloses, EditorSends,
         EditorShutsDown, Outside, FileChanges, ConfigChanges, LibraryChanges, OutsideStep,
         HandleShutdown, vars, workerVars, cycleVars, mainVars, clientVars, historyVars
    <3>2. Caught' => Caught
      BY <3>1 DEF Caught
    <3> QED BY <1>2, <2>1, <2>2, <3>1, <3>2, ShowUndisturbed
  <2>4. CASE Deliver
    <3>1. UNCHANGED <<pc, unsent, byUri, published, dropped, job, outcome,
                      jobs, pending, main>>
      BY <2>4 DEF Deliver, workerVars, mainVars, historyVars
    <3>2. Caught' => Caught
      BY <3>1 DEF Caught
    <3>3. Keeps(u)
      BY <2>4, DeliverKeeps DEF IInv
    <3> QED BY <1>2, <2>1, <3>1, <3>2, <3>3, ShowUndisturbed
  <2>5. CASE ScheduleWorkspace
    <3>1. UNCHANGED <<pc, unsent, byUri, published, dropped, job, outcome, view, strict,
                      outbox>>
      BY <2>5 DEF ScheduleWorkspace, cycleVars, clientVars, historyVars
    <3>2. pc # "off" => jobs' # <<>>
      <4>1. pc # "off" => jobs' = Append(jobs, docs)
        BY <2>5 DEF ScheduleWorkspace, Schedule
      <4>2. jobs \in Seq(Docs) /\ docs \in Docs
        BY DEF IInv, TypeOK, WorkerTypeOK
      <4> QED BY <4>1, <4>2, AppendLast, Zenon
    <3>3. pc \in {"recv", "publish"} => ~Caught'
      BY <3>2 DEF Caught
    <3> QED BY <1>2, <2>1, <2>2, <3>1, <3>3, ShowUndisturbed
  <2>6. ASSUME NEW kind \in {"open", "change"}, HandlerPanics(kind)
        PROVE  ShowOf(u)'
    <3>1. /\ UNCHANGED <<pc, unsent, byUri, published, dropped, job, outcome, view, strict,
                         jobs, pending, main>>
          /\ UNCHANGED outbox \/ outbox' = Append(outbox, Show("handler"))
      BY <2>6 DEF HandlerPanics, workerVars, cycleVars, clientVars, historyVars
    <3>2. ~Lands(Show("handler"), strict, editor, u)
      BY DEF Lands, Show
    <3>3. Caught' => Caught
      BY <3>1 DEF Caught
    <3> QED BY <1>2, <2>1, <2>2, <3>1, <3>2, <3>3, ShowUndisturbed
  <2>7. CASE /\ HandleEdit("open") \/ HandleEdit("change") \/ HandleClose
             /\ ~(u \in Units /\ About(Head(inbox), u))
    <3>1. /\ UNCHANGED <<pc, unsent, byUri, published, dropped, job, outcome, view, strict>>
          /\ main' = "schedule"
      BY <2>7 DEF HandleEdit, HandleClose, workerVars, clientVars, historyVars
    <3>2. \E v, f : outbox' = Append(outbox, Publish(Head(inbox).uri, v, f))
      BY <2>7 DEF HandleEdit, HandleClose, SyntaxPublish
    <3>3. Head(inbox).uri # u
      <4>1. Head(inbox).kind # "shutdown" /\ Head(inbox).uri \in Units
        <5>1. ASSUME NEW kind \in {"open", "change"}, HandleEdit(kind)
              PROVE  Head(inbox).kind # "shutdown" /\ Head(inbox).uri \in Units
          BY <5>1, TakingType DEF HandleEdit, Taking, IInv
        <5>2. ASSUME HandleClose
              PROVE  Head(inbox).kind # "shutdown" /\ Head(inbox).uri \in Units
          BY <5>2, TakingType DEF HandleClose, Taking, IInv
        <5> QED BY <2>7, <5>1, <5>2
      <4> QED BY <2>7, <4>1 DEF About
    <3>4. \A v, f : ~Lands(Publish(Head(inbox).uri, v, f), strict, editor, u)
      BY <3>3 DEF Lands, Publish
    <3>5. ~Caught'
      BY <3>1 DEF Caught
    <3> QED BY <1>2, <2>1, <2>2, <3>1, <3>2, <3>4, <3>5, ShowUndisturbed
  <2>8. CASE WorkerRuns \/ CyclePanicked
    BY <1>2, <2>1, <2>8, WorkerShows
  <2> QED BY <1>1, <2>3, <2>4, <2>5, <2>6, <2>7, <2>8 DEF Next, MainStep
<1> QED BY <1>1, <1>2, InStepBefore DEF IInv

\* A session starts with nothing on its way and nothing shown.
LEMMA InitView == Init => VersionsInv /\ CycleInv /\ FreshInv /\ ShowInv
<1> SUFFICES ASSUME Init PROVE VersionsInv /\ CycleInv /\ FreshInv /\ ShowInv
  OBVIOUS
<1>1. VersionsInv
  BY DEF Init, VersionsInv, InOrder, LastAbout, FirstAbout, NextAbout, NoDocs
<1>2. CycleInv /\ FreshInv
  BY DEF Init, WorkerStarts, CycleInv, FreshInv, Computing
<1>3. ASSUME NEW u \in Uris PROVE ShowOf(u)
  <2>1. pc \in {"recv", "off"} /\ outcome = "none"
    BY DEF Init, WorkerStarts
  <2>2. Shows(u, {})
    <3>1. view[u] = {} /\ (outbox = <<>> \/ outbox = <<Show("off")>>)
      BY DEF Init, WorkerStarts
    <3>2. \A i \in 1..Len(outbox) : ~Lands(outbox[i], strict, editor, u)
      BY <3>1 DEF Lands, Show
    <3> QED BY <3>1, <3>2 DEF Shows, WillShow
  <2> QED BY <2>1, <2>2 DEF ShowOf, Tracked, Edited, Published, Computing
<1> QED BY <1>1, <1>2, <1>3 DEF ShowInv

(***************************************************************************)
(* Whatever the editor, other programs and panics do: what a cycle found is *)
(* a check of what it read, and what the editor shows of each document in   *)
(* step with the store, or will show, is what the tier that published last  *)
(* says of it.                                                              *)
(***************************************************************************)
THEOREM ViewFollowed ==
  ASSUME Prompt
  PROVE  Spec => [](VersionsInv /\ CycleInv /\ FreshInv /\ ShowInv)
<1>1. IInv => TypeOK
  BY DEF IInv
<1>2. /\ IInv /\ VersionsInv /\ CycleInv /\ FreshInv /\ ShowInv /\ [Next]_vars
      => VersionsInv' /\ CycleInv' /\ FreshInv' /\ ShowInv'
  BY <1>1, NextVersions, NextCycle, NextShow
<1> QED
  BY <1>2, InitView, Invariance, PTL DEF Spec

\* With handlers that hand over within the debounce: when everything has been
\* delivered and nothing changed on disk since the last cycle read it, the
\* editor shows exactly what one check of the workspace would find, of every
\* uri that left no findings uncleared and every document no panic dropped
\* (run, schedule_workspace, publish of worker.rs and lib.rs).
THEOREM ViewCurrent == ASSUME Prompt PROVE Spec => []ViewIsCurrent
<1>1. IInv /\ FreshInv /\ ShowInv => ViewIsCurrent
  <2> SUFFICES ASSUME IInv, FreshInv, ShowInv, Quiescent, pc = "recv", outcome = "ok",
                      fresh, NEW u \in Uris \ dropped, u \in Units => docs[u] = editor[u]
               PROVE  view[u] = OrDefault(Expected[u])
    BY DEF ViewIsCurrent
  <2>1. Synced(u) /\ Caught /\ outbox = <<>>
    BY DEF Quiescent, Synced, Silent, Caught
  <2>2. Shows(u, OrDefault(byUri[u]))
    BY <2>1 DEF ShowInv, ShowOf, Published
  <2>3. view[u] = OrDefault(byUri[u])
    BY <2>1, <2>2 DEF Shows, WillShow
  <2>4. job = docs
    BY <2>1 DEF IInv, LatestSnapshot, NewestSnapshot, Caught
  <2>5. byUri = Expected
    BY <2>4 DEF FreshInv, Expected, Found
  <2> QED BY <2>3, <2>5
<1> QED
  BY <1>1, ViewFollowed, Invariance, PTL

=============================================================================
