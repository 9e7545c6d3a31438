--------------------------- MODULE SemanticChecks ---------------------------
(***************************************************************************)
(* The semantic checks of a resolved model (sysmlv2-model/src/check.rs):    *)
(* sixteen families and the distinguishability of every user row's          *)
(* members, in line, or on threads that fork the model and take tasks from  *)
(* one list.                                                                *)
(*                                                                          *)
(* The families look at the positional plan in three ways: they ask for it  *)
(* within the evaluator's budget, enumerate members, which makes it at any  *)
(* cost, or read it if it is there.  What each of these saw is the finding. *)
(* Between two checks the host evaluates, navigates and changes the model.  *)
(***************************************************************************)
EXTENDS PositionalPlanning, Subsequences, FiniteSets

CONSTANTS
  Families,     \* how many families there are
  LargestFirst, \* the families as the threads take them
  Workers, Caller,
  Share,        \* slices per worker
  Works,        \* what there is to check
  Panic,        \* what a check returns that panicked
  Lefts         \* what an evaluation may have left of its budget

Steps ==
  [kind : {"ask"}, of : Nat, left : Nat] \cup
  [kind : {"enumerate", "peek"}, of : Nat]

\* A work plans first if a user type has a body; an evaluation that needs the
\* plan starts at one, so without any there is no question.  A row's members are
\* one look.
Work == [plans : BOOLEAN, families : [1..Families -> Seq(Steps)], rows : Seq(Steps)]

ASSUME ChecksAssumption ==
  /\ Families \in Nat \ {0}
  /\ LargestFirst \in [1..Families -> 1..Families]
  /\ \A i, j \in 1..Families : LargestFirst[i] = LargestFirst[j] => i = j
  /\ IsFiniteSet(Workers) /\ Caller \in Workers
  /\ Share \in Nat \ {0}
  /\ Lefts \subseteq Nat
  /\ Works \subseteq Work
  /\ \A w \in Works : ~w.plans =>
       w.rows = <<>> /\ \A f \in 1..Families : w.families[f] = <<>>

VARIABLES
  graph,    \* the session's resolved model
  pass,     \* "idle", "inline" or "threads" while checking, "done"
  work,     \* what is being checked
  next,     \* the first task nobody took
  doing,    \* what each thread is at: "off", "free", "running", "ended", "panicked"
  task,     \* the task it took last
  seen,     \* what it found in it so far
  forks,    \* each thread's model
  results,  \* what the finished tasks found, as they finished
  out,      \* what the check returns
  expected  \* what the in-line pass would have made of the model (history)

checkVars == <<graph, pass, work, next, doing, task, seen, forks, results, out, expected>>
-----------------------------------------------------------------------------
CeilDiv(n, m) == (n + m - 1) \div m

\* How many rows a slice has: in line it has them all.
StepSize(k) ==
  LET s == IF pass = "inline" THEN k ELSE CeilDiv(k, Cardinality(Workers) * Share)
  IN  IF s < 1 THEN 1 ELSE s
SliceCount == CeilDiv(Len(work.rows), StepSize(Len(work.rows)))

\* The rows of the k-th slice.
SliceRows(k) ==
  LET s == StepSize(Len(work.rows))
      last == IF k * s < Len(work.rows) THEN k * s ELSE Len(work.rows)
  IN SubSeq(work.rows, (k - 1) * s + 1, last)

\* The list of tasks by their keys, which are their places in the in-line
\* order.  For threads a slice goes to the front, each after the second before
\* the one put there last, and the largest families come next.
TaskCount == Families + SliceCount
KeyAt(i) ==
  CASE pass = "inline" -> i
    [] pass # "inline" /\ i > SliceCount -> LargestFirst[i - SliceCount]
    [] pass # "inline" /\ i <= SliceCount ->
         Families + (IF i <= 2 THEN i ELSE SliceCount + 3 - i)

StepsOf(key) ==
  IF key <= Families THEN work.families[key] ELSE SliceRows(key - Families)

\* One look at the plan by a check on the model b.
Looked(b, s) ==
  CASE s.kind = "ask" -> Ask(b, s.left)
    [] s.kind = "enumerate" -> Ensure(b)
    [] s.kind = "peek" -> b

Answer(s, after) == [of |-> s.of, planned |-> Effective(after)]

\* Checks one after the other on one model.
Ran(b, steps) ==
  LET ran[i \in 0..Len(steps)] ==
        IF i = 0 THEN [b |-> b, found |-> <<>>]
        ELSE LET before == ran[i - 1]
                 after == Looked(before.b, steps[i])
             IN  [b |-> after, found |-> Append(before.found, Answer(steps[i], after))]
  IN  ran[Len(steps)]

\* Defect: the plan is left to whoever needs it first.
PlanLater(b, w) == b

\* The inherited members of every type with a body need the plan at the end of
\* the pass anyway, so it is made before the first check.
PlanFirst(b, w) == IF w.plans THEN Ensure(b) ELSE b

\* What the in-line pass makes of a model and finds, family by family and then
\* in all the rows.
InLine(b, w) ==
  LET upto[f \in 0..(Families + 1)] ==
        IF f = 0 THEN [b |-> PlanFirst(b, w), found |-> <<>>]
        ELSE LET before == upto[f - 1]
                 ran == Ran(before.b, IF f <= Families THEN w.families[f] ELSE w.rows)
             IN  [b |-> ran.b, found |-> Append(before.found, ran.found)]
  IN  upto[Families + 1]

\* What was found by the tasks of a key, as they finished: the sort is stable.
FoundUnder(key) ==
  Joined([i \in 1..Len(results) |-> IF results[i].key = key THEN results[i].found ELSE <<>>])
Gathered == Joined([key \in 1..TaskCount |-> FoundUnder(key)])
-----------------------------------------------------------------------------
ChecksInit ==
  /\ graph = NewBuilder
  /\ pass = "idle"
  /\ work = Nothing
  /\ next = 1
  /\ doing = [w \in Workers |-> "off"]
  /\ task = [w \in Workers |-> 0]
  /\ seen = [w \in Workers |-> <<>>]
  /\ forks = [w \in Workers |-> NewBuilder]
  /\ results = <<>>
  /\ out = Nothing
  /\ expected = Nothing

Unchecked == <<pass, work, next, doing, task, seen, forks, results, out, expected>>

\* Between two checks: an evaluation, an enumeration of members, another
\* reader's index, a change, and the materialization of implied rows.
Evaluate == \E left \in Lefts : graph' = Ask(graph, left)
Enumerate == graph' = Ensure(graph)
ReadElsewhere == \E a \in Artefacts : graph' = MadeElsewhere(graph, a)
Change ==
  /\ graph.revision < MaxRevision
  /\ \E kept \in SUBSET Artefacts, planKept \in BOOLEAN :
       graph' = Changed(graph, kept, planKept)
Materialize == graph.revision < MaxRevision /\ graph' = Materialized(graph)
AppendRows == graph.revision < MaxRevision /\ graph' = Appended(graph)

HostReads ==
  /\ pass = "idle"
  /\ Evaluate \/ Enumerate \/ ReadElsewhere \/ Change \/ Materialize \/ AppendRows
  /\ UNCHANGED Unchecked

\* What both passes begin with.
Begin(w, b) ==
  /\ work' = w
  /\ expected' = InLine(graph, w)
  /\ graph' = b
  /\ forks' = [t \in Workers |-> b]
  /\ next' = 1
  /\ UNCHANGED <<task, seen, results, out>>

\* A small model, a host without threads: the caller alone, on the model itself.
CheckInLine ==
  /\ pass = "idle"
  /\ pass' = "inline"
  /\ doing' = [doing EXCEPT ![Caller] = "free"]
  /\ \E w \in Works : Begin(w, PlanFirst(graph, w))

\* The caller is one of the threads; the system may refuse any other.
CheckOnThreads ==
  /\ pass = "idle"
  /\ pass' = "threads"
  /\ \E refused \in SUBSET (Workers \ {Caller}) :
       doing' = [t \in Workers |-> IF t \in refused THEN "off" ELSE "free"]
  /\ \E w \in Works : Begin(w, PlanFirst(graph, w))

Claim(t) ==
  /\ doing[t] = "free"
  /\ doing' = [doing EXCEPT ![t] = IF next <= TaskCount THEN "running" ELSE "ended"]
  /\ task' = [task EXCEPT ![t] = next]
  /\ seen' = [seen EXCEPT ![t] = <<>>]
  /\ next' = next + 1
  /\ UNCHANGED <<graph, pass, work, forks, results, out, expected>>

\* The model a thread's checks look at.
ModelOf(t) == IF pass = "inline" THEN graph ELSE forks[t]

Look(t) ==
  /\ doing[t] = "running"
  /\ Len(seen[t]) < Len(StepsOf(KeyAt(task[t])))
  /\ LET s == StepsOf(KeyAt(task[t]))[Len(seen[t]) + 1]
         after == Looked(ModelOf(t), s)
     IN /\ seen' = [seen EXCEPT ![t] = Append(@, Answer(s, after))]
        /\ graph' = IF pass = "inline" THEN after ELSE graph
        /\ forks' = IF pass = "inline" THEN forks ELSE [forks EXCEPT ![t] = after]
  /\ UNCHANGED <<pass, work, next, doing, task, results, out, expected>>

\* What a thread found in a task is put to the others'.
EndTask(t) ==
  /\ doing[t] = "running"
  /\ Len(seen[t]) = Len(StepsOf(KeyAt(task[t])))
  /\ results' = Append(results, [key |-> KeyAt(task[t]), found |-> seen[t]])
  /\ doing' = [doing EXCEPT ![t] = "free"]
  /\ UNCHANGED <<graph, pass, work, next, task, seen, forks, out, expected>>

TaskPanics(t) ==
  /\ doing[t] = "running"
  /\ doing' = [doing EXCEPT ![t] = "panicked"]
  /\ UNCHANGED <<graph, pass, work, next, task, seen, forks, results, out, expected>>

\* Every thread is joined, whatever became of the caller's own share.
Gather ==
  /\ pass \in {"inline", "threads"}
  /\ \A t \in Workers : doing[t] \in {"off", "ended", "panicked"}
  /\ pass' = "done"
  /\ out' = IF \E t \in Workers : doing[t] = "panicked" THEN Panic ELSE Gathered
  /\ UNCHANGED <<graph, work, next, doing, task, seen, forks, results, expected>>

\* The host has the findings, or caught the panic, and goes on.
Return ==
  /\ pass = "done"
  /\ pass' = "idle"
  /\ work' = Nothing
  /\ next' = 1
  /\ doing' = [w \in Workers |-> "off"]
  /\ task' = [w \in Workers |-> 0]
  /\ seen' = [w \in Workers |-> <<>>]
  /\ forks' = [w \in Workers |-> NewBuilder]
  /\ results' = <<>>
  /\ out' = Nothing
  /\ expected' = Nothing
  /\ UNCHANGED graph

ChecksNext ==
  \/ HostReads
  \/ CheckInLine
  \/ CheckOnThreads
  \/ \E t \in Workers : Claim(t) \/ Look(t) \/ EndTask(t) \/ TaskPanics(t)
  \/ Gather
  \/ Return

ChecksSpec == ChecksInit /\ [][ChecksNext]_checkVars
-----------------------------------------------------------------------------
\* Every model there is.
Models == {graph} \cup {forks[t] : t \in Workers}

(***************************************************************************)
(* families_on_threads: "what follows sees what the in-line pass gives".    *)
(* Whoever runs a task, in whatever order, and whatever was evaluated       *)
(* before the check, each family finds what it finds in line, the findings  *)
(* come in that order, none lost or made twice although threads were        *)
(* refused, and the model is left as that pass leaves it.                   *)
(***************************************************************************)
FindingsInLine ==
  /\ \A i \in 1..Len(results) :
       results[i].key <= Families => results[i].found = expected.found[results[i].key]
  /\ pass = "done" /\ out # Panic =>
       out = Joined(expected.found) /\ graph = expected.b

(***************************************************************************)
(* PlanIsOf and RefusalRight, of the session's model and of every fork.     *)
(***************************************************************************)
PlansCurrent == \A b \in Models : PlanIsOf(b)
RefusalsRight == \A b \in Models : RefusalRight(b)
=============================================================================
