--------------------------- MODULE WorkspaceProofs ---------------------------
(* Theorems about Workspace: what runs of workflows cost and what their    *)
(* history tells, that rows and bytes of files match, and that what an     *)
(* account has stays within a plan it has had, whatever the other requests *)
(* of the account do.                                                      *)
EXTENDS Workspace, FiniteSetTheorems, TLAPS

USE TierAssumption, FileAssumption, WorkflowAssumption, SweepAssumption

----------------------------------------------------------------------------
(* The account: plans and faults of the past are not forgotten. *)

Account == MembershipTypeOK

AccountStep ==
  /\ Account'
  /\ held \subseteq held' /\ tier' \in held'
  /\ faults > 0 => faults' > 0

LEMMA AccountSteps ==
  ASSUME Account, Send \/ Fault \/ ChangeTier \/ UNCHANGED account
  PROVE  AccountStep
  BY DEF Account, MembershipTypeOK, AccountStep, Send, Fault, ChangeTier, account

LEMMA FaultCounts ==
  ASSUME Account, Fault
  PROVE  faults' > 0
  BY DEF Account, MembershipTypeOK, Fault

----------------------------------------------------------------------------
(* Runs of workflows.  The state x of a request that executes a run.       *)
(*                                                                         *)
(* A run was claimed at a time; after `step` generations at most that many *)
(* times the ceiling of one has passed, so that a run whose row is there   *)
(* is never old enough to be swept while it executes.                      *)

Phases == {"step", "generate", "count", "succeed", "catch"}
Counting == {"step", "generate", "count"}

\* Identifiers are there when the code uses them.
Named(x) ==
  /\ x.pc \in {"addProject", "setProject", "dropProject", "addFlow", "setFlow"}
       => x.project \in Projects
  /\ x.pc \in {"addFlow", "setFlow", "dropFlow"} => x.flow \in Flows
  /\ x.pc \in {"claim"} \cup Phases => x.run \in Runs /\ x.flow \in Flows
  /\ x.pc = "claim" => x.step = 0

\* A run that was claimed at the time `at` is on time at the time n.
OnTime(x, at, n) ==
  /\ x.pc \in {"step", "succeed"} => n <= at + x.step * StepLimit
  /\ x.pc = "generate" => /\ x.since <= at + x.step * StepLimit
                          /\ n <= x.since + StepLimit
  /\ x.pc = "count" => n <= at + (x.step + 1) * StepLimit
  /\ x.pc = "catch" => n <= at + Steps * StepLimit

Works(x) ==
  x.pc \in Phases =>
    /\ claims[x.run][x.flow] = 1
    /\ x.pc \in Counting => x.step < Steps
    /\ x.pc = "succeed" => x.step = Steps
    /\ x.pc = "step" => late[x.run][x.flow] = 0
    /\ Stored(x.run) => /\ run[x.run].status = "RESERVED"
                        /\ run[x.run].flow = x.flow
                        /\ run[x.run].completed = x.step
                        /\ OnTime(x, run[x.run].at, now)

Has(r, f) == Stored(r) /\ run[r].flow = f

\* An identifier that was executed for a workflow and has no row of it lost it
\* with the workflow, for ever.
Claimed(r) ==
  \A f \in Flows :
    /\ claims[r][f] \in {0, 1}
    /\ Has(r, f) => claims[r][f] = 1
    /\ claims[r][f] = 1 /\ ~Has(r, f) => flow[f].project = "removed"
    /\ late[r][f] \in {0, 1}
    /\ claims[r][f] = 0 => late[r][f] = 0
    /\ Has(r, f) => late[r][f] = 0

Tells(r) ==
  /\ run[r].status = "SUCCEEDED" => run[r].completed = Steps
  /\ run[r].status = "RESERVED" =>
       faults > 0 \/ \E j \in Jobs : job[j].pc \in Phases /\ job[j].run = r

\* No two requests execute one run, or two runs that both have rows.
Alone ==
  \A i, j \in Jobs :
    job[i].pc \in Phases /\ job[j].pc \in Phases =>
      \/ i = j
      \/ /\ job[i].run # job[j].run
         /\ ~Stored(job[i].run) \/ ~Stored(job[j].run)

\* Requests with one identifier that are under way are for one workflow.
OneFlow ==
  \A i, j \in Jobs :
    /\ job[i].pc \in {"claim"} \cup Phases /\ job[j].pc \in {"claim"} \cup Phases
    /\ job[i].run = job[j].run
    => job[i].flow = job[j].flow

RunsInv ==
  /\ WorkflowsTypeOK
  /\ \A j \in Jobs : Named(job[j]) /\ Works(job[j])
  /\ \A r \in Runs : Claimed(r) /\ Tells(r)
  /\ Alone

----------------------------------------------------------------------------
LEMMA Multiples ==
  ASSUME NEW a \in Nat, NEW b \in Nat, NEW c \in Nat, a <= b
  PROVE  a * c <= b * c /\ a * c \in Nat /\ b * c \in Nat
  OBVIOUS

LEMMA OneMore ==
  ASSUME NEW a \in Nat, NEW c \in Nat
  PROVE  (a + 1) * c = a * c + c
  OBVIOUS

LEMMA JobFacts ==
  ASSUME WorkflowsTypeOK, NEW j \in Jobs
  PROVE  /\ job[j] \in Job
         /\ job[j].step \in 0..Steps /\ job[j].since \in 0..MaxTime
         /\ job[j].closed \in BOOLEAN
  BY DEF WorkflowsTypeOK, Job

LEMMA RunFacts ==
  ASSUME WorkflowsTypeOK, NEW r \in Runs, Stored(r)
  PROVE  /\ run[r] \in RunRow
         /\ run[r].at \in 0..MaxTime /\ run[r].completed \in 0..Steps
  BY DEF WorkflowsTypeOK, Stored, Gone, RunRow

LEMMA FreeFacts == /\ Free \in Job /\ Free.pc = "idle"
                   /\ Named(Free) /\ Works(Free)
<1>1. Free \in Job
  BY DEF Free, Job
<1> QED
  BY <1>1 DEF Free, Named, Works, Phases

\* What a request has got when it goes on to another place.
LEMMA TurnsFacts ==
  ASSUME WorkflowsTypeOK, NEW j \in Jobs,
         NEW label \in {"idle", "step", "generate", "count", "succeed", "catch"}
  PROVE  LET y == [job[j] EXCEPT !.pc = label]
             x == IF y.pc = "idle" THEN Free ELSE y
         IN  /\ x \in Job
             /\ Turns(j, label) => job' = [job EXCEPT ![j] = x]
             /\ x.pc = label
             /\ label # "idle" => /\ x.run = job[j].run /\ x.flow = job[j].flow
                                  /\ x.step = job[j].step
                                  /\ x.since = job[j].since /\ x.closed = job[j].closed
<1>1. job[j] \in Job
  BY JobFacts
<1>2. [job[j] EXCEPT !.pc = label] \in Job
  BY <1>1 DEF Job
<1> QED
  BY <1>1, <1>2, FreeFacts DEF Turns, Does, Job

\* While a run with a row executes, it is not old.
LEMMA NotOld ==
  ASSUME RunsInv, NEW j \in Jobs, job[j].pc \in Phases, Stored(job[j].run)
  PROVE  /\ job[j].run \in Runs
         /\ run[job[j].run].status = "RESERVED"
         /\ now <= run[job[j].run].at + Steps * StepLimit
         /\ ~Old(job[j].run)
<1> DEFINE x == job[j]  at == run[x.run].at
<1>1. /\ x.run \in Runs /\ x.step \in 0..Steps /\ x.since \in 0..MaxTime
      /\ x.pc \in Counting => x.step < Steps
      /\ run[x.run].status = "RESERVED" /\ OnTime(x, at, now)
  BY JobFacts DEF RunsInv, Named, Works
<1>2. at \in 0..MaxTime /\ now \in 0..MaxTime
  BY <1>1, RunFacts DEF RunsInv, WorkflowsTypeOK
<1>3. x.step * StepLimit <= Steps * StepLimit /\ x.step * StepLimit \in Nat
  BY <1>1, Multiples
<1>4. (x.step + 1) * StepLimit = x.step * StepLimit + StepLimit
  BY <1>1, OneMore
<1>5. x.pc \in Counting => (x.step + 1) * StepLimit <= Steps * StepLimit
  BY <1>1, Multiples
<1>6. Steps * StepLimit \in Nat
  BY Multiples
<1>7. now <= at + Steps * StepLimit
  <2> HIDE DEF x, at
  <2>1. CASE x.pc \in {"step", "succeed"}
    BY <2>1, <1>1, <1>2, <1>3, <1>6 DEF OnTime
  <2>2. CASE x.pc = "generate"
    BY <2>2, <1>1, <1>2, <1>3, <1>4, <1>5, <1>6 DEF OnTime, Counting
  <2>3. CASE x.pc = "count"
    BY <2>3, <1>1, <1>2, <1>3, <1>4, <1>5, <1>6 DEF OnTime, Counting
  <2>4. CASE x.pc = "catch"
    BY <2>4, <1>1 DEF OnTime
  <2> QED
    BY <2>1, <2>2, <2>3, <2>4 DEF Phases, x
<1>8. ~(at < now - SweepAge)
  BY <1>2, <1>6, <1>7
<1> QED
  BY <1>1, <1>7, <1>8 DEF Old

----------------------------------------------------------------------------
(* Steps of one request. *)

FlowKept ==
  /\ flow' \in [Flows -> FlowRow \cup {NoFlow("none"), NoFlow("removed")}]
  /\ \A f \in Flows : flow[f].project = "removed" => flow'[f].project = "removed"

ProjectKept == project' \in [Projects -> {"none", "open", "archived", "removed"}]

\* Request j goes on, as x, and no run is written.
LEMMA JobGoes ==
  ASSUME RunsInv, AccountStep, FlowKept, ProjectKept,
         UNCHANGED <<now, run, claims, late>>,
         NEW j \in Jobs, NEW x \in Job, job' = [job EXCEPT ![j] = x],
         Named(x), Works(x),
         x.pc \in Phases => job[j].pc \in Phases /\ x.run = job[j].run,
         job[j].pc \in Phases /\ x.pc \notin Phases
           => faults' > 0 \/ ~Stored(job[j].run)
  PROVE  RunsInv'
<1>1. \A i \in Jobs : job'[i] = IF i = j THEN x ELSE job[i]
  BY DEF RunsInv, WorkflowsTypeOK
<1>2. WorkflowsTypeOK'
  BY DEF RunsInv, WorkflowsTypeOK, FlowKept, ProjectKept
<1>3. \A i \in Jobs : (Named(job[i]) /\ Works(job[i]))'
  BY <1>1 DEF RunsInv, Named, Works, Stored, OnTime
<1>4. \A r \in Runs : Claimed(r)'
  BY DEF RunsInv, Claimed, Has, Stored, FlowKept
<1>5. \A r \in Runs : Tells(r)'
  <2> SUFFICES ASSUME NEW r \in Runs PROVE Tells(r)'
    OBVIOUS
  <2>1. Tells(r)
    BY DEF RunsInv
  <2>2. ASSUME run[r].status = "RESERVED", ~(faults' > 0)
        PROVE  \E i \in Jobs : job'[i].pc \in Phases /\ job'[i].run = r
    <3>1. ~(faults > 0)
      BY <2>2 DEF AccountStep
    <3>2. PICK i \in Jobs : job[i].pc \in Phases /\ job[i].run = r
      BY <2>1, <2>2, <3>1 DEF Tells
    <3>3. Stored(r)
      BY <2>2 DEF Stored
    <3>4. job'[i].pc \in Phases /\ job'[i].run = r
      BY <1>1, <2>2, <3>2, <3>3
    <3> QED
      BY <3>4
  <2> QED
    BY <2>1, <2>2 DEF Tells
<1>6. Alone'
  BY <1>1 DEF RunsInv, Alone, Stored
<1> QED
  BY <1>2, <1>3, <1>4, <1>5, <1>6 DEF RunsInv

\* Request j, which executes a run with a row, goes on as x and writes the row,
\* which tells the outcome if the request ends.
LEMMA RunGoes ==
  ASSUME RunsInv, AccountStep, UNCHANGED <<now, project, flow, claims, late>>,
         NEW j \in Jobs, job[j].pc \in Phases, Stored(job[j].run),
         NEW x \in Job, job' = [job EXCEPT ![j] = x],
         NEW y \in RunRow, run' = [run EXCEPT ![job[j].run] = y],
         y.at = run[job[j].run].at, y.flow = run[job[j].run].flow,
         x.pc \in {"idle", "step", "succeed"},
         x.pc = "idle" => /\ Named(x) /\ y.status # "RESERVED"
                          /\ y.status = "SUCCEEDED" => y.completed = Steps,
         x.pc # "idle" => /\ x.run = job[j].run /\ x.flow = job[j].flow /\ y.status = "RESERVED"
                          /\ y.completed = x.step /\ OnTime(x, y.at, now)
                          /\ x.pc = "step" => x.step < Steps
                          /\ x.pc = "succeed" => x.step = Steps
  PROVE  RunsInv'
<1> DEFINE r == job[j].run
<1>1. \A i \in Jobs : job'[i] = IF i = j THEN x ELSE job[i]
  BY DEF RunsInv, WorkflowsTypeOK
<1> DEFINE f == job[j].flow
<1>2. /\ r \in Runs /\ f \in Flows /\ Stored(r) /\ run[r].flow = f
      /\ claims[r][f] = 1 /\ late[r][f] = 0
  BY DEF RunsInv, Named, Works, Claimed, Has
<1>3. \A q \in Runs : run'[q] = IF q = r THEN y ELSE run[q]
  BY <1>2 DEF RunsInv, WorkflowsTypeOK
<1>4. \A q \in Runs : run'[q].status = "gone" <=> run[q].status = "gone"
  BY <1>2, <1>3 DEF Stored, RunRow, Terminal
<1>5. WorkflowsTypeOK'
  BY DEF RunsInv, WorkflowsTypeOK
<1>6. \A i \in Jobs \ {j} : job[i].pc \in Phases => job[i].run # r /\ job[i].run \in Runs
  BY DEF RunsInv, Alone, Named
<1>7. \A i \in Jobs : (Named(job[i]) /\ Works(job[i]))'
  <2> SUFFICES ASSUME NEW i \in Jobs PROVE (Named(job[i]) /\ Works(job[i]))'
    OBVIOUS
  <2>1. CASE i = j
    <3>1. job'[i] = x
      BY <1>1, <2>1
    <3>2. CASE x.pc = "idle"
      BY <3>1, <3>2 DEF Named, Works, Phases
    <3>3. CASE x.pc # "idle"
      BY <1>2, <1>3, <3>1, <3>3 DEF Named, Works, Phases, Counting
    <3> QED
      BY <3>2, <3>3
  <2>2. CASE i # j
    <3>1. job'[i] = job[i] /\ Named(job[i]) /\ Works(job[i])
      BY <1>1, <2>2 DEF RunsInv
    <3>2. job[i].pc \in Phases => run'[job[i].run] = run[job[i].run]
      BY <1>3, <1>6, <2>2
    <3> QED
      BY <3>1, <3>2 DEF Named, Works, Stored, OnTime
  <2> QED
    BY <2>1, <2>2
<1>8. \A q \in Runs : Claimed(q)'
  <2>1. \A q \in Runs, g \in Flows : Has(q, g)' <=> Has(q, g)
    BY <1>2, <1>3, <1>4 DEF Has, Stored
  <2> QED
    BY <2>1 DEF RunsInv, Claimed
<1>9. \A q \in Runs : Tells(q)'
  <2> SUFFICES ASSUME NEW q \in Runs PROVE Tells(q)'
    OBVIOUS
  <2>1. CASE q = r
    BY <1>1, <1>3, <2>1 DEF Tells, Phases
  <2>2. CASE q # r
    <3>1. Tells(q) /\ run'[q] = run[q]
      BY <1>3, <2>2 DEF RunsInv
    <3>2. \A i \in Jobs : job[i].pc \in Phases /\ job[i].run = q =>
                          job'[i].pc \in Phases /\ job'[i].run = q
      BY <1>1, <2>2
    <3> QED
      BY <3>1, <3>2 DEF Tells, AccountStep
  <2> QED
    BY <2>1, <2>2
<1>10. \A i \in Jobs : job'[i].pc \in Phases =>
          job[i].pc \in Phases /\ job'[i].run = job[i].run /\ job[i].run \in Runs
  BY <1>1, <1>2, <1>6 DEF Phases
<1>11. Alone'
  BY <1>4, <1>10 DEF RunsInv, Alone, Stored
<1> QED
  BY <1>5, <1>7, <1>8, <1>9, <1>11 DEF RunsInv

----------------------------------------------------------------------------
(* Projects and workflows. *)

\* A request that executes no run begins, goes on or ends.
LEMMA Aside ==
  ASSUME RunsInv, AccountStep, FlowKept, ProjectKept,
         UNCHANGED <<now, run, claims, late>>,
         NEW j \in Jobs, job[j].pc \notin Phases,
         NEW x \in Job, job' = [job EXCEPT ![j] = x], Named(x), x.pc \notin Phases
  PROVE  RunsInv'
<1>1. Works(x)
  BY DEF Works
<1> QED
  BY <1>1, JobGoes

LEMMA Unwritten == RunsInv /\ UNCHANGED <<project, flow>> => FlowKept /\ ProjectKept
  BY DEF RunsInv, WorkflowsTypeOK, FlowKept, ProjectKept

LEMMA AsideBegins ==
  ASSUME RunsInv, Account, Send, NEW j \in Jobs, job[j] = Free,
         UNCHANGED <<now, tables, claims, late>>,
         NEW x \in Job, Does(j, x), Named(x), x.pc \notin {"idle"} \cup Phases
  PROVE  RunsInv'
<1>1. job' = [job EXCEPT ![j] = x] /\ x.pc \notin Phases
  BY DEF Does
<1>2. job[j].pc \notin Phases
  BY FreeFacts DEF Phases
<1> QED
  BY <1>1, <1>2, Aside, Unwritten, AccountSteps DEF tables

LEMMA AsideEnds ==
  ASSUME RunsInv, Account, UNCHANGED <<account, now, run, claims, late>>,
         FlowKept, ProjectKept,
         NEW j \in Jobs, job[j].pc \notin Phases, Turns(j, "idle")
  PROVE  RunsInv'
<1>1. job' = [job EXCEPT ![j] = Free]
  BY TurnsFacts DEF Turns, Does
<1> QED
  BY <1>1, FreeFacts, Aside, AccountSteps DEF Phases

LEMMA BeginsKeeps ==
  ASSUME RunsInv, Account, NEW j \in Jobs,
         \/ \E p \in Projects : SaveProject(j, p) \/ RemoveProject(j, p)
         \/ \E f \in Flows : RemoveFlow(j, f) \/ \E p \in Projects : SaveFlow(j, f, p)
         \/ \E r \in Runs, f \in Flows : StartRun(j, r, f)
  PROVE  RunsInv'
<1>1. tier \in Tiers
  BY DEF Account, MembershipTypeOK
<1>2. ASSUME NEW p \in Projects, SaveProject(j, p)
      PROVE  RunsInv'
  <2> DEFINE x == [Free EXCEPT !.project = p, !.tier = tier,
                          !.pc = IF project[p] = "none" THEN "addProject" ELSE "setProject"]
  <2>1. x \in Job /\ Named(x) /\ x.pc \notin {"idle"} \cup Phases
    BY <1>1, FreeFacts DEF Free, Job, Named, Phases
  <2>2. Does(j, x)
    BY <1>2 DEF SaveProject
  <2> HIDE DEF x
  <2> QED
    BY <1>2, <2>1, <2>2, AsideBegins DEF SaveProject
<1>3. ASSUME NEW p \in Projects, RemoveProject(j, p)
      PROVE  RunsInv'
  <2> DEFINE x == [Free EXCEPT !.project = p, !.pc = "dropProject"]
  <2>1. x \in Job /\ Named(x) /\ x.pc \notin {"idle"} \cup Phases
    BY <1>1, FreeFacts DEF Free, Job, Named, Phases
  <2>2. Does(j, x)
    BY <1>3 DEF RemoveProject
  <2> HIDE DEF x
  <2> QED
    BY <1>3, <2>1, <2>2, AsideBegins DEF RemoveProject
<1>4. ASSUME NEW f \in Flows, RemoveFlow(j, f)
      PROVE  RunsInv'
  <2> DEFINE x == [Free EXCEPT !.flow = f, !.pc = "dropFlow"]
  <2>1. x \in Job /\ Named(x) /\ x.pc \notin {"idle"} \cup Phases
    BY <1>1, FreeFacts DEF Free, Job, Named, Phases
  <2>2. Does(j, x)
    BY <1>4 DEF RemoveFlow
  <2> HIDE DEF x
  <2> QED
    BY <1>4, <2>1, <2>2, AsideBegins DEF RemoveFlow
<1>5. ASSUME NEW f \in Flows, NEW p \in Projects, SaveFlow(j, f, p)
      PROVE  RunsInv'
  <2> DEFINE x == [Free EXCEPT !.project = p, !.flow = f, !.tier = tier,
                          !.pc = IF f \in FlowRows THEN "setFlow" ELSE "addFlow"]
  <2>1. x \in Job /\ Named(x) /\ x.pc \notin {"idle"} \cup Phases
    BY <1>1, FreeFacts DEF Free, Job, Named, Phases
  <2>2. Does(j, x)
    BY <1>5 DEF SaveFlow
  <2> HIDE DEF x
  <2> QED
    BY <1>5, <2>1, <2>2, AsideBegins DEF SaveFlow
<1>6. ASSUME NEW r \in Runs, NEW f \in Flows, StartRun(j, r, f)
      PROVE  RunsInv'
  <2> DEFINE x == [Free EXCEPT !.run = r, !.flow = f, !.pc = "claim"]
  <2>1. x \in Job /\ Named(x) /\ x.pc \notin {"idle"} \cup Phases
    BY <1>1, FreeFacts DEF Free, Job, Named, Phases
  <2>2. Does(j, x)
    BY <1>6 DEF StartRun
  <2> HIDE DEF x
  <2> QED
    BY <1>6, <2>1, <2>2, AsideBegins DEF StartRun
<1> QED
  BY <1>2, <1>3, <1>4, <1>5, <1>6

LEMMA RowsKeep ==
  ASSUME RunsInv, Account, NEW j \in Jobs,
         AddProject(j) \/ SetProject(j) \/ AddFlow(j) \/ SetFlow(j)
  PROVE  RunsInv'
<1>1. Named(job[j])
  BY DEF RunsInv
<1>2. CASE AddProject(j) \/ SetProject(j)
  <2>1. ProjectKept
    BY <1>1, <1>2 DEF AddProject, SetProject, Named, ProjectKept, RunsInv, WorkflowsTypeOK
  <2>2. FlowKept
    BY <1>2 DEF AddProject, SetProject, RunsInv, WorkflowsTypeOK, FlowKept
  <2> QED
    BY <1>2, <2>1, <2>2, AsideEnds DEF AddProject, SetProject, Phases
<1>3. CASE AddFlow(j) \/ SetFlow(j)
  <2>1. ProjectKept
    BY <1>3 DEF AddFlow, SetFlow, ProjectKept, RunsInv, WorkflowsTypeOK
  <2>2. PICK f \in Flows, p \in Projects, enabled \in BOOLEAN :
          \/ UNCHANGED flow
          \/ /\ flow[f].project # "removed"
             /\ flow' = [flow EXCEPT ![f] = [project |-> p, enabled |-> enabled]]
    BY <1>1, <1>3 DEF AddFlow, SetFlow, FlowRows, Named
  <2>3. [project |-> p, enabled |-> enabled] \in FlowRow
    BY DEF FlowRow
  <2>4. FlowKept
    BY <2>2, <2>3 DEF FlowKept, RunsInv, WorkflowsTypeOK
  <2> QED
    BY <1>3, <2>1, <2>4, AsideEnds DEF AddFlow, SetFlow, Phases
<1> QED
  BY <1>2, <1>3

\* The rows of workflows go, and those of their runs with them.
LEMMA WithoutFlowsKeeps ==
  ASSUME RunsInv, AccountStep, ProjectKept, UNCHANGED <<now, claims, late>>,
         NEW gone \in SUBSET Flows, WithoutFlows(gone),
         NEW j \in Jobs, job[j].pc \notin Phases, job' = [job EXCEPT ![j] = Free]
  PROVE  RunsInv'
<1>1. /\ \A i \in Jobs : job'[i] = IF i = j THEN Free ELSE job[i]
      /\ \A r \in Runs : run'[r] = IF Stored(r) /\ run[r].flow \in gone THEN Gone ELSE run[r]
      /\ \A f \in Flows : flow'[f] = IF f \in gone THEN NoFlow("removed") ELSE flow[f]
  BY DEF RunsInv, WorkflowsTypeOK, WithoutFlows
<1>2. WorkflowsTypeOK'
  BY FreeFacts DEF RunsInv, WorkflowsTypeOK, WithoutFlows, ProjectKept
<1>3. \A i \in Jobs : job'[i].pc \in Phases => i # j /\ job'[i] = job[i] /\ job[i].run \in Runs
  BY <1>1, FreeFacts DEF Phases, RunsInv, Named
<1>4. \A i \in Jobs : (Named(job[i]) /\ Works(job[i]))'
  <2> SUFFICES ASSUME NEW i \in Jobs PROVE (Named(job[i]) /\ Works(job[i]))'
    OBVIOUS
  <2>1. Named(job[i])'
    BY <1>1, FreeFacts DEF RunsInv, Named
  <2>2. ASSUME job'[i].pc \in Phases
        PROVE  Works(job[i])'
    <3>1. job'[i] = job[i] /\ job[i].run \in Runs /\ Works(job[i])
      BY <1>3, <2>2 DEF RunsInv
    <3>2. run'[job[i].run] \in {Gone, run[job[i].run]}
      BY <1>1, <3>1
    <3> QED
      BY <3>1, <3>2 DEF Works, Stored, Gone, OnTime
  <2> QED
    BY <2>1, <2>2 DEF Works
<1>5. \A r \in Runs : Claimed(r)'
  <2>1. \A r \in Runs, f \in Flows : Has(r, f)' <=> Has(r, f) /\ f \notin gone
    BY <1>1 DEF Has, Stored, Gone
  <2>2. \A f \in Flows : /\ f \in gone => flow'[f].project = "removed"
                         /\ f \notin gone => flow'[f] = flow[f]
    BY <1>1 DEF NoFlow
  <2> QED
    BY <2>1, <2>2 DEF RunsInv, Claimed
<1>6. \A r \in Runs : Tells(r)'
  <2> SUFFICES ASSUME NEW r \in Runs PROVE Tells(r)'
    OBVIOUS
  <2>1. CASE run'[r] = Gone
    BY <2>1 DEF Tells, Gone
  <2>2. CASE run'[r] # Gone
    <3>1. Tells(r) /\ run'[r] = run[r]
      BY <1>1, <2>2 DEF RunsInv
    <3>2. \A i \in Jobs : job[i].pc \in Phases => job'[i] = job[i]
      BY <1>1
    <3> QED
      BY <3>1, <3>2 DEF Tells, AccountStep
  <2> QED
    BY <2>1, <2>2
<1>7. Alone'
  BY <1>1, <1>3 DEF RunsInv, Alone, Stored, Gone
<1> QED
  BY <1>2, <1>4, <1>5, <1>6, <1>7 DEF RunsInv

LEMMA DropsKeep ==
  ASSUME RunsInv, Account, NEW j \in Jobs, DropProject(j) \/ DropFlow(j)
  PROVE  RunsInv'
<1>1. Named(job[j]) /\ job[j].pc \notin Phases
  BY DEF RunsInv, DropProject, DropFlow, Phases
<1>2. job' = [job EXCEPT ![j] = Free]
  BY DEF DropProject, DropFlow, Turns, Does
<1>3. AccountStep
  BY AccountSteps DEF DropProject, DropFlow
<1>4. CASE UNCHANGED tables
  BY <1>1, <1>2, <1>3, <1>4, FreeFacts, Aside, Unwritten DEF DropProject, DropFlow, tables, Phases
<1>5. CASE DropProject(j) /\ ~UNCHANGED tables
  <2> DEFINE p == job[j].project
  <2>1. /\ project' = [project EXCEPT ![p] = "removed"]
        /\ WithoutFlows(FlowsOf(p)) /\ UNCHANGED <<now, claims, late>>
    BY <1>5 DEF DropProject
  <2>2. ProjectKept
    BY <2>1 DEF ProjectKept, RunsInv, WorkflowsTypeOK
  <2>3. FlowsOf(p) \in SUBSET Flows
    BY DEF FlowsOf, FlowRows
  <2> QED
    BY <1>1, <1>2, <1>3, <2>1, <2>2, <2>3, WithoutFlowsKeeps
<1>6. CASE DropFlow(j) /\ ~UNCHANGED tables
  <2>1. /\ WithoutFlows({job[j].flow}) /\ UNCHANGED <<project, now, claims, late>>
    BY <1>6 DEF DropFlow
  <2>2. {job[j].flow} \in SUBSET Flows
    BY <1>1, <1>6 DEF Named, DropFlow
  <2>3. ProjectKept
    BY <2>1 DEF ProjectKept, RunsInv, WorkflowsTypeOK
  <2> QED
    BY <1>1, <1>2, <1>3, <2>1, <2>2, <2>3, WithoutFlowsKeeps
<1> QED
  BY <1>4, <1>5, <1>6

----------------------------------------------------------------------------
(* The claim of a run, and its execution. *)

LEMMA ClaimKeeps ==
  ASSUME RunsInv, OneFlow, Account, NEW j \in Jobs, Claim(j),
         Claimable(job[j].run, job[j].flow)
  PROVE  RunsInv'
<1> DEFINE r == job[j].run
           x == [job[j] EXCEPT !.pc = "step"]
           f == job[j].flow
           y == [status |-> "RESERVED", flow |-> f, completed |-> 0, at |-> now]
<1>1. /\ r \in Runs /\ f \in Flows /\ job[j].step = 0 /\ job[j].pc = "claim"
      /\ ~Stored(r) /\ Running = {} /\ f \in FlowRows
  BY DEF RunsInv, Named, Claim, Claimable, Repeated
<1>2. /\ claims[r][f] = 0 /\ late[r][f] = 0
  BY <1>1 DEF RunsInv, Claimed, Has, FlowRows
<1>3. /\ x \in Job /\ x.pc = "step" /\ x.run = r /\ x.flow = f /\ x.step = 0
      /\ job' = [job EXCEPT ![j] = x]
  <2>1. job[j] \in Job
    BY JobFacts DEF RunsInv
  <2> QED
    BY <1>1, <2>1 DEF Job, Claim, Turns, Does
<1>4. y \in RunRow
  BY <1>1 DEF RunRow, RunsInv, WorkflowsTypeOK
<1>5. /\ run' = [Swept EXCEPT ![r] = y] /\ claims' = [claims EXCEPT ![r][f] = @ + 1]
      /\ UNCHANGED <<account, now, project, flow, late>>
  BY DEF Claim
<1> HIDE DEF x
<1>6. \A i \in Jobs : job'[i] = IF i = j THEN x ELSE job[i]
  BY <1>3 DEF RunsInv, WorkflowsTypeOK
<1>7. \A q \in Runs : Swept[q] \in RunRow \cup {Gone}
  <2> SUFFICES ASSUME NEW q \in Runs PROVE Swept[q] \in RunRow \cup {Gone}
    OBVIOUS
  <2>1. run[q] \in RunRow \cup {Gone}
    BY DEF RunsInv, WorkflowsTypeOK
  <2>2. CASE Old(q)
    <3>1. run[q] \in RunRow
      BY <2>1, <2>2 DEF Old, Gone
    <3>2. [run[q] EXCEPT !.status = "INTERRUPTED"] \in RunRow
      BY <3>1 DEF RunRow, Terminal
    <3> QED
      BY <2>2, <3>2 DEF Swept
  <2>3. CASE ~Old(q)
    BY <2>1, <2>3 DEF Swept
  <2> QED
    BY <2>2, <2>3
<1>8. \A q \in Runs : run'[q] = IF q = r THEN y ELSE Swept[q]
  BY <1>1, <1>5 DEF Swept
<1>9. \A q \in Runs, g \in Flows :
        claims'[q][g] = IF q = r /\ g = f THEN 1 ELSE claims[q][g]
  BY <1>1, <1>2, <1>5 DEF RunsInv, WorkflowsTypeOK
<1>10. \A q \in Runs : /\ ~Old(q) => Swept[q] = run[q]
                       /\ Old(q) => /\ Swept[q].status = "INTERRUPTED"
                                    /\ Swept[q].flow = run[q].flow
                                    /\ run[q].status = "RESERVED"
  BY DEF Swept, Old, RunsInv, WorkflowsTypeOK, RunRow, Gone
<1>11. \A q \in Runs : Swept[q].status = "gone" <=> run[q].status = "gone"
  BY <1>10
\* No run that has a row executes.
<1>12. \A i \in Jobs : job[i].pc \in Phases => job[i].run \in Runs \ {r} /\ ~Stored(job[i].run)
  <2> SUFFICES ASSUME NEW i \in Jobs, job[i].pc \in Phases
               PROVE  job[i].run \in Runs \ {r} /\ ~Stored(job[i].run)
    OBVIOUS
  <2>1. /\ job[i].run \in Runs /\ claims[job[i].run][job[i].flow] = 1
        /\ job[i].run = r => job[i].flow = f
    BY <1>1 DEF RunsInv, Named, Works, OneFlow
  <2>2. ~Stored(job[i].run)
    BY <1>1, <2>1, NotOld DEF Running
  <2> QED
    BY <1>2, <2>1, <2>2
<1>13. WorkflowsTypeOK'
  <2>1. run' \in [Runs -> RunRow \cup {Gone}]
    BY <1>1, <1>4, <1>5, <1>7 DEF Swept
  <2>2. claims' \in [Runs -> [Flows -> Nat]]
    BY <1>1, <1>2, <1>5 DEF RunsInv, WorkflowsTypeOK
  <2> QED
    BY <1>3, <1>5, <2>1, <2>2 DEF RunsInv, WorkflowsTypeOK
<1>14. \A i \in Jobs : (Named(job[i]) /\ Works(job[i]))'
  <2> SUFFICES ASSUME NEW i \in Jobs PROVE (Named(job[i]) /\ Works(job[i]))'
    OBVIOUS
  <2>1. CASE i = j
    <3>1. job'[i] = x /\ run'[r] = y /\ claims'[r][f] = 1 /\ late'[r][f] = 0
      BY <1>1, <1>2, <1>5, <1>6, <1>8, <1>9, <2>1
    <3>2. OnTime(x, now, now)
      <4>1. 0 * StepLimit = 0 /\ now \in Nat
        BY DEF RunsInv, WorkflowsTypeOK
      <4> QED
        BY <1>3, <4>1 DEF OnTime
    <3> QED
      BY <1>1, <1>3, <1>5, <3>1, <3>2 DEF Named, Works, Phases, Counting
  <2>2. CASE i # j
    <3>1. job'[i] = job[i] /\ Named(job[i]) /\ Works(job[i])
      BY <1>6, <2>2 DEF RunsInv
    <3>2. ASSUME job[i].pc \in Phases
          PROVE  /\ claims'[job[i].run][job[i].flow] = claims[job[i].run][job[i].flow]
                 /\ run'[job[i].run].status = "gone"
      <4>1. job[i].run \in Runs \ {r} /\ job[i].flow \in Flows /\ ~Stored(job[i].run)
        BY <1>12, <3>1, <3>2 DEF Named
      <4> QED
        BY <1>8, <1>9, <1>11, <4>1 DEF Stored
    <3> QED
      BY <1>5, <3>1, <3>2 DEF Named, Works, Stored
  <2> QED
    BY <2>1, <2>2
<1>15. \A q \in Runs : Claimed(q)'
  <2> SUFFICES ASSUME NEW q \in Runs PROVE Claimed(q)'
    OBVIOUS
  <2>1. CASE q = r
    <3>1. ~Stored(q) /\ Claimed(q)
      BY <1>1, <2>1 DEF RunsInv
    <3>2. \A g \in Flows : Has(q, g)' <=> g = f
      <4>1. run'[q].status = "RESERVED" /\ run'[q].flow = f
        BY <1>8, <2>1
      <4> QED
        BY <4>1 DEF Has, Stored
    <3>3. claims'[q][f] = 1 /\ late'[q][f] = 0
      BY <1>1, <1>2, <1>5, <1>9, <2>1
    <3>4. \A g \in Flows \ {f} : /\ claims'[q][g] = claims[q][g] /\ late'[q][g] = late[q][g]
                                /\ flow'[g] = flow[g] /\ ~Has(q, g)
      BY <1>5, <1>9, <3>1 DEF Has
    <3> HIDE DEF f
    <3> QED
      BY <3>1, <3>2, <3>3, <3>4 DEF Claimed
  <2>2. CASE q # r
    <3>1. \A g \in Flows : Has(q, g)' <=> Has(q, g)
      BY <1>8, <1>10, <1>11, <2>2 DEF Has, Stored
    <3> QED
      BY <1>5, <1>9, <2>2, <3>1 DEF RunsInv, Claimed
  <2> QED
    BY <2>1, <2>2
<1>16. \A q \in Runs : Tells(q)'
  <2> SUFFICES ASSUME NEW q \in Runs PROVE Tells(q)'
    OBVIOUS
  <2>1. CASE q = r
    BY <1>3, <1>6, <1>8, <2>1 DEF Tells, Phases
  <2>2. CASE q # r
    <3>1. Tells(q) /\ run'[q] = Swept[q]
      BY <1>8, <2>2 DEF RunsInv
    <3>2. \A i \in Jobs : job[i].pc \in Phases => job'[i] = job[i]
      BY <1>1, <1>6 DEF Phases
    <3>3. CASE Old(q)
      BY <1>10, <3>1, <3>3 DEF Tells
    <3>4. CASE ~Old(q)
      BY <1>5, <1>10, <3>1, <3>2, <3>4 DEF Tells, account
    <3> QED
      BY <3>3, <3>4
  <2> QED
    BY <2>1, <2>2
<1>17. Alone'
  <2>1. \A i \in Jobs : job'[i].pc \in Phases => i = j \/ job[i].pc \in Phases
    BY <1>6
  <2>2. \A i \in Jobs \ {j} : job'[i].pc \in Phases =>
          /\ job'[i].run = job[i].run /\ job[i].run \in Runs \ {r}
          /\ run'[job[i].run].status = "gone"
    BY <1>6, <1>8, <1>11, <1>12 DEF Stored
  <2>3. job'[j].run = r
    BY <1>3, <1>6
  <2>4. \A i, k \in Jobs \ {j} : job'[i].pc \in Phases /\ job'[k].pc \in Phases =>
          i = k \/ job'[i].run # job'[k].run
    BY <1>6 DEF RunsInv, Alone
  <2> QED
    BY <2>2, <2>3, <2>4 DEF Alone, Stored
<1> QED
  BY <1>13, <1>14, <1>15, <1>16, <1>17 DEF RunsInv

\* A step begins; one for a run whose row is gone is the first such.
LEMMA BeginStepKeeps ==
  ASSUME RunsInv, Account, NEW j \in Jobs, BeginStep(j)
  PROVE  RunsInv'
<1> DEFINE r == job[j].run  f == job[j].flow
<1>1. /\ r \in Runs /\ job[j] \in Job /\ job[j].pc = "step" /\ Works(job[j]) /\ Named(job[j])
      /\ f \in Flows /\ claims[r][f] = 1 /\ late[r][f] = 0
      /\ job[j].step < Steps /\ job[j].step \in 0..Steps
  BY JobFacts DEF RunsInv, Named, Works, BeginStep, Phases, Counting
<1>2. AccountStep
  BY AccountSteps DEF BeginStep
<1>3. CASE job[j].closed
  <2> DEFINE x == [job[j] EXCEPT !.pc = "catch"]
  <2>1. /\ x \in Job /\ x.pc = "catch" /\ x.run = r /\ x.flow = f /\ x.step = job[j].step
        /\ job' = [job EXCEPT ![j] = x] /\ UNCHANGED <<now, project, flow, run, claims, late>>
    BY <1>1, <1>3 DEF Job, BeginStep, Turns, Does, tables
  <2> HIDE DEF x
  <2>2. Stored(r) => OnTime(x, run[r].at, now)
    BY <1>1, <2>1, NotOld DEF OnTime, Phases
  <2>3. Works(x) /\ Named(x)
    BY <1>1, <2>1, <2>2 DEF Works, Named, Phases, Counting
  <2> QED
    BY <1>1, <1>2, <2>1, <2>3, JobGoes, Unwritten DEF Phases
<1>4. CASE ~job[j].closed
  <2> DEFINE x == [job[j] EXCEPT !.pc = "generate", !.since = now]
  <2>1. /\ x \in Job /\ x.pc = "generate" /\ x.run = r /\ x.flow = f
        /\ x.step = job[j].step /\ x.since = now
        /\ job' = [job EXCEPT ![j] = x] /\ UNCHANGED <<now, project, flow, run, claims>>
    BY <1>1, <1>4 DEF Job, BeginStep, Does, tables, RunsInv, WorkflowsTypeOK
  <2> HIDE DEF x
  <2>2. Stored(r) => OnTime(x, run[r].at, now)
    <3>1. now \in Nat
      BY DEF RunsInv, WorkflowsTypeOK
    <3> QED
      BY <1>1, <2>1, <3>1 DEF OnTime, Works, Phases
  <2>3. Works(x) /\ Named(x)
    BY <1>1, <2>1, <2>2 DEF Works, Named, Phases, Counting
  <2>4. CASE Stored(r)
    <3>1. UNCHANGED late
      BY <1>4, <2>4 DEF BeginStep
    <3> QED
      BY <1>1, <1>2, <2>1, <2>3, <3>1, JobGoes, Unwritten DEF Phases
  <2>5. CASE ~Stored(r)
    <3>1. late' = [late EXCEPT ![r][f] = 1]
      BY <1>1, <1>4, <2>5 DEF BeginStep, RunsInv, WorkflowsTypeOK
    <3>2. \A q \in Runs, g \in Flows : late'[q][g] = IF q = r /\ g = f THEN 1 ELSE late[q][g]
      BY <3>1 DEF RunsInv, WorkflowsTypeOK
    <3>3. \A i \in Jobs : job'[i] = IF i = j THEN x ELSE job[i]
      BY <2>1 DEF RunsInv, WorkflowsTypeOK
    <3>4. \A i \in Jobs \ {j} : job[i].pc \in Phases => job[i].run # r /\ job[i].run \in Runs
      BY <1>1 DEF RunsInv, Alone, Named, Phases
    <3>5. WorkflowsTypeOK'
      BY <1>1, <2>1, <3>1 DEF RunsInv, WorkflowsTypeOK
    <3>6. \A i \in Jobs : (Named(job[i]) /\ Works(job[i]))'
      <4>1. (Named(job[j]) /\ Works(job[j]))'
        BY <2>1, <2>3, <3>3 DEF Works, Named, Stored
      <4>2. \A i \in Jobs \ {j} : (Named(job[i]) /\ Works(job[i]))'
        BY <2>1, <3>2, <3>3, <3>4 DEF RunsInv, Works, Named, Stored
      <4> QED
        BY <4>1, <4>2
    <3>7. \A q \in Runs : Claimed(q)'
      BY <1>1, <2>1, <2>5, <3>2 DEF RunsInv, Claimed, Has, Stored
    <3>8. \A q \in Runs : Tells(q)'
      <4>1. \A i \in Jobs : job[i].pc \in Phases => job'[i].pc \in Phases /\ job'[i].run = job[i].run
        BY <2>1, <3>3 DEF Phases
      <4> QED
        BY <1>2, <2>1, <4>1 DEF RunsInv, Tells, AccountStep
    <3>9. \A i \in Jobs : job'[i].pc \in Phases => job[i].pc \in Phases /\ job'[i].run = job[i].run
      BY <1>1, <2>1, <3>3 DEF Phases
    <3>10. Alone'
      BY <2>1, <3>9 DEF RunsInv, Alone, Stored
    <3> QED
      BY <3>5, <3>6, <3>7, <3>8, <3>10 DEF RunsInv
  <2> QED
    BY <2>4, <2>5
<1> QED
  BY <1>3, <1>4

\* An execution turns to its end, which is not written yet.
LEMMA CatchNext ==
  ASSUME RunsInv, AccountStep, NEW j \in Jobs, job[j].pc \in Phases, Turns(j, "catch"),
         UNCHANGED <<now, tables, claims, late>>
  PROVE  RunsInv'
<1> DEFINE x == [job[j] EXCEPT !.pc = "catch"]
<1>1. /\ x \in Job /\ x.pc = "catch" /\ x.run = job[j].run /\ x.flow = job[j].flow
      /\ job' = [job EXCEPT ![j] = x]
  BY JobFacts DEF RunsInv, Job, Turns, Does
<1> HIDE DEF x
<1>2. /\ job[j].run \in Runs /\ job[j].flow \in Flows
      /\ claims[job[j].run][job[j].flow] = 1 /\ Works(job[j])
  BY DEF RunsInv, Named, Works
<1>3. Stored(x.run) => /\ run[x.run].status = "RESERVED"
                       /\ run[x.run].flow = x.flow
                       /\ run[x.run].completed = x.step
                       /\ OnTime(x, run[x.run].at, now)
  <2>1. x.step = job[j].step
    BY JobFacts DEF x, RunsInv, Job
  <2> QED
    BY <1>1, <1>2, <2>1, NotOld DEF OnTime, Works, Phases
<1>4. Named(x) /\ Works(x)
  BY <1>1, <1>2, <1>3 DEF Named, Works, Phases, Counting
<1> QED
  BY <1>1, <1>4, JobGoes, Unwritten DEF tables, Phases

LEMMA StepEndsKeeps ==
  ASSUME RunsInv, Account, NEW j \in Jobs, StepEnds(j)
  PROVE  RunsInv'
<1>1. /\ job[j] \in Job /\ job[j].pc = "generate" /\ Works(job[j]) /\ Named(job[j])
      /\ job[j].step \in 0..Steps /\ job[j].since \in 0..MaxTime
  BY JobFacts DEF RunsInv, StepEnds
<1>2. AccountStep /\ UNCHANGED <<now, tables, claims, late>>
  BY AccountSteps DEF StepEnds
<1>3. CASE Turns(j, "catch")
  BY <1>1, <1>2, <1>3, CatchNext DEF Phases
<1>4. CASE Turns(j, "count")
  <2> DEFINE x == [job[j] EXCEPT !.pc = "count"]
  <2>1. /\ x \in Job /\ x.pc = "count" /\ x.run = job[j].run /\ x.flow = job[j].flow
        /\ x.step = job[j].step
        /\ job' = [job EXCEPT ![j] = x]
    BY <1>1, <1>4 DEF Job, Turns, Does
  <2> HIDE DEF x
  <2>2. Stored(x.run) => OnTime(x, run[x.run].at, now)
    <3> SUFFICES ASSUME Stored(x.run) PROVE OnTime(x, run[x.run].at, now)
      OBVIOUS
    <3>1. /\ run[x.run].at \in 0..MaxTime /\ now \in 0..MaxTime
      BY <1>1, <2>1, RunFacts DEF RunsInv, Named, Phases, WorkflowsTypeOK
    <3>2. /\ job[j].since <= run[x.run].at + job[j].step * StepLimit
          /\ now <= job[j].since + StepLimit
      BY <1>1, <2>1 DEF Works, OnTime, Phases
    <3>3. (job[j].step + 1) * StepLimit = job[j].step * StepLimit + StepLimit
          /\ job[j].step * StepLimit \in Nat
      BY <1>1, OneMore, Multiples
    <3>4. now <= run[x.run].at + (x.step + 1) * StepLimit
      BY <1>1, <2>1, <3>1, <3>2, <3>3
    <3> QED
      BY <2>1, <3>4 DEF OnTime
  <2>3. Named(x) /\ Works(x)
    BY <1>1, <2>1, <2>2 DEF Named, Works, Phases, Counting
  <2> QED
    BY <1>1, <1>2, <2>1, <2>3, JobGoes, Unwritten DEF tables, Phases
<1> QED
  BY <1>3, <1>4 DEF StepEnds

LEMMA CountStepKeeps ==
  ASSUME RunsInv, Account, NEW j \in Jobs, CountStep(j)
  PROVE  RunsInv'
<1> DEFINE r == job[j].run
<1>1. /\ job[j] \in Job /\ job[j].pc = "count" /\ Works(job[j]) /\ Named(job[j])
      /\ job[j].step \in 0..Steps /\ job[j].step < Steps /\ r \in Runs
  BY JobFacts DEF RunsInv, CountStep, Works, Named, Phases, Counting
<1>2. AccountStep
  BY AccountSteps DEF CountStep
<1>3. CASE ~Stored(r)
  BY <1>1, <1>2, <1>3, CatchNext DEF CountStep, Phases, tables
<1>4. CASE Stored(r)
  <2> DEFINE x == [job[j] EXCEPT !.step = @ + 1,
                     !.pc = IF job[j].step + 1 = Steps THEN "succeed" ELSE "step"]
             y == [run[r] EXCEPT !.completed = @ + 1]
  <2>1. /\ run[r] \in RunRow /\ run[r].status = "RESERVED" /\ run[r].completed = job[j].step
        /\ now <= run[r].at + (job[j].step + 1) * StepLimit
    BY <1>1, <1>4, RunFacts DEF RunsInv, Works, OnTime, Phases
  <2>2. job[j].step + 1 \in 0..Steps
    BY <1>1
  <2>3. /\ x \in Job /\ x.run = r /\ x.flow = job[j].flow /\ x.step = job[j].step + 1
        /\ x.pc = IF job[j].step + 1 = Steps THEN "succeed" ELSE "step"
    BY <1>1, <2>2 DEF Job
  <2>4. /\ y \in RunRow /\ y.status = "RESERVED" /\ y.completed = job[j].step + 1
        /\ y.at = run[r].at /\ y.flow = run[r].flow
    BY <2>1, <2>2 DEF RunRow
  <2>5. /\ job' = [job EXCEPT ![j] = x] /\ run' = [run EXCEPT ![r] = y]
        /\ UNCHANGED <<now, project, flow, claims, late>>
    BY <1>1, <1>4, <2>3 DEF CountStep, Does, RunsInv, WorkflowsTypeOK
  <2> HIDE DEF x, y
  <2>6. OnTime(x, y.at, now)
    BY <2>1, <2>3, <2>4 DEF OnTime
  <2>7. x.pc \in {"step", "succeed"} /\ (x.pc = "step" => x.step < Steps)
        /\ (x.pc = "succeed" => x.step = Steps)
    BY <2>2, <2>3
  <2> QED
    BY <1>1, <1>2, <1>4, <2>3, <2>4, <2>5, <2>6, <2>7, RunGoes DEF Phases
<1> QED
  BY <1>3, <1>4

\* The end of an execution whose row is there.
LEMMA EndKeeps ==
  ASSUME RunsInv, Account, NEW j \in Jobs, job[j].pc \in Phases, Stored(job[j].run),
         NEW status \in Terminal,
         status = "SUCCEEDED" => run[job[j].run].completed = Steps,
         run' = [run EXCEPT ![job[j].run].status = status],
         Turns(j, "idle"),
         UNCHANGED <<account, now, project, flow, claims, late>>
  PROVE  RunsInv'
<1> DEFINE r == job[j].run
           y == [run[r] EXCEPT !.status = status]
<1>1. r \in Runs /\ run[r] \in RunRow
  BY RunFacts DEF RunsInv, Named
<1>2. /\ y \in RunRow /\ y.status = status /\ y.completed = run[r].completed
      /\ y.at = run[r].at /\ y.flow = run[r].flow
      /\ run' = [run EXCEPT ![r] = y]
  BY <1>1 DEF RunRow, Terminal, RunsInv, WorkflowsTypeOK
<1>3. job' = [job EXCEPT ![j] = Free]
  BY DEF Turns, Does
<1> HIDE DEF y
<1>4. AccountStep
  BY AccountSteps
<1>5. y.status # "RESERVED" /\ (y.status = "SUCCEEDED" => y.completed = Steps)
  BY <1>2 DEF Terminal
<1>6. /\ Free \in Job /\ Free.pc = "idle" /\ Named(Free)
      /\ Free.pc \in {"idle", "step", "succeed"}
  BY FreeFacts
<1>7. UNCHANGED <<now, project, flow, claims, late>>
  OBVIOUS
<1>8. /\ run' = [run EXCEPT ![job[j].run] = y] /\ y \in RunRow
      /\ y.at = run[job[j].run].at /\ y.flow = run[job[j].run].flow
  BY <1>2
<1> HIDE DEF r
<1> QED
  BY <1>3, <1>4, <1>5, <1>6, <1>7, <1>8, RunGoes, Zenon

LEMMA EndsKeep ==
  ASSUME RunsInv, Account, NEW j \in Jobs, Succeed(j) \/ Catch(j)
  PROVE  RunsInv'
<1> DEFINE r == job[j].run
<1>1. /\ job[j].pc \in {"succeed", "catch"} /\ Works(job[j]) /\ Named(job[j]) /\ r \in Runs
      /\ job[j].pc \in Phases
  BY DEF RunsInv, Succeed, Catch, Works, Named, Phases
<1>2. AccountStep
  BY AccountSteps DEF Succeed, Catch
<1>3. CASE Succeed(j) /\ Stored(r)
  BY <1>1, <1>3, EndKeeps DEF Succeed, Works, Terminal
<1>4. CASE Succeed(j) /\ ~Stored(r)
  BY <1>1, <1>2, <1>4, CatchNext DEF Succeed, tables
<1>5. CASE Catch(j) /\ Stored(r)
  <2>1. PICK status \in {"CANCELLED", "FAILED"} : run' = [run EXCEPT ![r].status = status]
    BY <1>5 DEF Catch
  <2> QED
    BY <1>1, <1>5, <2>1, EndKeeps DEF Catch, Terminal
<1>6. CASE Catch(j) /\ ~Stored(r)
  <2>1. /\ job' = [job EXCEPT ![j] = Free]
        /\ UNCHANGED <<now, project, flow, run, claims, late>>
    BY <1>6 DEF Catch, Turns, Does
  <2> QED
    BY <1>1, <1>2, <1>6, <2>1, FreeFacts, JobGoes, Unwritten DEF Phases
<1> QED
  BY <1>3, <1>4, <1>5, <1>6

LEMMA LeaveKeeps ==
  ASSUME RunsInv, Account, NEW j \in Jobs, Leave(j)
  PROVE  RunsInv'
<1> DEFINE x == [job[j] EXCEPT !.closed = TRUE]
<1>1. job[j] \in Job /\ job[j].pc \in Phases /\ Named(job[j]) /\ Works(job[j])
  BY JobFacts DEF RunsInv, Leave, Executing, Phases
<1>2. /\ x \in Job /\ x.pc = job[j].pc /\ x.run = job[j].run /\ x.flow = job[j].flow
      /\ x.step = job[j].step
      /\ x.since = job[j].since
      /\ job' = [job EXCEPT ![j] = x]
  BY <1>1 DEF Job, Leave, Does, Phases
<1> HIDE DEF x
<1>3. Named(x) /\ Works(x)
  BY <1>1, <1>2 DEF Named, Works, OnTime, Phases
<1> QED
  BY <1>1, <1>2, <1>3, JobGoes, Unwritten, AccountSteps DEF Leave, tables

LEMMA FaultsKeep ==
  ASSUME RunsInv, Account, NEW j \in Jobs, Throw(j) \/ Stop(j)
  PROVE  RunsInv'
<1>1. AccountStep /\ faults' > 0
  BY AccountSteps, FaultCounts DEF Throw, Stop
<1>2. CASE Throw(j)
  BY <1>1, <1>2, CatchNext DEF Throw, Phases
<1>3. CASE Stop(j)
  <2>1. job' = [job EXCEPT ![j] = Free] /\ UNCHANGED <<now, tables, claims, late>>
    BY <1>3 DEF Stop, Turns, Does
  <2> QED
    BY <1>1, <2>1, FreeFacts, JobGoes, Unwritten DEF tables, Phases
<1> QED
  BY <1>2, <1>3

\* Time passes while every execution generates, and within its ceiling.
LEMMA PauseKeeps ==
  ASSUME RunsInv, Account, Pause
  PROVE  RunsInv'
<1>1. /\ now' = now + 1 /\ now < MaxTime /\ now \in 0..MaxTime
      /\ UNCHANGED <<account, project, flow, run, job, claims, late>>
  BY DEF Pause, tables, RunsInv, WorkflowsTypeOK
<1>2. WorkflowsTypeOK'
  BY <1>1 DEF RunsInv, WorkflowsTypeOK
<1>3. \A j \in Jobs : (Named(job[j]) /\ Works(job[j]))'
  <2> SUFFICES ASSUME NEW j \in Jobs PROVE (Named(job[j]) /\ Works(job[j]))'
    OBVIOUS
  <2>1. Named(job[j]) /\ Works(job[j])
    BY DEF RunsInv
  <2>2. ASSUME job[j].pc \in Phases
        PROVE  job[j].pc = "generate" /\ now + 1 <= job[j].since + StepLimit
    <3>1. job[j].pc = "generate" /\ now < job[j].since + StepLimit
      BY <2>2 DEF Pause, Executing, Phases
    <3> QED
      BY <1>1, <3>1, JobFacts DEF RunsInv
  <2> QED
    BY <1>1, <2>1, <2>2 DEF Named, Works, OnTime, Stored, Phases, Counting
<1>4. \A r \in Runs : (Claimed(r) /\ Tells(r))'
  BY <1>1 DEF RunsInv, Claimed, Has, Tells, Stored, account
<1>5. Alone'
  BY <1>1 DEF RunsInv, Alone, Stored
<1> QED
  BY <1>2, <1>3, <1>4, <1>5 DEF RunsInv

----------------------------------------------------------------------------
(* All steps of workflows, and what others leave alone. *)

LEMMA WorkflowsInitially == WorkflowsInit => RunsInv
<1> SUFFICES ASSUME WorkflowsInit PROVE RunsInv
  OBVIOUS
<1> USE DEF WorkflowsInit
<1>1. \A f \in Flows : flow[f] \in FlowRow \cup {NoFlow("none"), NoFlow("removed")}
  <2> SUFFICES ASSUME NEW f \in Flows
               PROVE  flow[f] \in FlowRow \cup {NoFlow("none"), NoFlow("removed")}
    OBVIOUS
  <2>1. CASE Begins[f] = "none"
    BY <2>1
  <2>2. CASE Begins[f] # "none"
    BY <2>2 DEF FlowRow
  <2> QED
    BY <2>1, <2>2
<1>2. WorkflowsTypeOK
  BY <1>1, FreeFacts DEF WorkflowsTypeOK, Gone
<1>3. \A j \in Jobs : Named(job[j]) /\ Works(job[j]) /\ job[j].pc \notin Phases
  BY FreeFacts DEF Phases
<1>4. \A r \in Runs : Claimed(r) /\ Tells(r)
  BY DEF Claimed, Has, Tells, Stored, Gone
<1>5. Alone
  BY <1>3 DEF Alone
<1> QED
  BY <1>2, <1>3, <1>4, <1>5 DEF RunsInv

LEMMA WorkflowsKeep ==
  ASSUME RunsInv, OneFlow, Account, WorkflowsNext
  PROVE  RunsInv'
<1>1. ASSUME NEW j \in Jobs, Claim(j)
      PROVE  RunsInv'
  <2>1. CASE Claimable(job[j].run, job[j].flow)
    BY <1>1, <2>1, ClaimKeeps
  <2>2. CASE ~Claimable(job[j].run, job[j].flow)
    <3>1. Turns(j, "idle") /\ UNCHANGED <<account, now, project, flow, run, claims, late>>
      BY <1>1, <2>2 DEF Claim
    <3> QED
      BY <1>1, <3>1, AsideEnds, Unwritten DEF Claim, Phases
  <2> QED
    BY <2>1, <2>2
<1>2. ASSUME NEW j \in Jobs, Execute(j)
      PROVE  RunsInv'
  BY <1>1, <1>2, RowsKeep, DropsKeep, BeginStepKeeps, StepEndsKeeps, CountStepKeeps, EndsKeep
  DEF Execute
<1>3. ASSUME NEW j \in Jobs, Leave(j) \/ Throw(j) \/ Stop(j)
      PROVE  RunsInv'
  BY <1>3, LeaveKeeps, FaultsKeep
<1> QED
  BY <1>2, <1>3, BeginsKeeps, PauseKeeps DEF WorkflowsNext

\* Request j goes on as x, with its identifier and workflow if it executes, or
\* with an identifier that no request has for another workflow.
LEMMA OneFlowGoes ==
  ASSUME WorkflowsTypeOK, OneFlow, NEW j \in Jobs, NEW x, job' = [job EXCEPT ![j] = x],
         x.pc \in {"claim"} \cup Phases =>
           \/ /\ job[j].pc \in {"claim"} \cup Phases
              /\ x.run = job[j].run /\ x.flow = job[j].flow
           \/ \A i \in Jobs : job[i].run = x.run => job[i].flow = x.flow
  PROVE  OneFlow'
<1>1. \A i \in Jobs : job'[i] = IF i = j THEN x ELSE job[i]
  BY DEF WorkflowsTypeOK
<1> QED
  BY <1>1 DEF OneFlow

LEMMA OneFlowBegins ==
  ASSUME WorkflowsTypeOK, OneFlow, NEW j \in Jobs, NEW x, Does(j, x),
         x.pc \in {"addProject", "setProject", "dropProject", "addFlow", "setFlow", "dropFlow"}
  PROVE  OneFlow'
<1>1. job' = [job EXCEPT ![j] = x]
  BY DEF Does
<1> QED
  BY <1>1, OneFlowGoes DEF Phases

\* Request j goes on with its execution.
LEMMA OneFlowStays ==
  ASSUME WorkflowsTypeOK, OneFlow, NEW j \in Jobs, NEW x, Does(j, x), x.pc # "idle",
         job[j].pc \in Phases, x.run = job[j].run, x.flow = job[j].flow
  PROVE  OneFlow'
<1>1. job' = [job EXCEPT ![j] = x]
  BY DEF Does
<1> QED
  BY <1>1, OneFlowGoes

LEMMA OneFlowTurns ==
  ASSUME WorkflowsTypeOK, OneFlow, NEW j \in Jobs,
         NEW label \in {"idle", "step", "generate", "count", "succeed", "catch"},
         Turns(j, label), label = "idle" \/ job[j].pc \in {"claim"} \cup Phases
  PROVE  OneFlow'
<1>1. job[j] \in Job
  BY JobFacts
<1>2. CASE label = "idle"
  <2>1. job' = [job EXCEPT ![j] = Free]
    BY <1>1, <1>2 DEF Turns, Does, Job
  <2> QED
    BY <2>1, FreeFacts, OneFlowGoes DEF Phases
<1>3. CASE label # "idle"
  <2> DEFINE x == [job[j] EXCEPT !.pc = label]
  <2>1. x.run = job[j].run /\ x.flow = job[j].flow /\ job' = [job EXCEPT ![j] = x]
    BY <1>1, <1>3 DEF Turns, Does, Job
  <2> HIDE DEF x
  <2> QED
    BY <1>3, <2>1, OneFlowGoes
<1> QED
  BY <1>2, <1>3

LEMMA OneFlowKeep ==
  ASSUME WorkflowsTypeOK, OneFlow, WorkflowsNext
  PROVE  OneFlow'
<1>1. ASSUME NEW j \in Jobs,
             \/ \E p \in Projects : SaveProject(j, p) \/ RemoveProject(j, p)
             \/ \E f \in Flows : RemoveFlow(j, f) \/ \E p \in Projects : SaveFlow(j, f, p)
      PROVE  OneFlow'
  <2>1. ASSUME NEW p \in Projects, SaveProject(j, p)
        PROVE  OneFlow'
    <3> DEFINE x == [Free EXCEPT !.project = p, !.tier = tier,
                     !.pc = IF project[p] = "none" THEN "addProject" ELSE "setProject"]
    <3>1. x.pc \in {"addProject", "setProject"} /\ Does(j, x)
      BY <2>1 DEF SaveProject, Free
    <3> HIDE DEF x
    <3> QED
      BY <3>1, OneFlowBegins
  <2>2. ASSUME NEW p \in Projects, RemoveProject(j, p)
        PROVE  OneFlow'
    <3> DEFINE x == [Free EXCEPT !.project = p, !.pc = "dropProject"]
    <3>1. x.pc \in {"dropProject"} /\ Does(j, x)
      BY <2>2 DEF RemoveProject, Free
    <3> HIDE DEF x
    <3> QED
      BY <3>1, OneFlowBegins
  <2>3. ASSUME NEW f \in Flows, RemoveFlow(j, f)
        PROVE  OneFlow'
    <3> DEFINE x == [Free EXCEPT !.flow = f, !.pc = "dropFlow"]
    <3>1. x.pc \in {"dropFlow"} /\ Does(j, x)
      BY <2>3 DEF RemoveFlow, Free
    <3> HIDE DEF x
    <3> QED
      BY <3>1, OneFlowBegins
  <2>4. ASSUME NEW f \in Flows, NEW p \in Projects, SaveFlow(j, f, p)
        PROVE  OneFlow'
    <3> DEFINE x == [Free EXCEPT !.project = p, !.flow = f, !.tier = tier,
                     !.pc = IF f \in FlowRows THEN "setFlow" ELSE "addFlow"]
    <3>1. x.pc \in {"addFlow", "setFlow"} /\ Does(j, x)
      BY <2>4 DEF SaveFlow, Free
    <3> HIDE DEF x
    <3> QED
      BY <3>1, OneFlowBegins
  <2> QED
    BY <1>1, <2>1, <2>2, <2>3, <2>4
<1>2. ASSUME NEW j \in Jobs, NEW r \in Runs, NEW f \in Flows, StartRun(j, r, f)
      PROVE  OneFlow'
  <2> DEFINE x == [Free EXCEPT !.run = r, !.flow = f, !.pc = "claim"]
  <2>1. x.pc = "claim" /\ x.run = r /\ x.flow = f /\ Does(j, x)
    BY <1>2 DEF StartRun, Free
  <2>2. \A i \in Jobs : job[i].run = r => job[i].flow = f
    BY <1>2 DEF StartRun, Apart
  <2> HIDE DEF x
  <2>3. job' = [job EXCEPT ![j] = x]
    BY <2>1 DEF Does
  <2> QED
    BY <2>1, <2>2, <2>3, OneFlowGoes
<1>3. ASSUME NEW j \in Jobs, BeginStep(j) \/ CountStep(j) \/ Leave(j)
      PROVE  OneFlow'
  <2>1. job[j] \in Job /\ job[j].pc \in Phases
    BY <1>3, JobFacts DEF BeginStep, CountStep, Leave, Executing, Phases
  <2>2. CASE Turns(j, "catch")
    BY <2>1, <2>2, OneFlowTurns
  <2>3. CASE BeginStep(j) /\ ~Turns(j, "catch")
    <3> DEFINE x == [job[j] EXCEPT !.pc = "generate", !.since = now]
    <3>1. x.pc = "generate" /\ x.run = job[j].run /\ x.flow = job[j].flow
      BY <2>1 DEF Job
    <3>2. Does(j, x)
      BY <2>3 DEF BeginStep
    <3> HIDE DEF x
    <3> QED
      BY <2>1, <3>1, <3>2, OneFlowStays
  <2>4. CASE CountStep(j) /\ ~Turns(j, "catch")
    <3> DEFINE x == [job[j] EXCEPT !.step = @ + 1,
                       !.pc = IF job[j].step + 1 = Steps THEN "succeed" ELSE "step"]
    <3>1. x.pc \in {"succeed", "step"} /\ x.run = job[j].run /\ x.flow = job[j].flow
      BY <2>1 DEF Job
    <3>2. Does(j, x)
      BY <2>4 DEF CountStep
    <3> HIDE DEF x
    <3> QED
      BY <2>1, <3>1, <3>2, OneFlowStays
  <2>5. CASE Leave(j)
    <3> DEFINE x == [job[j] EXCEPT !.closed = TRUE]
    <3>1. x.pc = job[j].pc /\ x.run = job[j].run /\ x.flow = job[j].flow
      BY <2>1 DEF Job
    <3>2. Does(j, x)
      BY <2>5 DEF Leave
    <3>3. job[j].pc # "idle"
      BY <2>1 DEF Phases
    <3> HIDE DEF x
    <3> QED
      BY <2>1, <3>1, <3>2, <3>3, OneFlowStays
  <2> QED
    BY <1>3, <2>2, <2>3, <2>4, <2>5
<1>4. ASSUME NEW j \in Jobs,
             \/ AddProject(j) \/ SetProject(j) \/ DropProject(j)
             \/ AddFlow(j) \/ SetFlow(j) \/ DropFlow(j)
             \/ Claim(j) \/ StepEnds(j) \/ Succeed(j) \/ Catch(j) \/ Throw(j) \/ Stop(j)
      PROVE  OneFlow'
  <2>1. \/ Turns(j, "idle")
        \/ /\ job[j].pc \in {"claim"} \cup Phases
           /\ \E label \in {"step", "count", "catch"} : Turns(j, label)
    BY <1>4 DEF AddProject, SetProject, DropProject, AddFlow, SetFlow, DropFlow, Claim, StepEnds,
                Succeed, Catch, Throw, Stop, Phases
  <2> QED
    BY <2>1, OneFlowTurns
<1>5. CASE Pause
  BY <1>5 DEF Pause, OneFlow
<1> QED
  BY <1>1, <1>2, <1>3, <1>4, <1>5 DEF WorkflowsNext, Execute

LEMMA OneFlowInitially == WorkflowsInit => OneFlow
BY FreeFacts DEF WorkflowsInit, OneFlow, Phases

LEMMA OneFlowLeft == OneFlow /\ UNCHANGED workflows => OneFlow'
BY DEF OneFlow, workflows

LEMMA OthersKeep ==
  ASSUME RunsInv, AccountStep, UNCHANGED workflows
  PROVE  RunsInv'
<1> USE DEF workflows, tables
<1>1. WorkflowsTypeOK'
  BY DEF RunsInv, WorkflowsTypeOK
<1>2. \A j \in Jobs : (Named(job[j]) /\ Works(job[j]))'
  BY DEF RunsInv, Named, Works, Stored, OnTime
<1>3. \A r \in Runs : Claimed(r)'
  BY DEF RunsInv, Claimed, Has, Stored
<1>4. \A r \in Runs : Tells(r)'
  BY DEF RunsInv, Tells, AccountStep
<1>5. Alone'
  BY DEF RunsInv, Alone, Stored
<1> QED
  BY <1>1, <1>2, <1>3, <1>4, <1>5 DEF RunsInv

\* A run that has ended is written no more.
Finished ==
  \A r \in Runs : run[r].status \in Terminal => run'[r] \in {run[r], Gone}

LEMMA FinishedKept ==
  ASSUME RunsInv, WorkflowsNext
  PROVE  Finished
<1> SUFFICES ASSUME NEW r \in Runs, run[r].status \in Terminal
             PROVE  run'[r] \in {run[r], Gone}
  BY DEF Finished
<1>1. run[r].status # "RESERVED" /\ run[r].status # "gone" /\ ~Old(r)
  BY DEF Terminal, Old
<1>2. \A j \in Jobs : job[j].pc \in Phases => job[j].run # r
  <2> SUFFICES ASSUME NEW j \in Jobs, job[j].pc \in Phases, job[j].run = r PROVE FALSE
    OBVIOUS
  <2> QED
    BY <1>1 DEF RunsInv, Works, Stored
<1>3. ASSUME NEW j \in Jobs, Claim(j)
      PROVE  run'[r] = run[r]
  <2>1. Claimable(job[j].run, job[j].flow) => job[j].run # r
    BY <1>1 DEF Claimable, Repeated, Stored
  <2> QED
    BY <1>1, <1>3, <2>1 DEF Claim, Swept, RunsInv, WorkflowsTypeOK
<1>4. ASSUME NEW j \in Jobs, CountStep(j) \/ Succeed(j) \/ Catch(j)
      PROVE  run'[r] = run[r]
  BY <1>2, <1>4 DEF CountStep, Succeed, Catch, Phases, RunsInv, WorkflowsTypeOK
<1>5. ASSUME NEW j \in Jobs, DropProject(j) \/ DropFlow(j)
      PROVE  run'[r] \in {run[r], Gone}
  BY <1>5 DEF DropProject, DropFlow, WithoutFlows, tables
<1>6. ASSUME NEW j \in Jobs,
             \/ AddProject(j) \/ SetProject(j) \/ AddFlow(j) \/ SetFlow(j)
             \/ BeginStep(j) \/ StepEnds(j) \/ Leave(j) \/ Throw(j) \/ Stop(j)
      PROVE  run' = run
  BY <1>6 DEF AddProject, SetProject, AddFlow, SetFlow, BeginStep, StepEnds, Leave, Throw,
              Stop, tables
<1>7. ASSUME NEW j \in Jobs,
             \/ \E p \in Projects : SaveProject(j, p) \/ RemoveProject(j, p)
             \/ \E f \in Flows : RemoveFlow(j, f) \/ \E p \in Projects : SaveFlow(j, f, p)
             \/ \E q \in Runs, f \in Flows : StartRun(j, q, f)
      PROVE  run' = run
  BY <1>7 DEF SaveProject, RemoveProject, RemoveFlow, SaveFlow, StartRun, tables
<1>8. Pause => run' = run
  BY DEF Pause, tables
<1> QED
  BY <1>3, <1>4, <1>5, <1>6, <1>7, <1>8 DEF WorkflowsNext, Execute

LEMMA RunsInvImplies ==
  ASSUME RunsInv
  PROVE  RunsCostOnce /\ RunsTell
<1>1. RunOnce /\ DeletedRunStops
  BY DEF RunsInv, Claimed, RunOnce, DeletedRunStops
<1>2. \A j \in Jobs : Executing(j) <=> job[j].pc \in Phases
  BY DEF Executing, Phases
<1>3. LiveRunsKeepClaim
  <2> SUFFICES ASSUME NEW j \in Jobs, Executing(j), Stored(job[j].run)
               PROVE  /\ run[job[j].run].status = "RESERVED"
                      /\ \A i \in Jobs \ {j} : Executing(i) => ~Stored(job[i].run)
    BY DEF LiveRunsKeepClaim
  <2>1. run[job[j].run].status = "RESERVED"
    BY <1>2, NotOld
  <2>2. \A i \in Jobs \ {j} : Executing(i) => ~Stored(job[i].run)
    BY <1>2 DEF RunsInv, Alone
  <2> QED
    BY <2>1, <2>2
<1>4. RunsTell
  BY <1>2, <1>3 DEF RunsTell, RunsInv, Tells
<1> QED
  BY <1>1, <1>4 DEF RunsCostOnce

----------------------------------------------------------------------------
(* Files.  A request that stores a file has it for itself: no other stores *)
(* it, removes it or has listed it.                                        *)

Storing   == {"policies", "write", "insert", "unwrite"}
Removing  == {"row", "unlink"}
Answering == {"insert", "unwrite", "unlink"}   \* for bytes without a row

Holds(x) ==
  /\ x.pc \in Storing => x.file \in used \ attachments
  /\ x.pc = "insert" => x.file \in disk
  /\ x.pc \in Removing => x.file \in used
  /\ x.pc = "unlink" => x.file \notin attachments
  /\ x.left \subseteq used
  /\ x.pc \in {"list", "next", "drop"} => x.conversation \in Conversations

\* The request x stores a file that y has nothing to do with.
KeptFrom(x, y) ==
  x.pc \in Storing =>
    /\ y.pc \in Storing \cup Removing => y.file # x.file
    /\ x.file \notin y.left

Explained(f) ==
  \/ \E t \in Transfers : transfer[t].pc \in Answering /\ transfer[t].file = f
  \/ faults > 0
  \/ Home[f] \notin conversations

FilesInv ==
  /\ FilesTypeOK
  /\ attachments \subseteq used
  /\ RowsHaveFiles
  /\ \A t \in Transfers : Holds(transfer[t])
  /\ \A t, s \in Transfers : t # s => KeptFrom(transfer[t], transfer[s])
  /\ \A f \in disk \ attachments : Explained(f)

LEMMA QuietFacts == Quiet \in Transfer /\ Quiet.pc = "idle" /\ Quiet.left = {}
<1>1. Quiet \in Transfer
  BY DEF Quiet, Transfer
<1> QED
  BY <1>1 DEF Quiet

LEMMA FilesInitially == FilesInit => FilesInv
<1> SUFFICES ASSUME FilesInit PROVE FilesInv
  OBVIOUS
<1>1. FilesTypeOK
  BY QuietFacts DEF FilesInit, FilesTypeOK
<1>2. \A t \in Transfers : transfer[t].pc = "idle" /\ transfer[t].left = {}
  BY QuietFacts DEF FilesInit
<1> QED
  BY <1>1, <1>2 DEF FilesInit, FilesInv, RowsHaveFiles, Holds, KeptFrom, Storing, Removing

LEMMA TransferFacts ==
  ASSUME FilesInv, NEW t \in Transfers
  PROVE  /\ transfer[t] \in Transfer /\ Holds(transfer[t])
         /\ transfer[t].file \in FileIds \cup {"none"}
         /\ transfer[t].tier \in Tiers \cup {"none"}
         /\ transfer[t].conversation \in Conversations \cup {"none"}
         /\ transfer[t].left \in SUBSET FileIds
  BY DEF FilesInv, FilesTypeOK, Transfer

\* What the request t may do: go on as x, with files that are its own or that
\* have rows, write and remove no bytes but its own, and leave none behind.
LEMMA TransferGoes ==
  ASSUME FilesInv, AccountStep,
         NEW t \in Transfers, NEW x \in Transfer, transfer' = [transfer EXCEPT ![t] = x],
         Holds(x)',
         used \subseteq used', used' \subseteq FileIds, disk' \subseteq used',
         attachments' \subseteq used', attachments' \subseteq disk',
         conversations' \subseteq conversations,
         \A f \in attachments' : Home[f] \in conversations',
         x.pc \in Storing => \/ x.file \notin used
                             \/ transfer[t].pc \in Storing /\ x.file = transfer[t].file,
         x.pc \in Removing =>
           \/ x.file \in attachments \cup transfer[t].left
           \/ transfer[t].pc \in Removing /\ x.file = transfer[t].file,
         x.left \subseteq transfer[t].left \cup attachments,
         \A f \in attachments' \ attachments :
           transfer[t].pc = "insert" /\ transfer[t].file = f,
         \A f \in disk \ disk' :
           transfer[t].pc \in {"unwrite", "unlink"} /\ transfer[t].file = f,
         \A f \in disk' \ attachments' :
           \/ x.pc \in Answering /\ x.file = f
           \/ faults' > 0
           \/ Home[f] \notin conversations'
           \/ /\ f \in disk \ attachments
              /\ ~(transfer[t].pc \in Answering /\ transfer[t].file = f)
  PROVE  FilesInv'
<1> USE DEF FilesInv
<1>1. \A s \in Transfers : transfer'[s] = IF s = t THEN x ELSE transfer[s]
  BY DEF FilesTypeOK
<1>2. FilesTypeOK'
  BY DEF FilesTypeOK
<1>3. RowsHaveFiles'
  BY DEF RowsHaveFiles
<1>4. \A s \in Transfers : Holds(transfer[s])'
  <2> SUFFICES ASSUME NEW s \in Transfers, s # t PROVE Holds(transfer[s])'
    BY <1>1 DEF Holds
  <2>1. transfer'[s] = transfer[s] /\ Holds(transfer[s]) /\ KeptFrom(transfer[s], transfer[t])
        /\ KeptFrom(transfer[t], transfer[s])
    BY <1>1
  <2> QED
    BY <2>1 DEF Holds, KeptFrom, Storing, Removing
<1>5. \A r, s \in Transfers : r # s => KeptFrom(transfer[r], transfer[s])'
  <2> SUFFICES ASSUME NEW r \in Transfers, NEW s \in Transfers, r # s
               PROVE  KeptFrom(transfer[r], transfer[s])'
    OBVIOUS
  <2>1. /\ KeptFrom(transfer[r], transfer[s]) /\ Holds(transfer[r]) /\ Holds(transfer[s])
    OBVIOUS
  <2>2. CASE r = t
    BY <1>1, <2>1, <2>2 DEF KeptFrom, Holds, Storing, Removing
  <2>3. CASE s = t
    BY <1>1, <2>1, <2>3 DEF KeptFrom, Holds, Storing, Removing
  <2>4. CASE r # t /\ s # t
    BY <1>1, <2>1, <2>4 DEF KeptFrom
  <2> QED
    BY <2>2, <2>3, <2>4
<1>6. \A f \in disk' \ attachments' : Explained(f)'
  <2> SUFFICES ASSUME NEW f \in disk' \ attachments' PROVE Explained(f)'
    OBVIOUS
  <2>1. CASE x.pc \in Answering /\ x.file = f
    BY <1>1, <2>1 DEF Explained
  <2>2. CASE faults' > 0 \/ Home[f] \notin conversations'
    BY <2>2 DEF Explained
  <2>3. CASE /\ f \in disk \ attachments
             /\ ~(transfer[t].pc \in Answering /\ transfer[t].file = f)
    <3>1. Explained(f)
      BY <2>3
    <3> QED
      BY <1>1, <2>3, <3>1 DEF Explained, AccountStep
  <2> QED
    BY <2>1, <2>2, <2>3
<1> QED
  BY <1>2, <1>3, <1>4, <1>5, <1>6


\* What it may do when no row and no bytes change.
LEMMA TransferMoves ==
  ASSUME FilesInv, AccountStep, UNCHANGED storage, used \subseteq used', used' \subseteq FileIds,
         NEW t \in Transfers, NEW x \in Transfer, transfer' = [transfer EXCEPT ![t] = x],
         Holds(x)',
         x.pc \in Storing => \/ x.file \notin used
                             \/ transfer[t].pc \in Storing /\ x.file = transfer[t].file,
         x.pc \in Removing =>
           \/ x.file \in attachments \cup transfer[t].left
           \/ transfer[t].pc \in Removing /\ x.file = transfer[t].file,
         x.left \subseteq transfer[t].left \cup attachments,
         \/ transfer[t].pc \notin Answering
         \/ x.pc \in Answering /\ x.file = transfer[t].file
         \/ faults' > 0
  PROVE  FilesInv'
<1> USE DEF FilesInv, storage
<1>1. /\ disk' \subseteq used' /\ attachments' \subseteq used' /\ attachments' \subseteq disk'
      /\ conversations' \subseteq conversations
      /\ \A f \in attachments' : Home[f] \in conversations'
  BY DEF FilesTypeOK, RowsHaveFiles
<1>2. attachments' = attachments /\ disk' = disk
  OBVIOUS
<1>3. \A f \in disk' \ attachments' :
        \/ x.pc \in Answering /\ x.file = f
        \/ faults' > 0
        \/ Home[f] \notin conversations'
        \/ /\ f \in disk \ attachments
           /\ ~(transfer[t].pc \in Answering /\ transfer[t].file = f)
  OBVIOUS
<1> HIDE DEF FilesInv, storage
<1> QED
  BY <1>1, <1>2, <1>3, TransferGoes

\* Requests that begin, with a file nobody has, one of a row, or none.
LEMMA FilesBegin ==
  ASSUME FilesInv, Account, NEW t \in Transfers,
         \/ \E f \in FileIds : Upload(t, f) \/ Remove(t, f)
         \/ \E c \in Conversations : DeleteConversation(t, c)
  PROVE  FilesInv'
<1> USE DEF FilesInv, storage
<1>1. AccountStep
  BY AccountSteps DEF Upload, Remove, DeleteConversation
<1>2. transfer[t] = Quiet /\ transfer[t].pc = "idle" /\ UNCHANGED storage
  BY QuietFacts DEF Upload, Remove, DeleteConversation
<1>3. ASSUME NEW f \in FileIds, Upload(t, f)
      PROVE  FilesInv'
  <2>x. PICK x \in Transfer : x = [Quiet EXCEPT !.pc = "policies", !.file = f]
    BY DEF Quiet, Transfer
  <2>1. x.pc = "policies" /\ x.file = f /\ x.left = {}
    BY <2>x DEF Quiet
  <2>2. transfer' = [transfer EXCEPT ![t] = x]
    BY <1>3, <2>x, <2>1 DEF Upload, Moves
  <2>3. /\ used \subseteq used' /\ used' \subseteq FileIds /\ f \in used' \ attachments'
        /\ f \notin used
    BY <1>2, <1>3 DEF Upload, FilesTypeOK
  <2>4. Holds(x)'
    BY <2>1, <2>3 DEF Holds, Storing, Removing
  <2> QED
    <3>1. x.pc \in Removing => FALSE
      BY <2>1 DEF Removing
    <3>2. transfer[t].pc \notin Answering
      BY <1>2 DEF Answering
    <3>3. x.file \notin used /\ x.left \subseteq transfer[t].left \cup attachments
      BY <2>1, <2>3
    <3> HIDE DEF FilesInv, storage
    <3> QED
      BY <1>1, <1>2, <2>2, <2>3, <2>4, <3>1, <3>2, <3>3, TransferMoves
<1>4. ASSUME NEW f \in FileIds, Remove(t, f)
      PROVE  FilesInv'
  <2> DEFINE x == [Quiet EXCEPT !.pc = "row", !.file = f]
  <2>1. /\ x \in Transfer /\ x.pc = "row" /\ x.file = f /\ x.left = {}
    BY DEF Quiet, Transfer
  <2>2. transfer' = [transfer EXCEPT ![t] = x]
    BY <1>4, <2>1 DEF Remove, Moves
  <2> HIDE DEF x
  <2>3. used' = used /\ used \subseteq FileIds /\ f \in used /\ f \in attachments
    BY <1>4 DEF Remove, FilesTypeOK
  <2>4. Holds(x)'
    BY <2>1, <2>3 DEF Holds, Storing, Removing
  <2> QED
    BY <1>1, <1>2, <2>1, <2>2, <2>3, <2>4, TransferMoves DEF Storing, Answering
<1>5. ASSUME NEW c \in Conversations, DeleteConversation(t, c)
      PROVE  FilesInv'
  <2> DEFINE x == [Quiet EXCEPT !.pc = "list", !.conversation = c]
  <2>1. /\ x \in Transfer /\ x.pc = "list" /\ x.conversation = c /\ x.left = {}
    BY DEF Quiet, Transfer
  <2>2. transfer' = [transfer EXCEPT ![t] = x]
    BY <1>5, <2>1 DEF DeleteConversation, Moves
  <2> HIDE DEF x
  <2>3. used' = used /\ used \subseteq FileIds
    BY <1>5 DEF DeleteConversation, FilesTypeOK
  <2>4. Holds(x)'
    BY <2>1 DEF Holds, Storing, Removing
  <2> QED
    BY <1>1, <1>2, <2>1, <2>2, <2>3, <2>4, TransferMoves DEF Storing, Removing, Answering
<1> QED
  BY <1>3, <1>4, <1>5

\* Requests that go on without a row or bytes, or are cut off.
LEMMA FilesWait ==
  ASSUME FilesInv, Account, NEW t \in Transfers,
         ReadPolicies(t) \/ List(t) \/ NextFile(t) \/ CutOff(t)
  PROVE  FilesInv'
<1> USE DEF storage
<1> DEFINE y == transfer[t]
<1>0. /\ y \in Transfer /\ Holds(y) /\ used \subseteq FileIds /\ used' = used
      /\ UNCHANGED storage /\ Quiet \in Transfer /\ Quiet.pc = "idle" /\ Quiet.left = {}
  BY TransferFacts, QuietFacts
  DEF ReadPolicies, List, NextFile, CutOff, FilesInv, FilesTypeOK
<1>1. AccountStep
  BY AccountSteps DEF ReadPolicies, List, NextFile, CutOff
<1>2. Holds(Quiet)'
  BY QuietFacts DEF Holds, Storing, Removing
<1>3. ASSUME transfer' = [transfer EXCEPT ![t] = Quiet], y.pc \notin Answering \/ faults' > 0
      PROVE  FilesInv'
  BY <1>0, <1>1, <1>2, <1>3, TransferMoves DEF Storing, Removing
<1>4. CASE ReadPolicies(t)
  <2>1. CASE Allows[tier].files = 0
    <3>1. transfer' = [transfer EXCEPT ![t] = Quiet] /\ y.pc = "policies"
      BY <1>0, <1>4, <2>1 DEF ReadPolicies, Goes, Moves, Transfer
    <3> QED
      BY <3>1, <1>3 DEF Answering
  <2>2. CASE Allows[tier].files # 0
    <3>1. tier \in Tiers
      BY DEF Account, MembershipTypeOK
    <3>x. PICK x \in Transfer : x = [y EXCEPT !.pc = "write", !.tier = tier]
      BY <1>0, <3>1 DEF Transfer
    <3>2. /\ x.pc = "write" /\ x.file = y.file /\ x.left = y.left
          /\ y.pc = "policies"
      BY <1>0, <1>4, <3>x DEF Transfer, ReadPolicies
    <3>3. transfer' = [transfer EXCEPT ![t] = x]
      BY <1>4, <2>2, <3>x, <3>2 DEF ReadPolicies, Moves
    <3>4. Holds(x)'
      BY <1>0, <3>2 DEF Holds, Storing, Removing
    <3> QED
      BY <1>0, <1>1, <3>2, <3>3, <3>4, TransferMoves DEF Storing, Removing, Answering
  <2> QED
    BY <2>1, <2>2
<1>5. CASE List(t)
  <2>1. In(y.conversation) \subseteq attachments /\ attachments \subseteq used
    BY DEF In, FilesInv
  <2>x. PICK x \in Transfer : x = [y EXCEPT !.pc = "next", !.left = In(y.conversation)]
    BY <1>0, <2>1 DEF Transfer
  <2>2. /\ x.pc = "next" /\ x.left = In(y.conversation)
        /\ x.conversation = y.conversation /\ y.pc = "list"
    BY <1>0, <1>5, <2>x DEF Transfer, List
  <2>3. transfer' = [transfer EXCEPT ![t] = x]
    BY <1>5, <2>x, <2>2 DEF List, Moves
  <2>4. Holds(x)'
    BY <1>0, <2>1, <2>2 DEF Holds, Storing, Removing
  <2> QED
    BY <1>0, <1>1, <2>1, <2>2, <2>3, <2>4, TransferMoves DEF Storing, Removing, Answering
<1>6. CASE NextFile(t)
  <2>0. y.pc = "next" /\ y.left \subseteq used /\ y.conversation \in Conversations
    BY <1>0, <1>6 DEF NextFile, Holds
  <2>1. CASE Goes(t, "drop")
    <3>x. PICK x \in Transfer : x = [y EXCEPT !.pc = "drop"]
      BY <1>0 DEF Transfer
    <3>1. /\ x.pc = "drop" /\ x.left = y.left
          /\ x.conversation = y.conversation
      BY <1>0, <3>x DEF Transfer
    <3>2. transfer' = [transfer EXCEPT ![t] = x]
      BY <2>1, <3>x, <3>1 DEF Goes, Moves
    <3>3. Holds(x)'
      BY <1>0, <2>0, <3>1 DEF Holds, Storing, Removing
    <3> QED
      BY <1>0, <1>1, <2>0, <3>1, <3>2, <3>3, TransferMoves DEF Storing, Removing, Answering
  <2>2. ASSUME NEW f \in y.left,
               Moves(t, [y EXCEPT !.pc = IF f \in attachments THEN "row" ELSE "idle",
                                  !.file = f, !.left = @ \ {f}])
        PROVE  FilesInv'
    <3>1. CASE f \notin attachments
      <4>1. transfer' = [transfer EXCEPT ![t] = Quiet]
        BY <1>0, <2>2, <3>1 DEF Moves, Transfer
      <4> QED
        BY <4>1, <1>3, <2>0 DEF Answering
    <3>2. CASE f \in attachments
      <4>x. PICK x \in Transfer : x = [y EXCEPT !.pc = "row", !.file = f, !.left = @ \ {f}]
        BY <1>0, <2>0, <2>2 DEF Transfer
      <4>1. /\ x.pc = "row" /\ x.file = f /\ x.left = y.left \ {f}
            /\ x.conversation = y.conversation
        BY <1>0, <2>0, <2>2, <4>x DEF Transfer
      <4>2. transfer' = [transfer EXCEPT ![t] = x]
        BY <2>2, <3>2, <4>x, <4>1 DEF Moves
      <4>3. Holds(x)'
        BY <1>0, <2>0, <4>1 DEF Holds, Storing, Removing
      <4> QED
        BY <1>0, <1>1, <2>0, <3>2, <4>1, <4>2, <4>3, TransferMoves DEF Storing, Answering
    <3> QED
      BY <3>1, <3>2
  <2> QED
    BY <1>6, <2>1, <2>2 DEF NextFile
<1>7. CASE CutOff(t)
  <2>1. transfer' = [transfer EXCEPT ![t] = Quiet]
    BY <1>0, <1>7 DEF CutOff, Moves
  <2> QED
    BY <2>1, <1>3, <1>7, FaultCounts DEF CutOff
<1> QED
  BY <1>4, <1>5, <1>6, <1>7


\* The bytes of an upload come before its row and go when it is refused.
LEMMA UploadKeeps ==
  ASSUME FilesInv, Account, NEW t \in Transfers,
         Write(t) \/ Insert(t) \/ Unwrite(t)
  PROVE  FilesInv'
<1> DEFINE y == transfer[t]
<1>1. AccountStep /\ UNCHANGED <<account, conversations, used>>
  BY AccountSteps DEF Write, Insert, Unwrite
<1>2. /\ y \in Transfer /\ Holds(y) /\ y.file \in used \ attachments
      /\ y.pc \in {"write", "insert", "unwrite"} /\ y.left \subseteq used
  BY TransferFacts DEF Write, Insert, Unwrite, Holds, Storing
<1>3. /\ disk \subseteq used /\ attachments \subseteq disk /\ used \subseteq FileIds
      /\ \A f \in attachments : Home[f] \in conversations
  BY DEF FilesInv, FilesTypeOK, RowsHaveFiles
<1>4. Quiet \in Transfer /\ Quiet.pc = "idle" /\ Quiet.left = {} /\ Holds(Quiet)'
  BY QuietFacts DEF Holds, Storing, Removing
<1>5. CASE Write(t)
  <2>x. PICK x \in Transfer : x = [y EXCEPT !.pc = "insert"]
    BY <1>2 DEF Transfer
  <2>1. x.pc = "insert" /\ x.file = y.file /\ x.left = y.left /\ y.pc = "write"
    BY <1>2, <1>5, <2>x DEF Transfer, Write
  <2>2. /\ transfer' = [transfer EXCEPT ![t] = x]
        /\ disk' = disk \cup {y.file} /\ attachments' = attachments
    BY <1>5, <2>x, <2>1 DEF Write, Goes, Moves
  <2>3. Holds(x)'
    BY <1>1, <1>2, <2>1, <2>2 DEF Holds, Storing, Removing
  <2> QED
    BY <1>1, <1>2, <1>3, <2>1, <2>2, <2>3, TransferGoes DEF Storing, Removing, Answering
<1>6. CASE Insert(t)
  <2>0. y.pc = "insert" /\ y.file \in disk
    BY <1>2, <1>6 DEF Insert, Holds
  <2>1. CASE Fits(y.file, y.tier) /\ Home[y.file] \in conversations
    <3>1. /\ transfer' = [transfer EXCEPT ![t] = Quiet]
          /\ attachments' = attachments \cup {y.file} /\ disk' = disk
      BY <1>2, <1>4, <1>6, <2>1 DEF Insert, Goes, Moves, Transfer
    <3>2. /\ \A f \in attachments' : Home[f] \in conversations'
          /\ attachments' \subseteq disk' /\ attachments' \subseteq used'
      BY <1>1, <1>3, <2>0, <2>1, <3>1
    <3> QED
      BY <1>1, <1>3, <1>4, <2>0, <3>1, <3>2, TransferGoes DEF Storing, Removing
  <2>2. CASE ~(Fits(y.file, y.tier) /\ Home[y.file] \in conversations)
    <3>x. PICK x \in Transfer : x = [y EXCEPT !.pc = "unwrite"]
      BY <1>2 DEF Transfer
    <3>1. x.pc = "unwrite" /\ x.file = y.file /\ x.left = y.left
      BY <1>2, <3>x DEF Transfer
    <3>2. transfer' = [transfer EXCEPT ![t] = x] /\ UNCHANGED storage
      BY <1>1, <1>6, <2>2, <3>x, <3>1 DEF Insert, Goes, Moves, storage
    <3>3. Holds(x)'
      BY <1>1, <1>2, <3>1, <3>2 DEF Holds, Storing, Removing, storage
    <3> QED
      BY <1>1, <1>3, <2>0, <3>1, <3>2, <3>3, TransferMoves DEF Storing, Removing, Answering
  <2> QED
    BY <2>1, <2>2
<1>7. CASE Unwrite(t)
  <2>1. /\ transfer' = [transfer EXCEPT ![t] = Quiet] /\ y.pc = "unwrite"
        /\ disk' = disk \ {y.file} /\ attachments' = attachments
    BY <1>2, <1>4, <1>7 DEF Unwrite, Goes, Moves, Transfer
  <2>2. attachments' \subseteq disk'
    BY <1>2, <1>3, <2>1
  <2> QED
    BY <1>1, <1>3, <1>4, <2>1, <2>2, TransferGoes DEF Storing, Removing
<1> QED
  BY <1>5, <1>6, <1>7

\* A row goes before its bytes, and a conversation with the rows it has.
LEMMA RemovalKeeps ==
  ASSUME FilesInv, Account, NEW t \in Transfers,
         DeleteRow(t) \/ Unlink(t) \/ Drop(t)
  PROVE  FilesInv'
<1> DEFINE y == transfer[t]
<1>1. AccountStep /\ UNCHANGED <<account, used>>
  BY AccountSteps DEF DeleteRow, Unlink, Drop
<1>2. /\ y \in Transfer /\ Holds(y) /\ y.left \subseteq used
      /\ y.pc \in {"row", "unlink", "drop"}
  BY TransferFacts DEF DeleteRow, Unlink, Drop, Holds
<1>3. /\ disk \subseteq used /\ attachments \subseteq disk /\ used \subseteq FileIds
      /\ conversations \subseteq Conversations
      /\ \A f \in attachments : Home[f] \in conversations
  BY DEF FilesInv, FilesTypeOK, RowsHaveFiles
<1>4. Quiet \in Transfer /\ Quiet.pc = "idle" /\ Quiet.left = {} /\ Holds(Quiet)'
  BY QuietFacts DEF Holds, Storing, Removing
<1>5. CASE DeleteRow(t)
  <2>0. /\ y.pc = "row" /\ y.file \in used /\ UNCHANGED <<disk, conversations>>
        /\ attachments' = attachments \ {y.file}
    BY <1>2, <1>5 DEF DeleteRow, Holds, Removing
  <2>1. CASE y.file \in attachments
    <3>x. PICK x \in Transfer : x = [y EXCEPT !.pc = "unlink"]
      BY <1>2 DEF Transfer
    <3>1. x.pc = "unlink" /\ x.file = y.file /\ x.left = y.left
      BY <1>2, <3>x DEF Transfer
    <3>2. transfer' = [transfer EXCEPT ![t] = x]
      BY <1>5, <2>1, <3>x, <3>1 DEF DeleteRow, Goes, Moves
    <3>3. Holds(x)'
      BY <1>1, <1>2, <2>0, <3>1 DEF Holds, Storing, Removing
    <3> QED
      BY <1>1, <1>2, <1>3, <2>0, <3>1, <3>2, <3>3, TransferGoes
      DEF Storing, Removing, Answering
  <2>2. CASE y.file \notin attachments
    <3>1. transfer' = [transfer EXCEPT ![t] = Quiet] /\ UNCHANGED storage
      BY <1>4, <1>5, <2>0, <2>2 DEF DeleteRow, Goes, Moves, storage, Transfer
    <3> QED
      BY <1>1, <1>3, <1>4, <2>0, <3>1, TransferMoves DEF Storing, Removing, Answering
  <2> QED
    BY <2>1, <2>2
<1>6. CASE Unlink(t)
  <2>0. /\ y.pc = "unlink" /\ y.file \notin attachments /\ disk' = disk \ {y.file}
        /\ UNCHANGED <<attachments, conversations>>
    BY <1>2, <1>6 DEF Unlink, Holds
  <2>1. CASE y.conversation = "none"
    <3>1. transfer' = [transfer EXCEPT ![t] = Quiet]
      BY <1>2, <1>4, <1>6, <2>1 DEF Unlink, Goes, Moves, Transfer
    <3> QED
      BY <1>1, <1>3, <1>4, <2>0, <3>1, TransferGoes DEF Storing, Removing
  <2>2. CASE y.conversation # "none"
    <3>x. PICK x \in Transfer : x = [y EXCEPT !.pc = "next"]
      BY <1>2 DEF Transfer
    <3>1. x.pc = "next" /\ x.left = y.left /\ x.conversation \in Conversations
      BY <1>2, <2>2, <3>x DEF Transfer
    <3>2. transfer' = [transfer EXCEPT ![t] = x]
      BY <1>6, <2>2, <3>x, <3>1 DEF Unlink, Goes, Moves
    <3>3. Holds(x)'
      BY <1>1, <1>2, <3>1 DEF Holds, Storing, Removing
    <3> QED
      BY <1>1, <1>2, <1>3, <2>0, <3>1, <3>2, <3>3, TransferGoes
      DEF Storing, Removing, Answering
  <2> QED
    BY <2>1, <2>2
<1>7. CASE Drop(t)
  <2>1. /\ transfer' = [transfer EXCEPT ![t] = Quiet] /\ y.pc = "drop"
        /\ conversations' = conversations \ {y.conversation}
        /\ attachments' = attachments \ In(y.conversation) /\ disk' = disk
    BY <1>2, <1>4, <1>7 DEF Drop, Goes, Moves, Transfer
  <2>2. \A f \in attachments' : Home[f] \in conversations'
    BY <1>3, <2>1 DEF In
  <2>3. \A f \in attachments \ attachments' : Home[f] \notin conversations'
    BY <2>1 DEF In
  <2> QED
    BY <1>1, <1>3, <1>4, <2>1, <2>2, <2>3, TransferGoes DEF Storing, Removing, Answering
<1> QED
  BY <1>5, <1>6, <1>7

LEMMA FilesKeep ==
  ASSUME FilesInv, Account, FilesNext
  PROVE  FilesInv'
BY FilesBegin, FilesWait, UploadKeeps, RemovalKeeps DEF FilesNext

LEMMA FilesLeft ==
  ASSUME FilesInv, AccountStep, UNCHANGED files
  PROVE  FilesInv'
BY DEF FilesInv, FilesTypeOK, RowsHaveFiles, Holds, KeptFrom, Explained, AccountStep, files,
       storage

LEMMA FilesInvImplies ==
  ASSUME FilesInv
  PROVE  FilesMatchRows
BY DEF FilesInv, FilesMatchRows, OrphansExplained, Explained


----------------------------------------------------------------------------
(* The services together. *)

\* Whatever a service does, its effect on the account is one of three.
LEMMA FilesSteps == FilesNext => Send \/ Fault \/ UNCHANGED account
BY DEF FilesNext, Upload, Remove, DeleteConversation, ReadPolicies, Write, Insert, Unwrite,
       DeleteRow, Unlink, List, NextFile, Drop, CutOff

LEMMA WorkflowsSteps == WorkflowsNext => Send \/ Fault \/ UNCHANGED account
<1> SUFFICES ASSUME WorkflowsNext PROVE Send \/ Fault \/ UNCHANGED account
  OBVIOUS
<1>1. ASSUME NEW j \in Jobs, Execute(j)
      PROVE  UNCHANGED account
  BY <1>1 DEF Execute, AddProject, SetProject, DropProject, AddFlow, SetFlow, DropFlow, Claim,
              BeginStep, StepEnds, CountStep, Succeed, Catch
<1>2. ASSUME NEW j \in Jobs,
             \/ \E p \in Projects : SaveProject(j, p) \/ RemoveProject(j, p)
             \/ \E f \in Flows : RemoveFlow(j, f) \/ \E p \in Projects : SaveFlow(j, f, p)
             \/ \E r \in Runs, f \in Flows : StartRun(j, r, f)
      PROVE  Send
  BY <1>2 DEF SaveProject, RemoveProject, RemoveFlow, SaveFlow, StartRun
<1>3. ASSUME NEW j \in Jobs, Leave(j) \/ Throw(j) \/ Stop(j)
      PROVE  Fault \/ UNCHANGED account
  BY <1>3 DEF Leave, Throw, Stop
<1> QED
  BY <1>1, <1>2, <1>3 DEF WorkflowsNext, Pause

LEMMA ChatSteps == ChatNext => Send \/ Fault \/ UNCHANGED account
<1> SUFFICES ASSUME ChatNext PROVE Send \/ Fault \/ UNCHANGED account
  OBVIOUS
<1>1. ASSUME NEW m \in Messages, Sending(m)
      PROVE  Send \/ Fault \/ UNCHANGED account
  <2>1. SendMessage(m) => Send
    BY DEF SendMessage
  <2>2. Posts(m) \/ Accept(m) \/ StreamOpens(m) \/ ReadBack(m) \/ Reloaded(m)
          => UNCHANGED account
    BY DEF Posts, Accept, StreamOpens, ReadBack, Reloaded
  <2>3. NotCreated(m) \/ StreamEnds(m) \/ ReloadFails(m) => Fault \/ UNCHANGED account
    BY DEF NotCreated, StreamEnds, ReloadFails, CreateFails
  <2> QED
    BY <1>1, <2>1, <2>2, <2>3 DEF Sending
<1>2. ASSUME NEW a \in Uploads, Attaching(a)
      PROVE  Send \/ Fault \/ UNCHANGED account
  BY <1>2 DEF Attaching, Attach, SendFile, StoreFile, Attached, NotAttached, Deselect
<1>3. ASSUME \/ \E k \in Chats \cup {NoChat} : OpenChat(k)
             \/ Render \/ LoadRead \/ Loaded \/ LoadFails \/ StopAnswer
             \/ \E c \in Calls : CreateChat(c)
      PROVE  Send \/ Fault \/ UNCHANGED account
  BY <1>3 DEF OpenChat, Render, LoadRead, Loaded, LoadFails, StopAnswer, CreateChat
<1> QED
  BY <1>1, <1>2, <1>3 DEF ChatNext

WorkspaceInv == Account /\ RunsInv /\ OneFlow /\ FilesInv

LEMMA WorkspaceInitially == Init => WorkspaceInv
<1>1. MembershipInit => Account
  BY DEF MembershipInit, Account, MembershipTypeOK
<1> QED
  BY <1>1, WorkflowsInitially, OneFlowInitially, FilesInitially DEF Init, WorkspaceInv

LEMMA WorkspaceKeeps ==
  ASSUME WorkspaceInv, [Next]_vars
  PROVE  WorkspaceInv'
<1> USE DEF WorkspaceInv
<1>1. CASE FilesNext /\ UNCHANGED <<workflows, chat>>
  <2>1. AccountStep
    BY <1>1, FilesSteps, AccountSteps
  <2> QED
    BY <1>1, <2>1, FilesKeep, OthersKeep, OneFlowLeft DEF AccountStep
<1>2. CASE WorkflowsNext /\ UNCHANGED <<files, chat>>
  <2>1. AccountStep
    BY <1>2, WorkflowsSteps, AccountSteps
  <2> QED
    BY <1>2, <2>1, WorkflowsKeep, OneFlowKeep, FilesLeft DEF AccountStep, RunsInv
<1>3. ASSUME ChatNext \/ ChangeTier \/ UNCHANGED account,
             UNCHANGED files, UNCHANGED workflows
      PROVE  WorkspaceInv'
  <2>1. AccountStep
    BY <1>3, ChatSteps, AccountSteps
  <2> QED
    BY <1>3, <2>1, OthersKeep, OneFlowLeft, FilesLeft DEF AccountStep
<1>4. CASE UNCHANGED vars
  <2>1. UNCHANGED account /\ UNCHANGED files /\ UNCHANGED workflows
    BY <1>4 DEF vars
  <2> QED
    BY <1>3, <2>1
<1>5. CASE ChatNext /\ UNCHANGED <<files, workflows>>
  BY <1>3, <1>5
<1>6. CASE ChangeTier /\ UNCHANGED <<files, workflows, chat>>
  BY <1>3, <1>6
<1> QED
  BY <1>1, <1>2, <1>4, <1>5, <1>6 DEF Next

LEMMA WorkspaceHolds == Spec => []WorkspaceInv
BY WorkspaceInitially, WorkspaceKeeps, PTL DEF Spec

\* A request identifier is executed for a workflow by one request at most,
\* however often it is sent, and after the rows of its run were deleted that
\* request begins, and is charged for, at most one more generation
\* (workflows.service.ts, run()).
THEOREM RunsCost == Spec => []RunsCostOnce
<1>1. WorkspaceInv => RunsCostOnce
  BY RunsInvImplies DEF WorkspaceInv
<1> QED
  BY <1>1, WorkspaceHolds, PTL

\* The status of a run tells the truth: no sweep takes a run that executes for
\* interrupted, a run that succeeded did all its steps, and one shown as running
\* is worked on unless something has stopped.
THEOREM RunHistoryTells == Spec => []RunsTell
<1>1. WorkspaceInv => RunsTell
  BY RunsInvImplies DEF WorkspaceInv
<1> QED
  BY <1>1, WorkspaceHolds, PTL

\* The history of a workflow is never rewritten: neither the catch of a run nor
\* a sweep touches a run that has ended.
THEOREM HistoryStays == Spec => FinishedStays
<1>1. ASSUME WorkspaceInv, [Next]_vars
      PROVE  [Finished]_workflows
  <2>1. WorkflowsNext => Finished
    BY <1>1, FinishedKept DEF WorkspaceInv
  <2> QED
    BY <1>1, <2>1 DEF Next, vars
<1>2. ASSUME WorkspaceInv, [Next]_vars
      PROVE  [\A r \in Runs : run[r].status \in Terminal => run'[r] \in {run[r], Gone}]_workflows
  BY <1>1, <1>2 DEF Finished
<1> QED
  BY <1>2, WorkspaceHolds, PTL DEF Spec, FinishedStays

\* Rows and bytes of files match in both directions, through refused and cut
\* off uploads and deletions that overlap (attachment.service.ts).
THEOREM FilesMatch == Spec => []FilesMatchRows
<1>1. WorkspaceInv => FilesMatchRows
  BY FilesInvImplies DEF WorkspaceInv
<1> QED
  BY <1>1, WorkspaceHolds, PTL

----------------------------------------------------------------------------
(* The limits of the plan.  A request judges by the plan it read, which    *)
(* the account had; what it adds is counted under the account's lock in    *)
(* the same step.                                                          *)

\* Plans that requests in flight have read.
FilePlans == \A t \in Transfers : transfer[t].pc \in {"write", "insert"} => transfer[t].tier \in held
JobPlans  == \A j \in Jobs : job[j].pc \in {"addProject", "addFlow"} => job[j].tier \in held

LimitsInv == FilePlans /\ StorageWithinPlan /\ JobPlans /\ CountsWithinPlan

\* Files have finitely many bytes, fewer files have no more of them, and one
\* more file adds its size at most.
LEMMA BytesFinite ==
  ASSUME NEW S \in SUBSET FileIds
  PROVE  IsFiniteSet(Bytes(S))
<1> DEFINE T == {{f} \X (1..Size[f]) : f \in S}
           g == [f \in S |-> {f} \X (1..Size[f])]
<1>1. IsFiniteSet(S)
  BY FS_Subset
<1>2. g \in Surjection(S, T)
  BY DEF Surjection
<1>3. IsFiniteSet(T)
  BY <1>1, <1>2, FS_Surjection
<1>4. \A x \in T : IsFiniteSet(x)
  <2> SUFFICES ASSUME NEW f \in S PROVE IsFiniteSet({f} \X (1..Size[f]))
    OBVIOUS
  <2>1. Size[f] \in Int /\ 1 \in Int
    OBVIOUS
  <2>2. IsFiniteSet(1..Size[f])
    BY <2>1, FS_Interval
  <2>3. IsFiniteSet({f})
    BY FS_Singleton
  <2> QED
    BY <2>2, <2>3, FS_Product
<1> QED
  BY <1>3, <1>4, FS_UNION DEF Bytes

LEMMA FewerBytes ==
  ASSUME NEW S \in SUBSET FileIds, NEW T \in SUBSET S
  PROVE  /\ Cardinality(Bytes(T)) \in Nat /\ Cardinality(Bytes(S)) \in Nat
         /\ Cardinality(Bytes(T)) <= Cardinality(Bytes(S))
<1>1. IsFiniteSet(Bytes(S)) /\ IsFiniteSet(Bytes(T))
  BY BytesFinite
<1>2. Bytes(T) \in SUBSET Bytes(S)
  BY DEF Bytes
<1> QED
  BY <1>1, <1>2, FS_Subset, FS_CardinalityType

LEMMA MoreBytes ==
  ASSUME NEW S \in SUBSET FileIds, NEW f \in FileIds
  PROVE  Cardinality(Bytes(S \cup {f})) <= Cardinality(Bytes(S)) + Size[f]
<1> DEFINE B == {f} \X (1..Size[f])
<1>1. IsFiniteSet(Bytes(S))
  BY BytesFinite
<1>2. IsFiniteSet(B) /\ Cardinality(B) = Size[f]
  <2>1. IsFiniteSet({f}) /\ Cardinality({f}) = 1
    BY FS_Singleton
  <2>2. Size[f] \in Nat
    OBVIOUS
  <2>3. IsFiniteSet(1..Size[f]) /\ Cardinality(1..Size[f]) = Size[f]
    BY <2>2, FS_Interval
  <2>4. IsFiniteSet(B) /\ Cardinality(B) = Cardinality({f}) * Cardinality(1..Size[f])
    BY <2>1, <2>3, FS_Product
  <2> QED
    BY <2>1, <2>2, <2>3, <2>4
<1>3. Bytes(S \cup {f}) = Bytes(S) \cup B
  BY DEF Bytes
<1>4. IsFiniteSet(Bytes(S) \cap B)
  BY <1>1, FS_Intersection
<1>5. /\ Cardinality(Bytes(S)) \in Nat /\ Cardinality(Bytes(S) \cap B) \in Nat
      /\ Cardinality(B) \in Nat
  BY <1>1, <1>2, <1>4, FS_CardinalityType
<1>6. Cardinality(Bytes(S) \cup B)
        = Cardinality(Bytes(S)) + Cardinality(B) - Cardinality(Bytes(S) \cap B)
  BY <1>1, <1>2, FS_Union
<1> HIDE DEF B
<1>7. Cardinality(Bytes(S \cup {f}))
        = Cardinality(Bytes(S)) + Cardinality(B) - Cardinality(Bytes(S) \cap B)
  BY <1>3, <1>6
<1>8. \A a, b, c \in Nat : a + b - c <= a + b
  OBVIOUS
<1> QED
  BY <1>2, <1>5, <1>7, <1>8

----------------------------------------------------------------------------
(* Files. *)

\* A request that adds no row keeps the limits.
LEMMA StorageKept ==
  ASSUME FilesTypeOK, StorageWithinPlan, Account, AccountStep,
         attachments' \in SUBSET attachments
  PROVE  StorageWithinPlan'
<1> SUFFICES ASSUME attachments' # {}
             PROVE  \E p \in held' : /\ Total' <= Allows[p].bytes
                                     /\ Cardinality(attachments') <= Allows[p].files
  BY DEF StorageWithinPlan
<1>1. PICK p \in held : Total <= Allows[p].bytes /\ Cardinality(attachments) <= Allows[p].files
  BY DEF StorageWithinPlan
<1>2. p \in Tiers /\ p \in held'
  BY DEF Account, MembershipTypeOK, AccountStep
<1>3. Allows[p].bytes \in Nat /\ Allows[p].files \in Nat
  BY <1>2
<1>4. attachments \in SUBSET FileIds
  BY DEF FilesTypeOK
<1>5. Total' <= Total /\ Total \in Nat /\ Total' \in Nat
  BY <1>4, FewerBytes DEF Total, Bytes
<1>6. /\ Cardinality(attachments') <= Cardinality(attachments)
      /\ Cardinality(attachments) \in Nat /\ Cardinality(attachments') \in Nat
  <2>1. IsFiniteSet(attachments)
    BY <1>4, FS_Subset
  <2> QED
    BY <2>1, FS_Subset, FS_CardinalityType
<1> QED
  BY <1>1, <1>2, <1>3, <1>5, <1>6

\* A file that fits a plan the account had leaves the storage within that plan.
LEMMA FitsKeeps ==
  ASSUME FilesTypeOK, Account, AccountStep, NEW p \in held, NEW f \in FileIds, Fits(f, p),
         attachments' = attachments \cup {f}
  PROVE  StorageWithinPlan'
<1>1. p \in Tiers /\ p \in held'
  BY DEF Account, MembershipTypeOK, AccountStep
<1>2. Allows[p].bytes \in Nat /\ Allows[p].files \in Nat /\ Size[f] \in Nat
  BY <1>1
<1>3. attachments \in SUBSET FileIds /\ attachments' \in SUBSET FileIds
  BY DEF FilesTypeOK
<1>4. Total' <= Total + Size[f] /\ Total \in Nat /\ Total' \in Nat
  BY <1>3, MoreBytes, FewerBytes DEF Total, Bytes
<1>5. /\ Cardinality(attachments') <= Cardinality(attachments) + 1
      /\ Cardinality(attachments) \in Nat /\ Cardinality(attachments') \in Nat
  <2>1. IsFiniteSet(attachments)
    BY <1>3, FS_Subset
  <2>2. /\ IsFiniteSet(attachments')
        /\ Cardinality(attachments') = IF f \in attachments THEN Cardinality(attachments)
                                                           ELSE Cardinality(attachments) + 1
    BY <2>1, FS_AddElement
  <2>3. Cardinality(attachments) \in Nat /\ Cardinality(attachments') \in Nat
    BY <2>1, <2>2, FS_CardinalityType
  <2> QED
    BY <2>2, <2>3
<1>6. Total' <= Allows[p].bytes /\ Cardinality(attachments') <= Allows[p].files
  BY <1>2, <1>4, <1>5 DEF Fits
<1> QED
  BY <1>1, <1>6 DEF StorageWithinPlan

LEMMA FilesKeepLimits ==
  ASSUME FilesInv, Account, FilesNext, FilePlans, StorageWithinPlan
  PROVE  (FilePlans /\ StorageWithinPlan)'
<1>1. AccountStep /\ FilesTypeOK
  BY FilesSteps, AccountSteps DEF FilesInv
<1>2. tier \in held /\ held \subseteq held'
  BY <1>1 DEF Account, MembershipTypeOK, AccountStep
<1>3. PICK t \in Transfers :
        \/ \E f \in FileIds : Upload(t, f) \/ Remove(t, f)
        \/ \E c \in Conversations : DeleteConversation(t, c)
        \/ ReadPolicies(t) \/ Write(t) \/ Insert(t) \/ Unwrite(t)
        \/ DeleteRow(t) \/ Unlink(t) \/ List(t) \/ NextFile(t) \/ Drop(t)
        \/ CutOff(t)
  BY DEF FilesNext
<1> DEFINE y == transfer[t]
<1>4. /\ y \in Transfer /\ Quiet \in Transfer /\ Quiet.pc = "idle"
      /\ y.pc \in {"write", "insert"} => y.tier \in held
  BY TransferFacts, QuietFacts DEF FilePlans
<1>5. ASSUME NEW x, transfer' = [transfer EXCEPT ![t] = x],
             x.pc \in {"write", "insert"} => x.tier \in held
      PROVE  FilePlans'
  <2>1. \A s \in Transfers : transfer'[s] = IF s = t THEN x ELSE transfer[s]
    BY <1>1, <1>5 DEF FilesTypeOK
  <2> QED
    BY <1>2, <1>5, <2>1 DEF FilePlans
<1>6. ASSUME NEW x, Moves(t, x), x.pc \in {"write", "insert"} => x.tier \in held
      PROVE  FilePlans'
  BY <1>4, <1>5, <1>6 DEF Moves
<1>7. ASSUME NEW label, Goes(t, label), label = "insert" => y.pc = "write", label # "write"
      PROVE  FilePlans'
  <2> DEFINE x == [y EXCEPT !.pc = label]
  <2>1. x.pc = label /\ x.tier = y.tier
    BY <1>4 DEF Transfer
  <2>2. Moves(t, x)
    BY <1>7 DEF Goes
  <2> HIDE DEF x
  <2> QED
    BY <1>4, <1>6, <1>7, <2>1, <2>2
<1>8. CASE Insert(t)
  <2>1. FilePlans'
    BY <1>7, <1>8 DEF Insert
  <2>2. CASE Fits(y.file, y.tier) /\ Home[y.file] \in conversations
    <3>1. /\ y.pc = "insert" /\ y.file \in FileIds
          /\ attachments' = attachments \cup {y.file}
      BY <1>4, <1>8, <2>2, TransferFacts DEF Insert, Holds, Storing, FilesInv, FilesTypeOK
    <3> QED
      BY <1>1, <1>4, <2>1, <2>2, <3>1, FitsKeeps
  <2>3. CASE ~(Fits(y.file, y.tier) /\ Home[y.file] \in conversations)
    <3>1. attachments' = attachments
      BY <1>8, <2>3 DEF Insert
    <3> QED
      BY <1>1, <2>1, <3>1, StorageKept
  <2> QED
    BY <2>2, <2>3
<1>9. ASSUME ~Insert(t)
      PROVE  attachments' \in SUBSET attachments
  BY <1>3, <1>9 DEF Upload, Remove, DeleteConversation, ReadPolicies, Write, Unwrite, DeleteRow,
                    Unlink, List, NextFile, Drop, CutOff, storage
<1>10. ASSUME FilePlans', ~Insert(t)
       PROVE  (FilePlans /\ StorageWithinPlan)'
  BY <1>1, <1>9, <1>10, StorageKept
<1>11. ASSUME NEW f \in FileIds, Upload(t, f) \/ Remove(t, f)
       PROVE  FilePlans'
  <2>1. ASSUME NEW label \in {"policies", "row"},
               Moves(t, [Quiet EXCEPT !.pc = label, !.file = f])
        PROVE  FilePlans'
    <3> DEFINE x == [Quiet EXCEPT !.pc = label, !.file = f]
    <3>1. x.pc \notin {"write", "insert"}
      BY DEF Quiet
    <3> QED
      BY <1>6, <2>1, <3>1
  <2> QED
    BY <1>11, <2>1 DEF Upload, Remove
<1>12. ASSUME NEW c \in Conversations, DeleteConversation(t, c)
       PROVE  FilePlans'
  <2> DEFINE x == [Quiet EXCEPT !.pc = "list", !.conversation = c]
  <2>1. x.pc = "list"
    BY DEF Quiet
  <2> QED
    BY <1>6, <1>12, <2>1 DEF DeleteConversation
<1>13. ASSUME ReadPolicies(t)
       PROVE  FilePlans'
  <2>1. ASSUME Allows[tier].files = 0
        PROVE  FilePlans'
    BY <1>7, <1>13, <2>1 DEF ReadPolicies
  <2>2. ASSUME Allows[tier].files # 0
        PROVE  FilePlans'
    <3> DEFINE x == [y EXCEPT !.pc = "write", !.tier = tier]
    <3>1. x.tier = tier
      BY <1>4 DEF Transfer
    <3>2. Moves(t, x)
      BY <1>13, <2>2 DEF ReadPolicies
    <3> HIDE DEF x
    <3> QED
      BY <1>2, <1>6, <3>1, <3>2
  <2> QED
    BY <1>13, <2>1, <2>2 DEF ReadPolicies
<1>14. ASSUME Write(t) \/ Unwrite(t) \/ DeleteRow(t) \/ Unlink(t) \/ Drop(t)
       PROVE  FilePlans'
  BY <1>7, <1>14 DEF Write, Unwrite, DeleteRow, Unlink, Drop
<1>15. ASSUME List(t)
       PROVE  FilePlans'
  <2> DEFINE x == [y EXCEPT !.pc = "next", !.left = In(y.conversation)]
  <2>1. x.pc = "next"
    BY <1>4 DEF Transfer
  <2>2. Moves(t, x)
    BY <1>15 DEF List
  <2> HIDE DEF x
  <2> QED
    BY <1>6, <2>1, <2>2
<1>16. ASSUME NextFile(t)
       PROVE  FilePlans'
  <2>1. ASSUME Goes(t, "drop")
        PROVE  FilePlans'
    BY <1>7, <2>1
  <2>2. ASSUME NEW f \in y.left,
               Moves(t, [y EXCEPT !.pc = IF f \in attachments THEN "row" ELSE "idle",
                                  !.file = f, !.left = @ \ {f}])
        PROVE  FilePlans'
    <3> DEFINE x == [y EXCEPT !.pc = IF f \in attachments THEN "row" ELSE "idle",
                              !.file = f, !.left = @ \ {f}]
    <3>1. x.pc \in {"row", "idle"}
      BY <1>4 DEF Transfer
    <3> HIDE DEF x
    <3> QED
      BY <1>6, <2>2, <3>1 DEF x
  <2> QED
    BY <1>16, <2>1, <2>2 DEF NextFile
<1>17. ASSUME CutOff(t)
       PROVE  FilePlans'
  BY <1>4, <1>6, <1>17 DEF CutOff
<1> QED
  BY <1>3, <1>8, <1>10, <1>11, <1>12, <1>13, <1>14, <1>15, <1>16, <1>17

----------------------------------------------------------------------------
(* Projects and workflows. *)

ProjectsWithin ==
  ProjectRows # {} => \E p \in held : Cardinality(ProjectRows) <= Allows[p].projects
FlowsWithin ==
  FlowRows # {} => \E p \in held : Cardinality(FlowRows) <= Allows[p].workflows

LEMMA RowsFinite == IsFiniteSet(ProjectRows) /\ IsFiniteSet(FlowRows)
<1>1. ProjectRows \in SUBSET Projects /\ FlowRows \in SUBSET Flows
  BY DEF ProjectRows, FlowRows
<1> QED
  BY <1>1, FS_Subset

LEMMA OneMoreRow ==
  ASSUME NEW S, IsFiniteSet(S), NEW x, NEW T \in SUBSET (S \cup {x}), NEW n \in Nat,
         Cardinality(S) < n
  PROVE  Cardinality(T) <= n
<1>1. IsFiniteSet(S \cup {x}) /\ Cardinality(S) \in Nat
  BY FS_AddElement, FS_CardinalityType
<1>2. Cardinality(S \cup {x}) = IF x \in S THEN Cardinality(S) ELSE Cardinality(S) + 1
  BY FS_AddElement
<1>3. Cardinality(T) <= Cardinality(S \cup {x}) /\ Cardinality(T) \in Nat
  <2>1. Cardinality(T) <= Cardinality(S \cup {x}) /\ IsFiniteSet(T)
    BY <1>1, FS_Subset
  <2> QED
    BY <2>1, FS_CardinalityType
<1> QED
  BY <1>1, <1>2, <1>3

LEMMA NoMoreRows ==
  ASSUME NEW S, IsFiniteSet(S), NEW T \in SUBSET S, NEW n \in Nat, Cardinality(S) <= n
  PROVE  Cardinality(T) <= n
<1>1. Cardinality(T) <= Cardinality(S) /\ IsFiniteSet(T)
  BY FS_Subset
<1>2. Cardinality(T) \in Nat /\ Cardinality(S) \in Nat
  BY <1>1, FS_CardinalityType
<1> QED
  BY <1>1, <1>2

\* Projects are as many as before at most, or one more that a plan allows.
LEMMA ProjectsKept ==
  ASSUME Account, AccountStep, ProjectsWithin,
         \/ ProjectRows' \subseteq ProjectRows
         \/ \E p \in Projects, t \in held : /\ ProjectRows' \subseteq ProjectRows \cup {p}
                                           /\ Cardinality(ProjectRows) < Allows[t].projects
  PROVE  ProjectsWithin'
<1>1. \A t \in held : t \in held' /\ Allows[t].projects \in Nat
  BY DEF Account, MembershipTypeOK, AccountStep
<1>2. CASE ProjectRows' \subseteq ProjectRows
  <2>1. ASSUME ProjectRows' # {}
        PROVE  \E t \in held : Cardinality(ProjectRows') <= Allows[t].projects
    <3>1. PICK t \in held : Cardinality(ProjectRows) <= Allows[t].projects
      BY <1>2, <2>1 DEF ProjectsWithin
    <3>2. Cardinality(ProjectRows') <= Allows[t].projects
      BY <1>1, <1>2, <3>1, RowsFinite, NoMoreRows
    <3> QED
      BY <3>2
  <2> QED
    BY <1>1, <2>1 DEF ProjectsWithin
<1>3. ASSUME NEW p \in Projects, NEW t \in held, ProjectRows' \subseteq ProjectRows \cup {p},
             Cardinality(ProjectRows) < Allows[t].projects
      PROVE  ProjectsWithin'
  <2>1. Cardinality(ProjectRows') <= Allows[t].projects
    BY <1>1, <1>3, RowsFinite, OneMoreRow
  <2> QED
    BY <1>1, <2>1 DEF ProjectsWithin
<1> QED
  BY <1>2, <1>3

LEMMA FlowsKept ==
  ASSUME Account, AccountStep, FlowsWithin,
         \/ FlowRows' \subseteq FlowRows
         \/ \E f \in Flows, t \in held : /\ FlowRows' \subseteq FlowRows \cup {f}
                                        /\ Cardinality(FlowRows) < Allows[t].workflows
  PROVE  FlowsWithin'
<1>1. \A t \in held : t \in held' /\ Allows[t].workflows \in Nat
  BY DEF Account, MembershipTypeOK, AccountStep
<1>2. CASE FlowRows' \subseteq FlowRows
  <2>1. ASSUME FlowRows' # {}
        PROVE  \E t \in held : Cardinality(FlowRows') <= Allows[t].workflows
    <3>1. PICK t \in held : Cardinality(FlowRows) <= Allows[t].workflows
      BY <1>2, <2>1 DEF FlowsWithin
    <3>2. Cardinality(FlowRows') <= Allows[t].workflows
      BY <1>1, <1>2, <3>1, RowsFinite, NoMoreRows
    <3> QED
      BY <3>2
  <2> QED
    BY <1>1, <2>1 DEF FlowsWithin
<1>3. ASSUME NEW f \in Flows, NEW t \in held, FlowRows' \subseteq FlowRows \cup {f},
             Cardinality(FlowRows) < Allows[t].workflows
      PROVE  FlowsWithin'
  <2>1. Cardinality(FlowRows') <= Allows[t].workflows
    BY <1>1, <1>3, RowsFinite, OneMoreRow
  <2> QED
    BY <1>1, <2>1 DEF FlowsWithin
<1> QED
  BY <1>2, <1>3

\* The requests that write rows.
LEMMA RowsKeepLimits ==
  ASSUME RunsInv, Account, JobPlans, ProjectsWithin, FlowsWithin, NEW j \in Jobs,
         \/ AddProject(j) \/ SetProject(j) \/ DropProject(j)
         \/ AddFlow(j) \/ SetFlow(j) \/ DropFlow(j)
  PROVE  (ProjectsWithin /\ FlowsWithin)'
<1>1. AccountStep /\ UNCHANGED account
  BY AccountSteps DEF AddProject, SetProject, DropProject, AddFlow, SetFlow, DropFlow
<1>2. /\ Named(job[j])
      /\ project \in [Projects -> {"none", "open", "archived", "removed"}]
      /\ flow \in [Flows -> FlowRow \cup {NoFlow("none"), NoFlow("removed")}]
  BY DEF RunsInv, WorkflowsTypeOK
<1>3. CASE AddProject(j)
  <2>1. PICK p \in Projects : p = job[j].project
    BY <1>2, <1>3 DEF AddProject, Named
  <2>2. PICK t \in held : t = job[j].tier
    BY <1>3 DEF AddProject, JobPlans
  <2>3. \/ project' = project
        \/ /\ Cardinality(ProjectRows) < Allows[t].projects
           /\ project' = [project EXCEPT ![p] = "open"]
    BY <1>3, <2>1, <2>2 DEF AddProject
  <2>4. \/ ProjectRows' \subseteq ProjectRows
        \/ /\ ProjectRows' \subseteq ProjectRows \cup {p}
           /\ Cardinality(ProjectRows) < Allows[t].projects
    BY <1>2, <2>3 DEF ProjectRows
  <2>5. FlowRows' = FlowRows
    BY <1>3 DEF AddProject, FlowRows
  <2> QED
    BY <1>1, <2>4, <2>5, ProjectsKept, FlowsKept
<1>4. CASE SetProject(j)
  <2>1. ProjectRows' \subseteq ProjectRows /\ FlowRows' = FlowRows
    BY <1>2, <1>4 DEF SetProject, ProjectRows, FlowRows
  <2> QED
    BY <1>1, <2>1, ProjectsKept, FlowsKept
<1>5. ASSUME NEW gone \in SUBSET Flows, WithoutFlows(gone)
      PROVE  FlowRows' \subseteq FlowRows
  BY <1>5 DEF WithoutFlows, FlowRows, NoFlow
<1>6. CASE DropProject(j)
  <2>1. FlowRows' \subseteq FlowRows
    <3>1. FlowsOf(job[j].project) \in SUBSET Flows
      BY DEF FlowsOf, FlowRows
    <3>2. WithoutFlows(FlowsOf(job[j].project)) \/ flow' = flow
      BY <1>6 DEF DropProject, tables
    <3>3. flow' = flow => FlowRows' = FlowRows
      BY DEF FlowRows
    <3> QED
      BY <1>5, <3>1, <3>2, <3>3
  <2>2. ProjectRows' \subseteq ProjectRows
    BY <1>2, <1>6 DEF DropProject, ProjectRows, tables
  <2> QED
    BY <1>1, <2>1, <2>2, ProjectsKept, FlowsKept
<1>7. CASE AddFlow(j)
  <2>1. PICK f \in Flows, p \in Projects : f = job[j].flow /\ p = job[j].project
    BY <1>2, <1>7 DEF AddFlow, Named
  <2>2. PICK t \in held : t = job[j].tier
    BY <1>7 DEF AddFlow, JobPlans
  <2>3. \/ flow' = flow
        \/ /\ Cardinality(FlowRows) < Allows[t].workflows
           /\ flow' = [flow EXCEPT ![f] = [project |-> p, enabled |-> TRUE]]
    BY <1>7, <2>1, <2>2 DEF AddFlow
  <2>4. \/ FlowRows' \subseteq FlowRows
        \/ /\ FlowRows' \subseteq FlowRows \cup {f}
           /\ Cardinality(FlowRows) < Allows[t].workflows
    BY <1>2, <2>3 DEF FlowRows
  <2>5. ProjectRows' = ProjectRows
    BY <1>7 DEF AddFlow, ProjectRows
  <2> QED
    BY <1>1, <2>4, <2>5, ProjectsKept, FlowsKept
<1>8. CASE SetFlow(j)
  <2>1. PICK f \in Flows, p \in Projects, b \in BOOLEAN :
          \/ flow' = flow
          \/ f \in FlowRows /\ flow' = [flow EXCEPT ![f] = [project |-> p, enabled |-> b]]
    BY <1>2, <1>8 DEF SetFlow, Named
  <2>2. FlowRows' \subseteq FlowRows
    BY <1>2, <2>1 DEF FlowRows
  <2>3. ProjectRows' = ProjectRows
    BY <1>8 DEF SetFlow, ProjectRows
  <2> QED
    BY <1>1, <2>2, <2>3, ProjectsKept, FlowsKept
<1>9. CASE DropFlow(j)
  <2>1. {job[j].flow} \in SUBSET Flows
    BY <1>2, <1>9 DEF DropFlow, Named
  <2>2. /\ WithoutFlows({job[j].flow}) \/ flow' = flow
        /\ project' = project
    BY <1>9 DEF DropFlow, tables
  <2>3. /\ flow' = flow => FlowRows' = FlowRows
        /\ ProjectRows' = ProjectRows
    BY <2>2 DEF FlowRows, ProjectRows
  <2> QED
    BY <1>1, <1>5, <2>1, <2>2, <2>3, ProjectsKept, FlowsKept
<1> QED
  BY <1>3, <1>4, <1>6, <1>7, <1>8, <1>9

LEMMA JobPlansKept ==
  ASSUME WorkflowsTypeOK, Account, AccountStep, JobPlans, NEW j \in Jobs, NEW x, Does(j, x),
         x.pc \in {"addProject", "addFlow"} => x.tier = tier
  PROVE  JobPlans'
<1>1. PICK y : /\ job' = [job EXCEPT ![j] = y]
               /\ y.pc \in {"addProject", "addFlow"} => y.tier = tier
  <2>1. CASE x.pc = "idle"
    BY <2>1, FreeFacts DEF Does
  <2>2. CASE x.pc # "idle"
    BY <2>2 DEF Does
  <2> QED
    BY <2>1, <2>2
<1>2. \A i \in Jobs : job'[i] = IF i = j THEN y ELSE job[i]
  BY <1>1 DEF WorkflowsTypeOK
<1>3. tier \in held /\ held \subseteq held'
  BY DEF Account, MembershipTypeOK, AccountStep
<1> QED
  BY <1>1, <1>2, <1>3 DEF JobPlans

LEMMA JobPlansTurn ==
  ASSUME WorkflowsTypeOK, Account, AccountStep, JobPlans, NEW j \in Jobs,
         NEW label \in {"idle", "step", "succeed", "count", "catch"}, Turns(j, label)
  PROVE  JobPlans'
<1> DEFINE x == [job[j] EXCEPT !.pc = label]
<1>1. x.pc = label
  BY JobFacts DEF Job
<1>2. Does(j, x)
  BY DEF Turns
<1> HIDE DEF x
<1> QED
  BY <1>1, <1>2, JobPlansKept

LEMMA JobPlansKeep ==
  ASSUME WorkflowsTypeOK, Account, AccountStep, JobPlans, WorkflowsNext
  PROVE  JobPlans'
<1>1. ASSUME NEW j \in Jobs, NEW p \in Projects, SaveProject(j, p)
      PROVE  JobPlans'
  <2> DEFINE x == [Free EXCEPT !.project = p, !.tier = tier,
                          !.pc = IF project[p] = "none" THEN "addProject" ELSE "setProject"]
  <2>1. x.tier = tier /\ Does(j, x)
    BY <1>1 DEF SaveProject, Free
  <2> HIDE DEF x
  <2> QED
    BY <2>1, JobPlansKept
<1>2. ASSUME NEW j \in Jobs, NEW p \in Projects, RemoveProject(j, p)
      PROVE  JobPlans'
  <2> DEFINE x == [Free EXCEPT !.project = p, !.pc = "dropProject"]
  <2>1. x.pc = "dropProject" /\ Does(j, x)
    BY <1>2 DEF RemoveProject, Free
  <2> HIDE DEF x
  <2> QED
    BY <2>1, JobPlansKept
<1>3. ASSUME NEW j \in Jobs, NEW f \in Flows, RemoveFlow(j, f)
      PROVE  JobPlans'
  <2> DEFINE x == [Free EXCEPT !.flow = f, !.pc = "dropFlow"]
  <2>1. x.pc = "dropFlow" /\ Does(j, x)
    BY <1>3 DEF RemoveFlow, Free
  <2> HIDE DEF x
  <2> QED
    BY <2>1, JobPlansKept
<1>4. ASSUME NEW j \in Jobs, NEW f \in Flows, NEW p \in Projects, SaveFlow(j, f, p)
      PROVE  JobPlans'
  <2> DEFINE x == [Free EXCEPT !.project = p, !.flow = f, !.tier = tier,
                          !.pc = IF f \in FlowRows THEN "setFlow" ELSE "addFlow"]
  <2>1. x.tier = tier /\ Does(j, x)
    BY <1>4 DEF SaveFlow, Free
  <2> HIDE DEF x
  <2> QED
    BY <2>1, JobPlansKept
<1>5. ASSUME NEW j \in Jobs, NEW r \in Runs, NEW f \in Flows, StartRun(j, r, f)
      PROVE  JobPlans'
  <2> DEFINE x == [Free EXCEPT !.run = r, !.flow = f, !.pc = "claim"]
  <2>1. x.pc = "claim" /\ Does(j, x)
    BY <1>5 DEF StartRun, Free
  <2> HIDE DEF x
  <2> QED
    BY <2>1, JobPlansKept
<1>6. ASSUME NEW j \in Jobs, BeginStep(j)
      PROVE  JobPlans'
  <2>1. CASE job[j].closed
    BY <1>6, <2>1, JobPlansTurn DEF BeginStep
  <2>2. CASE ~job[j].closed
    <3> DEFINE x == [job[j] EXCEPT !.pc = "generate", !.since = now]
    <3>1. x.pc = "generate" /\ Does(j, x)
      BY <1>6, <2>2, JobFacts DEF BeginStep, Job
    <3> HIDE DEF x
    <3> QED
      BY <3>1, JobPlansKept
  <2> QED
    BY <2>1, <2>2
<1>7. ASSUME NEW j \in Jobs, CountStep(j)
      PROVE  JobPlans'
  <2>1. CASE ~Stored(job[j].run)
    BY <1>7, <2>1, JobPlansTurn DEF CountStep
  <2>2. CASE Stored(job[j].run)
    <3> DEFINE x == [job[j] EXCEPT !.step = @ + 1,
                          !.pc = IF job[j].step + 1 = Steps THEN "succeed" ELSE "step"]
    <3>1. x.pc \in {"succeed", "step"} /\ Does(j, x)
      BY <1>7, <2>2, JobFacts DEF CountStep, Job
    <3> HIDE DEF x
    <3> QED
      BY <3>1, JobPlansKept
  <2> QED
    BY <2>1, <2>2
<1>8. ASSUME NEW j \in Jobs, Leave(j)
      PROVE  JobPlans'
  <2> DEFINE x == [job[j] EXCEPT !.closed = TRUE]
  <2>1. x.pc = job[j].pc /\ Does(j, x)
    BY <1>8, JobFacts DEF Leave, Job
  <2>2. x.pc \notin {"addProject", "addFlow"}
    BY <1>8, <2>1 DEF Leave, Executing
  <2> HIDE DEF x
  <2> QED
    BY <2>1, <2>2, JobPlansKept
<1>9. ASSUME NEW j \in Jobs,
             \/ AddProject(j) \/ SetProject(j) \/ DropProject(j)
             \/ AddFlow(j) \/ SetFlow(j) \/ DropFlow(j)
             \/ Claim(j) \/ StepEnds(j) \/ Succeed(j) \/ Catch(j) \/ Throw(j) \/ Stop(j)
      PROVE  JobPlans'
  <2>1. \E label \in {"idle", "step", "succeed", "count", "catch"} : Turns(j, label)
    BY <1>9 DEF AddProject, SetProject, DropProject, AddFlow, SetFlow, DropFlow, Claim, StepEnds,
                Succeed, Catch, Throw, Stop
  <2> QED
    BY <2>1, JobPlansTurn
<1>10. CASE Pause
  BY <1>10 DEF Pause, JobPlans, account
<1> QED
  BY <1>1, <1>2, <1>3, <1>4, <1>5, <1>6, <1>7, <1>8, <1>9, <1>10 DEF WorkflowsNext, Execute

LEMMA WorkflowsKeepLimits ==
  ASSUME RunsInv, Account, JobPlans, CountsWithinPlan, WorkflowsNext
  PROVE  (JobPlans /\ CountsWithinPlan)'
<1>1. AccountStep /\ WorkflowsTypeOK
  BY WorkflowsSteps, AccountSteps DEF RunsInv
<1>2. JobPlans'
  BY <1>1, JobPlansKeep
<1>3. ProjectsWithin /\ FlowsWithin
  BY DEF CountsWithinPlan, ProjectsWithin, FlowsWithin
<1>4. ASSUME UNCHANGED <<project, flow>>
      PROVE  (ProjectsWithin /\ FlowsWithin)'
  <2>1. ProjectRows' = ProjectRows /\ FlowRows' = FlowRows
    BY <1>4 DEF ProjectRows, FlowRows
  <2> QED
    BY <1>1, <1>3, <2>1, ProjectsKept, FlowsKept
<1>5. \/ UNCHANGED <<project, flow>>
      \/ \E j \in Jobs : \/ AddProject(j) \/ SetProject(j) \/ DropProject(j)
                         \/ AddFlow(j) \/ SetFlow(j) \/ DropFlow(j)
  <2>1. ASSUME NEW j \in Jobs,
               \/ \E p \in Projects : SaveProject(j, p) \/ RemoveProject(j, p)
               \/ \E f \in Flows : RemoveFlow(j, f) \/ \E p \in Projects : SaveFlow(j, f, p)
               \/ \E r \in Runs, f \in Flows : StartRun(j, r, f)
        PROVE  UNCHANGED <<project, flow>>
    BY <2>1 DEF SaveProject, RemoveProject, RemoveFlow, SaveFlow, StartRun, tables
  <2>2. ASSUME NEW j \in Jobs,
               \/ Claim(j) \/ BeginStep(j) \/ StepEnds(j) \/ CountStep(j) \/ Succeed(j)
               \/ Catch(j) \/ Leave(j) \/ Throw(j) \/ Stop(j)
        PROVE  UNCHANGED <<project, flow>>
    BY <2>2 DEF Claim, BeginStep, StepEnds, CountStep, Succeed, Catch, Leave, Throw, Stop, tables
  <2>3. Pause => UNCHANGED <<project, flow>>
    BY DEF Pause, tables
  <2> QED
    BY <2>1, <2>2, <2>3 DEF WorkflowsNext, Execute
<1>6. (ProjectsWithin /\ FlowsWithin)'
  BY <1>1, <1>3, <1>4, <1>5, RowsKeepLimits
<1> QED
  BY <1>2, <1>6 DEF CountsWithinPlan, ProjectsWithin, FlowsWithin

----------------------------------------------------------------------------
(* The services together. *)

LEMMA LimitsInitially == Init => LimitsInv
<1> SUFFICES ASSUME Init PROVE LimitsInv
  OBVIOUS
<1>1. FilePlans /\ StorageWithinPlan
  BY QuietFacts DEF Init, FilesInit, FilePlans, StorageWithinPlan
<1>2. JobPlans
  BY FreeFacts DEF Init, WorkflowsInit, JobPlans
<1>3. held = {FirstTier}
  BY DEF Init, MembershipInit
<1>4. Cardinality(ProjectRows) <= Allows[FirstTier].projects
  <2>1. ProjectRows = {p \in Projects : \E f \in Flows : Begins[f] = p}
    BY DEF Init, WorkflowsInit, ProjectRows
  <2> QED
    BY <2>1, BeginAssumption
<1>5. Cardinality(FlowRows) <= Allows[FirstTier].workflows
  <2> DEFINE S == {f \in Flows : Begins[f] # "none"}
  <2>1. FlowRows \subseteq S
    BY DEF Init, WorkflowsInit, FlowRows, NoFlow
  <2>2. IsFiniteSet(S)
    BY FS_Subset
  <2>3. Allows[FirstTier].workflows \in Nat
    OBVIOUS
  <2>4. Cardinality(S) <= Allows[FirstTier].workflows
    BY BeginAssumption
  <2> HIDE DEF S
  <2> QED
    BY <2>1, <2>2, <2>3, <2>4, NoMoreRows
<1> QED
  BY <1>1, <1>2, <1>3, <1>4, <1>5 DEF LimitsInv, CountsWithinPlan

LEMMA LimitsKeep ==
  ASSUME WorkspaceInv, LimitsInv, [Next]_vars
  PROVE  LimitsInv'
<1>1. Account /\ RunsInv /\ FilesInv
  BY DEF WorkspaceInv
<1>2. ASSUME AccountStep, UNCHANGED files
      PROVE  (FilePlans /\ StorageWithinPlan)'
  <2>1. attachments' \in SUBSET attachments /\ transfer' = transfer
    BY <1>2 DEF files, storage
  <2>2. StorageWithinPlan'
    BY <1>1, <1>2, <2>1, StorageKept DEF FilesInv, LimitsInv
  <2> QED
    BY <1>2, <2>1, <2>2 DEF FilePlans, LimitsInv, AccountStep
<1>3. ASSUME AccountStep, UNCHANGED workflows
      PROVE  (JobPlans /\ CountsWithinPlan)'
  <2>1. ProjectRows' = ProjectRows /\ FlowRows' = FlowRows /\ job' = job
    BY <1>3 DEF ProjectRows, FlowRows, workflows, tables
  <2>2. (ProjectsWithin /\ FlowsWithin)'
    BY <1>1, <1>3, <2>1, ProjectsKept, FlowsKept
    DEF LimitsInv, CountsWithinPlan, ProjectsWithin, FlowsWithin
  <2> QED
    BY <1>3, <2>1, <2>2
    DEF LimitsInv, CountsWithinPlan, ProjectsWithin, FlowsWithin, JobPlans, AccountStep
<1>4. CASE FilesNext /\ UNCHANGED <<workflows, chat>>
  BY <1>1, <1>3, <1>4, FilesSteps, AccountSteps, FilesKeepLimits DEF LimitsInv
<1>5. CASE WorkflowsNext /\ UNCHANGED <<files, chat>>
  BY <1>1, <1>2, <1>5, WorkflowsSteps, AccountSteps, WorkflowsKeepLimits DEF LimitsInv
<1>6. CASE ChatNext /\ UNCHANGED <<files, workflows>>
  BY <1>1, <1>2, <1>3, <1>6, ChatSteps, AccountSteps DEF LimitsInv
<1>7. CASE ChangeTier /\ UNCHANGED <<files, workflows, chat>>
  BY <1>1, <1>2, <1>3, <1>7, AccountSteps DEF LimitsInv
<1>8. CASE UNCHANGED vars
  <2>1. UNCHANGED account /\ UNCHANGED files /\ UNCHANGED workflows
    BY <1>8 DEF vars
  <2> QED
    BY <1>1, <1>2, <1>3, <2>1, AccountSteps DEF LimitsInv
<1> QED
  BY <1>4, <1>5, <1>6, <1>7, <1>8 DEF Next

LEMMA LimitsHold == Spec => []LimitsInv
BY LimitsInitially, LimitsKeep, WorkspaceHolds, PTL DEF Spec

=============================================================================
