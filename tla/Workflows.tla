----------------------------- MODULE Workflows -----------------------------
(***************************************************************************)
(* Projects, workflows and their runs: projects.service.ts and             *)
(* workflows.service.ts for one account.                                   *)
(*                                                                         *)
(* A run is claimed in a transaction that locks the account and lets one   *)
(* run at a time through; then the request that claimed it generates step  *)
(* after step and keeps the count in the run's row, unlocked.  The process *)
(* may stop in between, which leaves the row RESERVED until a later claim  *)
(* finds it too old, and the row may be deleted with its workflow or its   *)
(* project while the steps go on.                                          *)
(*                                                                         *)
(* The reads with which a request begins are one step: they only decide    *)
(* whether it goes on.  A generation is any that ends within the deadline  *)
(* (module Generation) and whose result is any.                            *)
(***************************************************************************)
EXTENDS Membership

CONSTANTS
  Projects, Flows,  \* identifiers, each used once
  Begins,           \* the projects of workflows that exist at the beginning
  Runs,             \* request identifiers of runs, which the client chooses
  Jobs,             \* slots for requests in flight
  Steps,            \* steps of a workflow, at most 20 in the code
  StepLimit,        \* the hard ceiling of a generation
  SweepAge,         \* age from which a reserved run counts as interrupted
  RateWindow,       \* the minute of the rate limit
  RateLimit,        \* runs in a minute, 3 in the code
  MaxTime           \* bound: the clock stops here

ASSUME WorkflowAssumption ==
  /\ IsFiniteSet(Projects) /\ IsFiniteSet(Flows)
  /\ Begins \in [Flows -> Projects \cup {"none"}]
  /\ Steps \in Nat \ {0} /\ StepLimit \in Nat \ {0}
  /\ RateWindow \in Nat /\ RateLimit \in Nat
  /\ MaxTime \in Nat

\* "No run can exceed 20 steps of the hard 600-second generation ceiling."
ASSUME SweepAssumption == SweepAge \in Nat /\ SweepAge >= Steps * StepLimit

\* What exists at the beginning was created in the plan of the beginning.
ASSUME BeginAssumption ==
  /\ Cardinality({p \in Projects : \E f \in Flows : Begins[f] = p}) <= Allows[FirstTier].projects
  /\ Cardinality({f \in Flows : Begins[f] # "none"}) <= Allows[FirstTier].workflows

VARIABLES
  now,      \* the clock
  project,  \* Project rows
  flow,     \* Workflow rows
  run,      \* WorkflowRun rows
  job,      \* requests in flight
  claims,   \* how often each identifier was executed for each workflow
  late      \* generations begun for it while its row was gone

tables    == <<project, flow, run>>
workflows == <<now, tables, job, claims, late>>

Terminal == {"SUCCEEDED", "FAILED", "CANCELLED", "INTERRUPTED"}
FlowRow == [project : Projects, enabled : BOOLEAN]
RunRow == [status : {"RESERVED"} \cup Terminal, flow : Flows,
           completed : 0..Steps, at : 0..MaxTime]
Gone == [status |-> "gone"]             \* no run, before or after
NoFlow(why) == [project |-> why]        \* "none" yet, or "removed"

Stored(r) == run[r].status # "gone"

(***************************************************************************)
(* A request: where it stands, its project, workflow or run, the plan it   *)
(* read, the step it is at, when its generation began, and whether its     *)
(* client has gone.                                                        *)
(***************************************************************************)
Job == [pc : {"idle", "addProject", "setProject", "dropProject", "addFlow", "setFlow",
              "dropFlow", "claim", "step", "generate", "count", "succeed", "catch"},
        project : Projects \cup {"none"}, flow : Flows \cup {"none"},
        run : Runs \cup {"none"}, tier : Tiers \cup {"none"},
        step : 0..Steps, since : 0..MaxTime, closed : BOOLEAN]

Free == [pc |-> "idle", project |-> "none", flow |-> "none", run |-> "none",
         tier |-> "none", step |-> 0, since |-> 0, closed |-> FALSE]

Does(j, x) == job' = [job EXCEPT ![j] = IF x.pc = "idle" THEN Free ELSE x]
Turns(j, label) == Does(j, [job[j] EXCEPT !.pc = label])

(***************************************************************************)
(* Projects.                                                               *)
(***************************************************************************)
HasProjects == Allows[tier].projects > 0

\* owned(..., writable)
Writable(p) == project[p] = "open" /\ HasProjects

SaveProject(j, p) ==
  /\ job[j] = Free /\ Send
  /\ HasProjects
  /\ project[p] # "removed"
  /\ Does(j, [Free EXCEPT !.project = p, !.tier = tier,
                          !.pc = IF project[p] = "none" THEN "addProject" ELSE "setProject"])
  /\ UNCHANGED <<now, tables, claims, late>>

ProjectRows == {p \in Projects : project[p] \in {"open", "archived"}}

AddProject(j) ==
  /\ job[j].pc = "addProject"
  /\ LET p == job[j].project IN
     project' = IF Cardinality(ProjectRows) < Allows[job[j].tier].projects /\ project[p] = "none"
                  THEN [project EXCEPT ![p] = "open"] ELSE project
  /\ Turns(j, "idle")
  /\ UNCHANGED <<account, now, flow, run, claims, late>>

\* An update archives or restores, also over the plan's number of projects.
SetProject(j) ==
  /\ job[j].pc = "setProject"
  /\ LET p == job[j].project IN
     \E status \in {"open", "archived"} :
       project' = IF p \in ProjectRows THEN [project EXCEPT ![p] = status] ELSE project
  /\ Turns(j, "idle")
  /\ UNCHANGED <<account, now, flow, run, claims, late>>

FlowRows == {f \in Flows : flow[f].project \notin {"none", "removed"}}
RunsOf(f) == {r \in Runs : run[r].status = "RESERVED" /\ run[r].flow = f}
FlowsOf(p) == {f \in FlowRows : flow[f].project = p}

\* remove(): the running runs are counted in one statement ...
RemoveProject(j, p) ==
  /\ job[j] = Free /\ Send
  /\ p \in ProjectRows
  /\ \A f \in FlowsOf(p) : RunsOf(f) = {}
  /\ Does(j, [Free EXCEPT !.project = p, !.pc = "dropProject"])
  /\ UNCHANGED <<now, tables, claims, late>>

\* ... and the rows deleted in another, workflows and runs with the project.
WithoutFlows(gone) ==
  /\ flow' = [f \in Flows |-> IF f \in gone THEN NoFlow("removed") ELSE flow[f]]
  /\ run' = [r \in Runs |-> IF Stored(r) /\ run[r].flow \in gone THEN Gone ELSE run[r]]

DropProject(j) ==
  /\ job[j].pc = "dropProject"
  /\ LET p == job[j].project IN
     IF p \in ProjectRows
       THEN project' = [project EXCEPT ![p] = "removed"] /\ WithoutFlows(FlowsOf(p))
       ELSE UNCHANGED tables
  /\ Turns(j, "idle")
  /\ UNCHANGED <<account, now, claims, late>>

(***************************************************************************)
(* Workflows.                                                              *)
(***************************************************************************)
HasWorkflows == Allows[tier].workflows > 0

\* The project is the one a new workflow is created in, or an old one moved to.
SaveFlow(j, f, p) ==
  /\ job[j] = Free /\ Send
  /\ Writable(p) /\ HasWorkflows
  /\ flow[f].project # "removed"
  /\ Does(j, [Free EXCEPT !.project = p, !.flow = f, !.tier = tier,
                          !.pc = IF f \in FlowRows THEN "setFlow" ELSE "addFlow"])
  /\ UNCHANGED <<now, tables, claims, late>>

\* A workflow needs its project's row; without it the statement throws.
AddFlow(j) ==
  /\ job[j].pc = "addFlow"
  /\ LET f == job[j].flow
         p == job[j].project IN
     flow' = IF /\ Cardinality(FlowRows) < Allows[job[j].tier].workflows
                /\ p \in ProjectRows /\ flow[f].project = "none"
               THEN [flow EXCEPT ![f] = [project |-> p, enabled |-> TRUE]] ELSE flow
  /\ Turns(j, "idle")
  /\ UNCHANGED <<account, now, project, run, claims, late>>

SetFlow(j) ==
  /\ job[j].pc = "setFlow"
  /\ LET f == job[j].flow
         p == job[j].project IN
     \E enabled \in BOOLEAN :
       flow' = IF f \in FlowRows /\ p \in ProjectRows
                 THEN [flow EXCEPT ![f] = [project |-> p, enabled |-> enabled]] ELSE flow
  /\ Turns(j, "idle")
  /\ UNCHANGED <<account, now, project, run, claims, late>>

RemoveFlow(j, f) ==
  /\ job[j] = Free /\ Send
  /\ f \in FlowRows /\ RunsOf(f) = {}
  /\ Does(j, [Free EXCEPT !.flow = f, !.pc = "dropFlow"])
  /\ UNCHANGED <<now, tables, claims, late>>

DropFlow(j) ==
  /\ job[j].pc = "dropFlow"
  /\ IF job[j].flow \in FlowRows
       THEN WithoutFlows({job[j].flow}) /\ UNCHANGED project
       ELSE UNCHANGED tables
  /\ Turns(j, "idle")
  /\ UNCHANGED <<account, now, claims, late>>

(***************************************************************************)
(* Runs.                                                                   *)
(***************************************************************************)
\* The client's side of an identifier (workflows.tsx:113 draws a new one for
\* every click): while a request with it is under way it is sent for the same
\* workflow only.  Later it may be sent for any, also when a deletion freed it.
Apart(r, f) == \A i \in Jobs : job[i].run = r => job[i].flow = f

StartRun(j, r, f) ==
  /\ job[j] = Free /\ Send
  /\ Apart(r, f)
  /\ f \in FlowRows /\ flow[f].enabled
  /\ Writable(flow[f].project) /\ HasWorkflows
  /\ Does(j, [Free EXCEPT !.run = r, !.flow = f, !.pc = "claim"])
  /\ UNCHANGED <<now, tables, claims, late>>

\* The transaction of run(): a known identifier is not executed, it is answered
\* with its row, or refused when the row is another workflow's; old runs are
\* swept; one run at a time, and few in a minute.
\* Mutant: the status is not asked.
OldWhateverStatus(r) == Stored(r) /\ run[r].at < now - SweepAge

Old(r) == run[r].status = "RESERVED" /\ run[r].at < now - SweepAge

Swept == [r \in Runs |-> IF Old(r) THEN [run[r] EXCEPT !.status = "INTERRUPTED"] ELSE run[r]]

\* Mutant: a run that failed may be sent again under its identifier.
RepeatedUnlessFailed(r) == Stored(r) /\ run[r].status # "FAILED"

Repeated(r) == Stored(r)
Running == {r \in Runs : run[r].status = "RESERVED" /\ ~Old(r)}
Recent  == {r \in Runs : Stored(r) /\ run[r].at >= now - RateWindow}

Claimable(r, f) == /\ ~Repeated(r) /\ Running = {} /\ Cardinality(Recent) < RateLimit
                   /\ f \in FlowRows

\* A refusal throws, which takes the sweep back.
Claim(j) ==
  /\ job[j].pc = "claim"
  /\ LET r == job[j].run
         f == job[j].flow IN
     IF Claimable(r, f)
       THEN /\ run' = [Swept EXCEPT ![r] = [status |-> "RESERVED", flow |-> f,
                                            completed |-> 0, at |-> now]]
            /\ claims' = [claims EXCEPT ![r][f] = @ + 1]
            /\ Turns(j, "step")
       ELSE /\ Turns(j, "idle")
            /\ UNCHANGED <<run, claims>>
  /\ UNCHANGED <<account, now, project, flow, late>>

BeginStep(j) ==
  /\ job[j].pc = "step"
  /\ IF job[j].closed
       THEN Turns(j, "catch") /\ UNCHANGED late
       ELSE /\ Does(j, [job[j] EXCEPT !.pc = "generate", !.since = now])
            /\ late' = IF Stored(job[j].run) THEN late
                       ELSE [late EXCEPT ![job[j].run][job[j].flow] = @ + 1]
  /\ UNCHANGED <<account, now, tables, claims>>

\* generate() calls back with SUCCEEDED, or with anything else, or throws.
StepEnds(j) ==
  /\ job[j].pc = "generate"
  /\ \/ Turns(j, "catch")
     \/ ~job[j].closed /\ Turns(j, "count")
  /\ UNCHANGED <<account, now, tables, claims, late>>

\* The update of a row that is gone throws.
CountStep(j) ==
  /\ job[j].pc = "count"
  /\ LET r == job[j].run
         last == job[j].step + 1 = Steps IN
     IF Stored(r)
       THEN /\ run' = [run EXCEPT ![r].completed = @ + 1]
            /\ Does(j, [job[j] EXCEPT !.step = @ + 1,
                                      !.pc = IF last THEN "succeed" ELSE "step"])
       ELSE Turns(j, "catch") /\ UNCHANGED run
  /\ UNCHANGED <<account, now, project, flow, claims, late>>

Succeed(j) ==
  /\ job[j].pc = "succeed"
  /\ LET r == job[j].run IN
     IF Stored(r)
       THEN run' = [run EXCEPT ![r].status = "SUCCEEDED"] /\ Turns(j, "idle")
       ELSE Turns(j, "catch") /\ UNCHANGED run
  /\ UNCHANGED <<account, now, project, flow, claims, late>>

\* Mutant: nothing is recorded for a client that has gone.
CatchIfPresent(j) ==
  /\ job[j].pc = "catch"
  /\ LET r == job[j].run IN
     run' = IF Stored(r) /\ ~job[j].closed
              THEN [run EXCEPT ![r].status = "FAILED"] ELSE run
  /\ Turns(j, "idle")
  /\ UNCHANGED <<account, now, project, flow, claims, late>>

Catch(j) ==
  /\ job[j].pc = "catch"
  /\ LET r == job[j].run IN
     run' = IF Stored(r)
              THEN [run EXCEPT ![r].status = IF job[j].closed THEN "CANCELLED" ELSE "FAILED"]
              ELSE run
  /\ Turns(j, "idle")
  /\ UNCHANGED <<account, now, project, flow, claims, late>>

Executing(j) == job[j].pc \in {"step", "generate", "count", "succeed", "catch"}

\* The client of a run goes away.
Leave(j) ==
  /\ Executing(j) /\ ~job[j].closed
  /\ Does(j, [job[j] EXCEPT !.closed = TRUE])
  /\ UNCHANGED <<account, now, tables, claims, late>>

\* A statement throws inside the try, or the process ends, or a statement
\* throws outside of it.
Throw(j) ==
  /\ job[j].pc \in {"count", "succeed"}
  /\ Fault
  /\ Turns(j, "catch")
  /\ UNCHANGED <<now, tables, claims, late>>

Stop(j) ==
  /\ job[j] # Free
  /\ Fault
  /\ Turns(j, "idle")
  /\ UNCHANGED <<now, tables, claims, late>>

\* A generation keeps its deadline; the statements between two generations
\* take no time on this clock.
Pause ==
  /\ now < MaxTime
  /\ \A j \in Jobs : \/ ~Executing(j)
                     \/ job[j].pc = "generate" /\ now < job[j].since + StepLimit
  /\ now' = now + 1
  /\ UNCHANGED <<account, tables, job, claims, late>>

WorkflowsInit ==
  /\ now = 0
  /\ project = [p \in Projects |-> IF \E f \in Flows : Begins[f] = p THEN "open" ELSE "none"]
  /\ flow = [f \in Flows |-> IF Begins[f] = "none" THEN NoFlow("none")
                             ELSE [project |-> Begins[f], enabled |-> TRUE]]
  /\ run = [r \in Runs |-> Gone]
  /\ job = [j \in Jobs |-> Free]
  /\ claims = [r \in Runs |-> [f \in Flows |-> 0]]
  /\ late = [r \in Runs |-> [f \in Flows |-> 0]]

Execute(j) ==
  \/ AddProject(j) \/ SetProject(j) \/ DropProject(j)
  \/ AddFlow(j) \/ SetFlow(j) \/ DropFlow(j)
  \/ Claim(j) \/ BeginStep(j) \/ StepEnds(j) \/ CountStep(j) \/ Succeed(j) \/ Catch(j)

WorkflowsNext ==
  \/ \E j \in Jobs :
       \/ \E p \in Projects : SaveProject(j, p) \/ RemoveProject(j, p)
       \/ \E f \in Flows : RemoveFlow(j, f) \/ \E p \in Projects : SaveFlow(j, f, p)
       \/ \E r \in Runs, f \in Flows : StartRun(j, r, f)
       \/ Execute(j) \/ Leave(j) \/ Throw(j) \/ Stop(j)
  \/ Pause

-----------------------------------------------------------------------------
WorkflowsTypeOK ==
  /\ now \in 0..MaxTime
  /\ project \in [Projects -> {"none", "open", "archived", "removed"}]
  /\ flow \in [Flows -> FlowRow \cup {NoFlow("none"), NoFlow("removed")}]
  /\ run \in [Runs -> RunRow \cup {Gone}]
  /\ job \in [Jobs -> Job]
  /\ claims \in [Runs -> [Flows -> Nat]] /\ late \in [Runs -> [Flows -> Nat]]

\* While a request executes a run, the run is not taken for interrupted, and no
\* other request executes one, unless the row was deleted under it.
\* workflows.service.ts:141: "No run can exceed 20 steps of the hard 600-second
\* generation ceiling."
LiveRunsKeepClaim ==
  \A j \in Jobs : Executing(j) /\ Stored(job[j].run) =>
    /\ run[job[j].run].status = "RESERVED"
    /\ \A i \in Jobs \ {j} : Executing(i) => ~Stored(job[i].run)

\* A request identifier is executed once for a workflow, however often it is
\* sent, also after its run failed, was interrupted or was deleted; an identifier
\* that a deletion freed may be executed once more for another workflow.
\* workflows.service.ts:186: "Only the transaction that creates the run may call
\* providers."
RunOnce == \A r \in Runs, f \in Flows : claims[r][f] <= 1

\* What the history of a workflow shows stays as it is until it is deleted.
FinishedStays ==
  [][\A r \in Runs : run[r].status \in Terminal => run'[r] \in {run[r], Gone}]_workflows

\* What the status of a run says, which sweeps, executions and deletions write:
\* one that executes keeps its claim; one that succeeded did all its steps; one
\* that is shown as running is worked on, if no process has stopped.
RunsTell ==
  /\ LiveRunsKeepClaim
  /\ \A r \in Runs :
       /\ run[r].status = "SUCCEEDED" => run[r].completed = Steps
       /\ run[r].status = "RESERVED" => \/ \E j \in Jobs : Executing(j) /\ job[j].run = r
                                        \/ faults > 0

\* The execution of a run whose row is deleted begins, and charges, at most one
\* more generation: the update of the row after it throws.
DeletedRunStops == \A r \in Runs, f \in Flows : late[r][f] <= 1

\* What a run costs: its identifier is executed at most once for a workflow, and
\* after its row was deleted one whole generation may still be begun and charged
\* (workflows.service.ts:192-224 asks for the row only after it), never a second.
RunsCostOnce == RunOnce /\ DeletedRunStops

\* Projects and workflows stay within a plan the account had, although a request
\* reads the plan before it locks the account.
CountsWithinPlan ==
  /\ ProjectRows # {} => \E p \in held : Cardinality(ProjectRows) <= Allows[p].projects
  /\ FlowRows # {} => \E p \in held : Cardinality(FlowRows) <= Allows[p].workflows

=============================================================================
