# ResolveOps AI: specification and proofs

ResolveOps AI resolves support cases about suspended customer accounts. Agents
backed by a language model diagnose a case and plan its remediation; a human
operator approves the plan; deterministic code carries it out on two enterprise
systems (a legacy billing service and a CRM) and verifies the result. The
agents may answer anything, so what the system promises rests on the
deterministic part: the stages of a case, the human approval, the executor and
the verifier. This directory models that part in TLA+, checks it with TLC and
proves its safety properties with TLAPS. Around it, it models what feeds
and judges the agents: the guardrail of the investigator, the readiness report,
the policy search, the evaluations and the dashboard's loading. Paths below are
relative to `src/`; `app/` stands for `backend/app/`.

## 1. Inventory

### Components that keep or change the state of a case

| Component | State | Operations | Correct when |
|---|---|---|---|
| Case state and repository (`app/state`) | one JSON payload per case | `save`, `get`, `require`, `list`, `count` | a handler's save reflects what happened; `save` replaces the whole row without a version check, so the last writer wins |
| Investigation workflow (`app/agents/investigation_workflow.py`) | the row | claim, investigate, fail | a case is diagnosed once; a run that died can be taken up again |
| Planning and review workflow (`app/agents/planning_workflow.py`) | the row, a transition counter | planner, reviewer, acceptance without review, escalation | bounded number of revisions and of transitions; a plan put before the operator is the one that was reviewed |
| Approval service (`app/approvals/service.py`) | the row | `decide` | only a reviewed plan with a pending approval of that very plan (digest) is decided, once |
| Deterministic executor (`app/execution/executor.py`) | the row, a coroutine per request | authorize, resume, read back, call, record | only approved actions are carried out, in order; a hold goes only after a payment |
| MCP client and server (`app/execution/mcp_client.py`, `app/mcp`) | tasks in flight | tool calls | an error is never taken for success; `remove_account_hold` writes billing, then CRM |
| Billing and CRM services (`simulator/`) | invoices, payments, holds, accounts | `MatchPayment`, `RemoveAccountHold`, account restore, reads | refuse what does not fit |
| Deterministic verifier (`app/verification/service.py`) | the row, a coroutine per request | four groups of checks, verdict | RESOLVED only when the customer really is restored |
| HTTP API (`app/api/cases.py`) | none | `/approval`, `/execute`, `/verify` | a handler runs from await to await; requests interleave there |

### Other components

| Component | State | Operations | Correct when |
|---|---|---|---|
| Agent run (`app/agents/runtime.py`, `case_manager.py`, `investigator.py`) | a session: call counter, last signature, repeat counter, result | delegate, call tools, refuse, answer | the tool budget and the loop detection hold over concurrent calls; a run ends |
| Data readiness (`app/agents/data_readiness.py`) | the report being made | reads of customer, account, invoices, hold | it says what was true of the two systems together |
| Policy retrieval (`app/retrieval`) | the index file, a cached index in every process | index, load, search | complete answers of visible policies from one embedding model |
| Evaluations (`app/evals`) | a run's tasks and permits, result files | run, score, report, compare | numbers compared with one another count the same cases |
| Evaluation endpoints and page (`app/api/evaluations.py`, `frontend/`) | none | overview, comparison | what is shown together belongs together |
| `useAsync` (`frontend/src/hooks/useAsync.ts`) | data, error, loading | render, load, settle | the latest load wins |
| Planner and reviewer agents | none | free answers within an output schema | schema and conversion modelled, prompts not |
| Billing adapter | none | normalization of the legacy formats | holds and invoice references modelled |
| Metrics, telemetry | counters | tokens, latencies, cost | nothing decides by them |
| Prompt-injection filter | none | redaction in tool answers | not modelled |
| Authentication | none | external tokens | not modelled |
| Configuration | none | settings | those that bound a loop are CONSTANTS |

### How they interact

The row is the only thing the workflows share. Investigation and planning run
as processes of their own (`run_investigation.py`, `run_planning_review.py`,
evaluations) and interleave with everything else between any two repository
calls. Approval, execution and verification are coroutines of one uvicorn
process (`backend/Dockerfile:22` starts one worker; every handler is an
`async def`), so the code between two awaits is atomic with respect to other
requests. The executor calls MCP tools in the MCP server's process; a task
there goes on when its caller has given up or died. The tools call billing and
CRM over HTTP.

What is hard: saves of whole rows from stale snapshots; requests for the same
case that overlap; a crash between an effect and its record; a lost answer;
the two writes of one tool; loops whose bound is counted apart from what it
bounds; systems that are read one after the other while they are written; a
cache and files that are shared by processes. `PROJECT.json` lists these hazards
with their lines and the properties aimed at them.

## 2. Modules

| Module | Models |
|---|---|
| `Domain` | customers, cases, invoices, payments, planned actions, plans |
| `Enterprise` | billing and CRM: `invoice`, `settles`, `hold`, `account` |
| `McpTools` | the tools the executor calls: `call`, with the history `applied` and the bounded `faults` |
| `CaseRow` | the row and `Save` |
| `CaseExecution` | approval, executor, verifier, crash: `req`, with the history `approved` |
| `CaseExecutionProps` | its properties, and the refinement of `CaseLifecycle` |
| `CaseExecution_proofs` | its theorems (types, approval, true records, lifecycle), and the lemmas the composition reuses |
| `CasePlanning` | investigation and planning runs: `run`, with the history `endorsed` |
| `CasePlanningProps` | its properties, and the refinement of `CaseLifecycle` |
| `CasePlanning_proofs` | its theorems, the refinement among them |
| `CaseLifecycle` | the abstract life of a case |
| `CaseWorkflow`, `CaseWorkflowProps` | planning processes and backend over one row, saves not atomic: `view`, `unsaved`, and the operator's page `shown` |
| `CaseWorkflow_proofs` | its theorems, from those of both parts |
| `AgentRun`, `AgentRunProps` | one run of case manager and investigator, with the history `executed` |
| `AgentRun_proofs` | its theorems |
| `DataReadiness`, `DataReadinessProps` | the readiness report, with the history `moments` |
| `DataReadiness_proofs` | its theorems |
| `PolicySearch`, `PolicySearchProps` | indexing commands, the index file, retrievers and searches |
| `PolicySearch_proofs` | its theorems |
| `EvalScoring` | a case's score, a report, a comparison, as operators |
| `EvalRunner`, `EvalRunnerProps` | the concurrent run of a data set, with the history `selected` |
| `EvalRunner_proofs` | its theorems, and that the comparison adds up |
| `EvalArtifacts`, `EvalArtifactsProps` | the result files: who writes, compares and shows them |
| `EvalArtifacts_proofs` | its theorems, and that of `UseAsync` |
| `UseAsync`, `UseAsyncProps` | the loading hook of the dashboard's pages |
| `MC...` | small instances for TLC |

`CaseExecution` extends `CaseRow` and `McpTools` (which extends `Enterprise`);
all of them extend `Domain`. `CasePlanning` extends `CaseRow`. `CaseWorkflow`
instantiates both: `CasePlanning` on `row`, `CaseExecution` on `view`.
`DataReadiness` extends `McpTools`, whose tools are its environment.
`EvalRunner` extends `EvalScoring`.

### How state and actions correspond to the code

* **Row.** A record with the fields of `CaseState` that guard something. Two
  things stand for data: a plan stands for its digest (SHA-256 of its canonical
  JSON), and an action carries `evidence`, which says whether the references it
  cites belong to the case. `tool_calls`, tokens, cost and times are left out.
* **Requests.** `req[s]` is the coroutine in slot `s`: the await it is parked at
  (`pc`), the plan and the position it works on, and the snapshot of the row it
  will write back. An action is the code from one await to the next. For
  example `ActionSucceeded` is the end of `_execute_action` (the save of the
  SUCCESS record) *and* the next turn of the loop in `run` up to the next tool
  call, since no await separates them. (`turn`, a point before an iteration of
  the loop, is used by `CaseWorkflow` alone, which does split it there.)
* **Loop.** `Loop(s, k, rw)` is the body of the executor's loop. `Resume` skips
  positions that already have an outcome, whatever the outcome is.
  `Validation` is `validate_planned_action`, which raises outside the `try`,
  so the request ends and the stage stays EXECUTING. `ReadBack` starts
  `_verify_paid_invoice_before_hold_removal`; `InvoiceReadBack` goes on with it.
* **Tools.** `call[s]` is the task in the MCP server. `Exchange` is one network
  exchange: it works, or it fails and uses up one of `MaxFaults`. A write that
  fails may or may not have been applied. `ActionFailed` with `Exchange(FALSE)`
  is a backend that gives up while the task goes on. A slot with a task in
  progress is not reused.
* **Verifier.** `CheckCrm`, `CheckInvoice`, `CheckHold`, then `Verdict`, which
  saves the snapshot taken at the start. The two CRM reads are one step: the
  customer they read first never changes.
* **Planning.** A process may be preempted between any two repository calls, so
  each action of `CasePlanning` makes at most one, and the row is read and
  written in different steps. The verdict, the plan and the outcome of an
  investigation are chosen freely.
* **Composition.** In `CaseExecution` alone, a handler's read of the row and the
  save that follows without an await are one step, which is right among
  coroutines of one process. A planning process may save in between. In
  `CaseWorkflow` the backend works on `view`, the rows as its current stretch of
  code has them; what the stretch changes is in `unsaved` until `SaveCase`
  writes it to `row`. The executor's loop, which reads the row again in each
  turn, is split into `Turn`s, and no other coroutine runs until the turn is
  parked at an await or has saved (`Free`). `OpenPage` is what the operator has
  on the screen; the approval request carries no digest of it, only the decision.
* **Agent run.** The agent framework calls the guardrail of each tool call of a
  response without an await inside it, and runs the calls as concurrent tasks:
  `Allow`, `Refuse`, `ToolEnded` and `ToolRaises` are steps of task `k`. A call is
  its tool and its arguments, so that equality of calls is equality of
  `_tool_signature`s.
* **Readiness report.** One action per request of `assess_data_readiness`. The
  tools write billing and the CRM in two steps (`McpTools`), so the reads may
  fall between them. `moments` collects what account and hold were together
  since the assessment was started. The comparison of owners after a successful
  read of an invoice (`app/agents/data_readiness.py:312-331`) is left out: billing
  has refused such an invoice already (`RefusedAs`).
* **Policy search.** A document stands for its chunks. `write_text` truncates
  and then writes (`OpenFile`, `WriteFile`); two commands that overlap may leave
  the tail of the longer text. Which visible chunks score best is a choice.
* **Evaluations.** A score that may be `None` is a set with at most one member,
  and a rate is its two counts, so nothing is rounded. Percentiles are times
  100. `FinalStatesOf` stands for what the agents of a variant leave behind;
  latency is an input. A run evaluates the first `n` cases (`--limit`, or all);
  `--case`, which evaluates one case by its id and writes to the smoke directory,
  is left out of `EvalRunner`. `EvalArtifacts` keeps of a report its data set version,
  its cases, its scoring, and whether `--output` named the file.
* **Hook.** The number of a load stands for its answer. Unmounting runs the same
  cleanup as the next effect and ends the component, so it is not a step.
* **History variables.** `applied`, `approved`, `endorsed`, `executed`, `moments`,
  `selected` and the field `taken` of `page` record what happened. No guard reads
  them.

### Abstract specification

`CaseLifecycle` has the stage, the plan, the number of revisions and the number
of actions carried out. It says that a case goes through its stages in order,
that revisions are bounded, that verification begins only when every action of
the plan was carried out, and that RESOLVED, ESCALATED and FAILED are final.
`CasePlanning` and `CaseExecution` implement it (`FollowsLifecycle`) while the
runs or requests for a case come one at a time. With overlapping requests
`CaseExecution` does not: `execution_revived` shows how.

## 3. Runs

| Run | Question | Bounds |
|---|---|---|
| `execution_overlap` | what no interleaving of two requests for a case may do | 1 case, 2 slots, 2 faults, 7 plans, 3 data sets |
| `execution_serial` | does a case follow its lifecycle, and is every request answered | as above, one request at a time |
| `execution_revived` | are closed cases final, as the documents say (section 5) | 1 case, 2 slots, no fault, 1 plan |
| `planning_serial` | does planning follow the lifecycle and stay within its transitions | 1 run at a time, 3 revisions (the largest setting) |
| `planning_overlap` | which plan waits for the operator when runs overwrite one another, and does every run end, unless it dies | 2 runs, 1 revision (the default), 2 plans |
| `workflow_interleaved` | what late planning runs may do to a case that is decided, executed and verified | 1 case, 3 starts of 2 runs, 1 request slot, 1 fault, 2 plans that differ |
| `agent_guardrail` | do budget and loop detection survive concurrent calls, refusals and delegation, and does the run end | 7 model calls, 2 tool calls in a response, a budget of 5, 3 calls to choose from |
| `policy_searches` | what does a process answer while the index is written, torn, kept and made with other embeddings | 2 commands, 1 process, 1 search at a time, 3 documents, 3 embeddings, 1 fault |
| `readiness_reads` | is the report true of the two systems together | 2 tool calls of other cases at a time, 2 faults, customers with and without a billing id |
| `eval_runs` | are reports complete, and do two of them compare like with like | 3 cases, 2 permits, 2 runs of any variants over 0, 2 or 3 cases |
| `eval_files` | what do runs, comparison, kills and edits leave in the files, and what does the dashboard show of them | 2 runs, at once or in turn, 1 comparison at a time, 1 kill or edit, 1 page load, 2 versions |
| `useasync_loads` | which load's outcome is shown | 4 loads |

All pass but `execution_revived`, which finds its property violated.

The plans of `MCPlans` are chosen by what the code can do with them: one match
and a hold removal; two matches, so that the read-back has an order and
execution resumes in the middle; the same match twice, since the verifier counts invoices once;
a pair whose amounts differ, which billing refuses; unknown evidence, which
`validate_planned_action` refuses half-way; a match alone and a hold removal
alone, which the verifier and the executor refuse. The data sets have every invoice overdue,
one paid already, and no hold. Two slots are enough for a stale save: one
request reads, another one writes, the first one writes back. Two faults let a
call fail and the backend crash in one behaviour; the second fault also lets
the second request fail. The constants bound nothing else:
`MaxLive` is the number of requests served at once, and `MaxFaults` is needed
since failures are otherwise unbounded.

Of the composition: three starts let a run begin before the decision, replace
the plan after it, and let another one close the case; two plans over different
invoices and payments make it visible which one is carried out. One request
slot is enough there, since overlapping requests are the subject of
`execution_overlap`; `MaxStarts` bounds the runs started, `MaxRevisions` is 0
because revisions are the subject of the planning runs.

Of the others: seven model calls are enough for two delegations with several
responses each, and a budget of five for loops on both sides of the limit and
a budget exhausted in the middle of a response (`MaxBatch` is two). In
`policy_searches` the three embeddings are two of one model and two of one
number of dimensions, and `TopK` is smaller than the documents so that filtering
matters. `eval_runs` has more cases than permits, a case to escalate, and two
runs so that any two variants are compared; `MaxRuns`, `MaxEdits` and `MaxLoads`
count commands, kills or edits, and loads of the dashboard; `MaxRenders` those of
one mounted component.
`eval_files` may start with the reports of two variants, so that the two runs
are the third report and a replacement of one while it is read; its command
slots are alike and are treated as symmetric. So are, in `workflow_interleaved`,
the slots and the two plans together with their invoices and payments.

Two cases of one customer are not checked by a run of their own: that the
approval of one never authorizes the other is proved for any number of cases
(section 4), and so is every other invariant that a run checks.

Six assumptions about data: a manifest lists finitely many documents
(`PolicySearchAssumption`); a data set is a list of cases with unique evaluation ids
(`EvalRunnerAssumption`), as in `data/evals`; an operator who names an output
file with `--output` names one of the report files; the simulators' data has no
customer with an active hold and an active account; whoever changes the cases
of a data set changes its version, so a version has one set of cases
(`CasesOf`); a report of the former scoring does not pass
`EvalReport.model_validate`. The last one is an inference: `scoring_version` has
a default (`app/evals/models.py:109`), but the present scoring brought in fields
that are required, `strict_passed_cases` and `strict_pass_rate` among them
(122-123), and the comparison file in the repository, which is of the former
scoring, has none of them.

Deadlock is not checked in any run: the system rests when nobody has a request.
A closed case with no request in progress has nothing left to do, an agent run
has ended, nobody has to search, evaluate or load a page again.

### Properties

* `OnlyApprovedEffects`: a system is changed only by an action of a plan that a
  human approved for that case.
* `HoldLiftedOnlyAfterPayment`: the hold goes only if an invoice matched
  earlier in that plan is PAID.
* `RestoredOnlyAfterHoldRemoval`: the CRM account is restored only for a hold
  removal that reached billing.
* `ResolvedMeansRestored`: RESOLVED means that the account is ACTIVE, the hold
  gone and every invoice recorded as matched PAID, though the verdict is saved
  from a stale snapshot. It holds because these facts are stable in this system.
* `SuccessWasApplied`: a SUCCESS record is never invented, only lost.
* `ExecutedFollowsPlan`: records line up with the plan.
* `WritesStartWhileExecuting`, `FollowsLifecycle`: with one request at a time.
* `RequestsFinish`, `ExecutionSettles`, `RunsFinish`: liveness.
* `WaitingPlanWasJudged`: a waiting plan has its own digest, and a review that
  approved it approved that plan and no other.
* `TransitionsSuffice`: the bound `2 + 2 * max_plan_revisions` is never what
  ends a run when runs come one at a time.
* `NoDecisionBeforeItsTime`: a decision in the row is about the plan in the row
  and the row is not waiting for one, so an approval is never used twice. Every
  planning save takes the whole row it read, approval included, and a row that
  can be planned has no decision.
* `DecidableWhenReviewed`: a case that asks for a decision can be decided if its
  plan was reviewed, whatever runs saved before, and only then.
* `BudgetKept`, `LoopsAreBroken`, `RunEnds`: no more calls reach a tool than
  allowed and counted, no three equal ones in a row, and the run ends.
* `SnapshotWasReal`, `ConflictsAreReported`, `AssessmentEnds`: the report reads
  the account before the hold and the tool writes it after the hold. That
  is why the pair in a complete report was true at one moment; with the
  opposite order it need not be.
* `AnswersAreFull`, `AnswersAgreeInDimensions`, `ReadOnceIsEnough`: visible policies
  only, as many as there may be; never ranked with vectors of other dimensions,
  although a refused index stays in the cache; a process that has loaded an index
  of its own embedding no longer depends on the file.
* `ResultsInOrder`: a report has a result of every case that its run was to
  evaluate, none twice and none else, in the data set's order. How many those were
  is in the history `selected`, so a short report violates it as well as a
  shuffled one.
* `SameDenominators`, `ComparisonAddsUp`, `RunsEnd`: two reports are compared by
  counts of the same cases, and every run comes to its report.
* `ReportsAreFull`, `ComparisonIsPaired`: what the result files promise with commands
  that overlap and are killed. Reports that `--output` put in a variant's place are
  excepted from the first.
* `FallbackGivesWay`: once a run has put its report into a variant's place
  (`page.taken`), a load of the dashboard that begins later does not meet an old
  report there, neither the fallback's nor the place's former one, though the file
  may be torn at any moment. It holds because `_resolve_multi_agent_path` asks
  whether the file exists, not whether it can be read.
* `SettledIsCurrent`, `LoadingEnds`: the loading hook.

### Fairness

`CaseExecution!FairSpec` is weakly fair to each slot's coroutine and to each
slot's tool task: the event loop runs what is ready, and the HTTP clients of
billing and CRM have a timeout of 10 seconds, so no exchange lasts. It is not
fair to the operator, who may never decide, execute or verify, nor to crashes.
`CasePlanning!FairSpec` is weakly fair to each started run: an agent has at
most `max_llm_calls` calls and answers or raises. Starting a run is not fair,
and neither is its death, which would end it for the wrong reason.
`AgentRun!FairSpec` is weakly fair to the run: a model or a tool answers or
raises. That the run ends is due to `max_llm_calls`, not to fairness alone.
`DataReadiness!FairSpec` is weakly fair to a started assessment, whose requests
time out after 10 seconds. `EvalRunner!FairSpec` is weakly fair to a started
evaluation run: a case's pipeline returns or raises, as the runs of its agents
are bounded. `FairHookSpec` is weakly fair to the effect that follows a
render and to each load, which the browser's `fetch` answers or fails.
`CaseWorkflow`, `PolicySearch` and `EvalArtifacts` state no fairness; they are
checked for safety.

## 4. Proofs

Every theorem below is checked by TLAPS to its last leaf and holds for every
value of the constants that the named assumptions admit: any number of cases,
customers, requests, runs and failures, and plans of one to four actions of any
kind. TLC evaluates those assumptions in the runs.

| Module | Theorem | States |
|---|---|---|
| `CaseExecution_proofs` | `TypeCorrect` | `TypeOK` |
| | `ApprovedEffects` | `OnlyApprovedEffects` |
| | `HoldAfterPayment` | `HoldLiftedOnlyAfterPayment` |
| | `RestoredAfterRemoval` | `RestoredOnlyAfterHoldRemoval` |
| | `RecordedSuccess` | `SuccessWasApplied` |
| | `RecordsLineUp` | `ExecutedFollowsPlan` |
| | `ResolvedRestored` | `ResolvedMeansRestored` |
| | `SerialFollowsLifecycle` | `FollowsLifecycle`, if `MaxLive <= 1` |
| | `SerialWritesWhileExecuting` | `WritesStartWhileExecuting`, if `MaxLive <= 1` |
| | `SerialTerminalIsFinal` | `TerminalStagesAreFinal`, if `MaxLive <= 1` |
| `CasePlanning_proofs` | `TypeCorrect` | `TypeOK` |
| | `WaitingPlansJudged` | `WaitingPlanWasJudged` |
| | `TransitionsAreEnough` | `TransitionsSuffice`, if `OneRun` |
| | `SerialRunsFollowLifecycle` | `FollowsLifecycle`, if `OneRun` |
| `CaseWorkflow_proofs` | `TypeCorrect` | `TypeOK` |
| | `ApprovedEffects` | `OnlyApprovedEffects` |
| | `HoldAfterPayment` | `HoldLiftedOnlyAfterPayment`, in the composition |
| | `DecisionsInTime` | `NoDecisionBeforeItsTime` |
| | `ReviewedIsDecidable` | `DecidableWhenReviewed` |
| | `ResolvedRestored` | `ResolvedMeansRestored` |
| `AgentRun_proofs` | `TypeCorrect` | `TypeOK` |
| | `BudgetIsKept` | `BudgetKept` |
| | `RepeatsAreBroken` | `LoopsAreBroken` |
| `DataReadiness_proofs` | `SnapshotsWereReal` | `SnapshotWasReal` |
| | `ConflictsReported` | `ConflictsAreReported` |
| `EvalRunner_proofs` | `TypeCorrect` | `TypeOK` |
| | `ConcurrencyIsKept` | `AtMostConcurrency`: no more cases in their pipelines than permits |
| | `OrderedResults` | `ResultsInOrder` |
| | `EqualBases` | `SameDenominators` |
| | `DeltasAddUp` | `ComparisonAddsUp` |
| `EvalArtifacts_proofs` | `TypeCorrect` | `TypeOK` |
| | `FullReports` | `ReportsAreFull` |
| | `PairedComparison` | `ComparisonIsPaired` |
| | `OwnReportsPrevail` | `FallbackGivesWay` |
| | `ShownIsCurrent` | `SettledIsCurrent` of `UseAsync` |
| `PolicySearch_proofs` | `TypeCorrect` | `TypeOK` |
| | `FullAnswers` | `AnswersAreFull` |
| | `ComparableAnswers` | `AnswersAgreeInDimensions` |
| | `OneReadIsEnough` | `ReadOnceIsEnough` (an action property) |

Three theorems of `CaseExecution` assume `MaxLive <= 1`, two of `CasePlanning`
assume `OneRun` (there is one run slot). Without it they are false: a stale save
takes a case back, as `execution_revived` shows and section 5 explains. No theorem assumes
anything else than the named assumptions of the modules: `DomainAssumption`
(a plan is a sequence of one to four planned actions, `None` is neither an
invoice nor a payment), `EnterpriseAssumption` (the data sets are well-typed),
the bounds (`McpAssumption`, `MaxLiveAssumption`, `MaxRevisionsAssumption`,
`WorkflowAssumption`), and those of `AgentRun`, `DataReadiness`, `PolicySearch`,
`EvalRunner`, `EvalArtifacts` and `UseAsync`.

### Execution

None of the properties is inductive. `TypeOK` itself needs two facts: an
executor that waits for a tool is at a position of its plan, and only a hold
removal goes on to the CRM (`TypeInv`).

*Approval.* An effect is applied by a task that was started by a coroutine that
was authorized by a row, each some steps earlier, and the row may have changed
since. `SafetyInv` carries the approval along that way:

* `EarnedRows`: the plan that an APPROVED record in a row names by its digest
  is in `approved`. Only `Decide` makes such a record, and a stale save writes
  a snapshot that was earned before, since `approved` only grows.
* `SlotSafe(s)`: the snapshot of the coroutine is earned; the plan of one that
  executes is approved for its case; while it waits for a read-back, the tool
  looks up the invoice of an earlier match, and the answer `paid` means that
  this invoice is PAID; and the task of the slot, if it is to write, performs
  an action of an approved plan, for a hold removal after a PAID invoice. The
  last part speaks of the task alone, so it survives a crash and a backend that
  gives up.
* `EffectsJustified`: what was applied is an action of an approved plan, after
  a PAID invoice for hold removals.

That an invoice once PAID stays PAID, which billing guarantees, is what makes
the read-back of the executor sufficient.

*Records.* Whatever is true of a row must be true of every snapshot that a
coroutine may still save over it. `RecordInv` says of rows and snapshots alike
that recorded successes reached their systems (`Recorded`), that records line up
with the plan (`LinesUp`) and that RESOLVED is earned (`Resolved`). It ties the
record to come to the tool call that earns it: the position of a waiting
executor is the first one without a record, its call is for that position, and
the answer `ok` means that the effects are there (`CallTrue`). The verifier's
checks are spread over several awaits; a passed one stays passed because
invoices stay PAID, accounts ACTIVE and holds lifted (`Onward`).

*Lifecycle.* With one request at a time a coroutine's snapshot *is* the row, so
a stale save is none, and a case that is still to be carried out has successful
records only (`SerialInv`). Each step is then a step of `CaseLifecycle` or a
stutter (`RowMove`), which is what fails when requests overlap. The refinement
counts the successful records with the library's facts about finite sets.

### Planning

A step of any run is first reduced to its outline (`NextOutline`): one run goes
on, and either nothing is saved and the snapshot is the row as it is (`Reads`),
or the run saves what its handler makes of its snapshot (`Writes`, `Makes`). The
invariants are then proved over outlines, not over actions. `TypeInv` adds to the
types that a row under review has a plan, or the reviewer could endorse none,
and that a run that is to plan or review has a transition left. Waiting plans
are judged because the approval, the review and the plan are saved together by
the run that has just endorsed that plan. With one run, `SerialInv` says that the
snapshot is the row and that the transitions left are at least those the
revisions still allow (`Remaining`).

### The composition

`CaseWorkflow_proofs` instantiates the proof modules of its parts, the backend's
with `view` for the rows. Its first lemmas show that a step of a part is a step
of the instantiated module; the rest is about what happens between the parts.
`WorkflowInv` has the invariants of the parts and says that stored rows are
earned and sound (`SoundRow`: a decision is about the plan in the row and comes
after the stages that wait for one; a row that waits has a pending approval of
its own plan). A planning run holds only undecided snapshots (`OpenRuns`), so
what it saves over a decided row is undecided again and never a mixture; this
makes `NoDecisionBeforeItsTime` and `DecidableWhenReviewed` inductive. `SafetyInv`
survives a planning run that replaces the rows because it ties the executor to
the plan it checked, not to the plan in the row. `RecordInv` does not survive it: a
row may lose its records and get another plan, so `ExecutedFollowsPlan` is false
there. What `ResolvedMeansRestored` needs is the part of it that mentions neither
the plan nor the history: `Confirmed` rows, in the store, in the view, and in
every snapshot of a coroutine or a run (`FactsInv`). A run keeps the records it
read and resolves nothing (`OutlineKeeps`), and the systems take nothing back
(`Lasting`).

### The other components

* `AgentRun` (`RunInv`): the two fields of the guardrail's state describe the end
  of the history of executed calls (`TailRemembered`), whatever was refused in
  between.
* `DataReadiness` (`ReadInv`): a hold that is there holds its account still, since
  the tool writes billing first, and no hold comes back. So the pair that the
  report may yet end with was observed before the hold is read (`Pending`), and
  the order of the two reads is what the proof rests on.
* `PolicySearch` (`SearchInv`): a search under way uses the index that its process
  has kept, and what a process has kept it keeps until it restarts, which ends
  its searches.
* `EvalArtifacts` (`FilesInv`): what holds of a file holds of the report a command
  is still to write there; what a comparison has accepted so far is of the
  present scoring, and it opens its output only after it has validated all
  reports together. A place that a run has taken stays taken, by whole reports of
  the present scoring or by torn files (`TakenStays`, from `CommandsCurrent`: no
  command is to write an old report). So what a load read in a place that was taken
  when it began is neither the fallback nor an old report (`PageKeepsUp`).
* `EvalRunner` (`RunnerInv`): what waits to be gathered is one score for each task
  that is done, and a report is built of one score for each of the first cases
  of the data set (`Sound`), as many as were selected (`SelectionKept`). `Scores(k)` are the scores that the k-th case may
  get, that of a pipeline that raised among them. The rest is counting. When all
  tasks are done, their places in the order of completion are a bijection onto
  the positions, so the entry with k - 1 smaller ones is the k-th case
  (`GatheredInOrder`). All scores of a case agree on which metrics apply to it
  (`Fits`), and comparable reports are of the same cases because ids are not
  repeated, so both denominators are sizes of one set. Two pass counts differ by
  the sizes of the two set differences. The library's facts about finite sets
  carry all of it without induction. The semaphore's range does not follow from
  its type: `PermitsHeld` says that the permits and the tasks inside add up.
* `UseAsync` (`HookInv`): of the loads asked for, only that of the latest effect is
  not cleaned up, so only it may write what is shown, and it does so before it
  ends the loading.

TLC confirmed each inductive invariant on an instance before it was proved:
`SafetyInv` and `RecordInv` on `execution_overlap`, `SerialInv` on
`execution_serial` and `planning_serial`, `TypeInv` of planning on
`planning_overlap`, `WorkflowInv` and `FactsInv` on `workflow_interleaved`, the
others on `agent_guardrail`, `readiness_reads`, `policy_searches`, `eval_runs` and
`eval_files`.

### Only model-checked

* All liveness (`RequestsFinish`, `ExecutionSettles`, `RunsFinish`, `RunEnds`,
  `AssessmentEnds`, `RunsEnd`, `LoadingEnds`): fairness and `ENABLED` are beyond
  the prover.
* That the types of `DataReadiness` are kept in full: the list of invoices to look
  up is made with a fold over a sequence, and what a fold returns for every
  input needs induction. `ReadInv` has the types its theorems need.
* `Percentile` (latencies of a report): it sorts with an operator of the standard
  module `TLC` that the prover does not expand. No property depends on it.

Every invariant that a run checks is a theorem.

No module declares a RECURSIVE operator.

## 5. Where the code and its documents differ

* **Closed cases are reopened** (`execution_revived`). The architecture diagram
  calls RESOLVED, ESCALATED and FAILED terminal
  (`frontend/src/components/diagrams/ArchitectureDiagram.tsx:42`). Two
  executions of one case overlap; one fails and saves FAILED; the other one
  saves VERIFYING over it (`app/execution/executor.py:343`). A planning run that
  read the row before a case was RESOLVED opens it in the same way
  (`app/agents/planning_workflow.py:363`).

Observations made while modelling. The models have each of these behaviours, and
none of the properties forbids it:

* **A repeated hold removal is refused.** `app/mcp/metadata.py:134` declares the
  tool idempotent; billing answers HOLD_ALREADY_REMOVED
  (`simulator/billing/main.py:208`) and the case fails, after a crash between the
  removal and its record.
* **A hold-only plan always fails** in the executor (`app/execution/executor.py:456`),
  though `documents/policies/account-hold-runbook.md:27-29` calls it correct.
* **A match-only plan always fails verification** (`app/verification/service.py:226`),
  though `documents/policies/multi-invoice-suspension-policy.md:25-33` allows it.
* **A plan may be approved unseen.** The approval request does not say which plan
  was on the screen, and `decide` compares the stored digest with the stored
  plan (`app/approvals/service.py:107-115`), which a planning run writes together.
* **A plan without a review cannot be decided.** The page offers both decisions
  (`frontend/src/pages/CaseDetailPage.tsx:201-206`), `decide` refuses both;
  `DecidableWhenReviewed` says so.
* **An index of another embedding model is used** from the second search on:
  `_load_index` caches before it validates (`app/retrieval/retriever.py:95-119`).
  Only the number of dimensions is checked again, by the arithmetic.
* **A failed hold lookup is reported as a conflict** and as "no active hold"
  (`app/agents/data_readiness.py:340`, `421-440`).
* **The dashboard may mix data set versions** under the version of the first
  report (`app/api/evaluations.py:98`).
* **A report of the former scoring fails the whole overview.** Without
  `multi_agent.json` the endpoint reads `multi_agent_v1.json`
  (`app/api/evaluations.py:35-42`). A file of the former scoring does not validate,
  and the loop over the variants catches `HTTPException` only (83-96), so the
  request ends in an error though the other variants could be shown. The same goes
  for an old file in any variant's own place. The model keeps this apart as the
  page `invalid`.

Four more, which the models leave out or no document contradicts. The dashboard
serves whatever comparison the file holds, also one of the former scoring
(`app/api/evaluations.py:113`). A plan whose
second action cites unknown evidence leaves the case in EXECUTING with its first
action carried out. The single-agent baseline leaves the row of a case that
raised in INVESTIGATING (`app/evals/single_agent.py:351`). A call that the
guardrail refused is measured with the start time of another call
(`app/agents/investigator.py:256-285`), since that time belongs to the session.

## 6. Not modelled

* Prompts, and what the language models make of them: an agent may answer
  anything its output schema allows.
* The prompt-injection filter (`app/security`) and the legacy formats of billing
  beyond holds and invoice references (`app/integrations/billing/adapter.py`):
  stateless text processing, for which unit tests with examples say more than a
  model over abstract values.
* Authentication (`app/auth/google.py`): verification by an external service; every
  modelled request is an operator's.
* Tokens, latencies, cost and telemetry (`app/observability`,
  `app/agents/metrics.py`, `callbacks.py`): nothing decides by them. That an
  evaluation case that raised counts with zero latency and cost is visible in
  `ScoreErrorCase`.
* Read-only handlers that make one read (`app/api/system.py`, the case, data set
  and showcase endpoints), and rendering (`frontend/`).
* The smoke agents, which are demonstrations.

## 7. Plan

Every component with state is modelled, and every invariant the runs check is
proved. What is left:

1. The read-only handlers of the evaluation API (`app/api/evaluations.py`) beyond the
   overview, should they ever make more than one read.
2. The formats of the billing adapter (`app/integrations/billing/adapter.py`), as
   operators checked against a reference, should legacy formats come to decide
   more than they do.
