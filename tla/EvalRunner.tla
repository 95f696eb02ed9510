------------------------------ MODULE EvalRunner ------------------------------
(***************************************************************************)
(* The evaluation runner (backend/app/evals/runner.py): the cases of a     *)
(* dataset as asyncio tasks behind a semaphore, every one of which scores  *)
(* what its pipeline left or raised, and a report when all have ended.     *)
(***************************************************************************)
EXTENDS EvalScoring

CONSTANTS
    Dataset,        \* EvalDataset.cases
    Tools,          \* the tools a plan may call
    FinalStatesOf,  \* the rows that each variant's pipeline may leave
    Selections,     \* how many cases to run: --limit, or all
    Concurrency,    \* --concurrency
    MaxRuns         \* bound: runs of the command

Variants == {"multi_agent", "single_agent", "no_reviewer"}

ASSUME EvalRunnerAssumption ==
    /\ Dataset \in Seq({Dataset[k] : k \in DOMAIN Dataset})
    /\ \A j, k \in DOMAIN Dataset : Dataset[j].id = Dataset[k].id => j = k
    /\ \A variant \in Variants : FinalStatesOf[variant] \subseteq FinalStates(Tools)
    /\ Selections \subseteq 0..Len(Dataset)
    /\ Concurrency \in Nat \ {0}
    /\ MaxRuns \in Nat

VARIABLES
    run,        \* the run in progress: its variant, tasks and permits
    finished,   \* the tasks that have ended, in that order: index and result
    reports,    \* the report of each variant, as a set of at most one
    selected,   \* history: the number of cases that the run in progress, and the
                \* one that left each report, had to evaluate
    runs        \* runs so far

vars == <<run, finished, reports, selected, runs>>

TypeOK ==
    /\ run \in [variant : Variants \cup {"none"},
                task : UNION {[1..n -> {"waiting", "investigating", "planning",
                                        "solo", "done"}] : n \in Selections \cup {0}},
                permits : 0..Concurrency]
    /\ Len(finished) <= Len(run.task)
    /\ \A k \in DOMAIN finished : finished[k].result.id = Dataset[finished[k].index].id
    /\ DOMAIN reports = Variants
    /\ selected \in [run : Selections \cup {0}, report : [Variants -> Selections \cup {0}]]
    /\ runs \in 0..MaxRuns

NoRun == [variant |-> "none", task |-> << >>, permits |-> Concurrency]

Init ==
    /\ run = NoRun
    /\ finished = << >>
    /\ reports = [variant \in Variants |-> {}]
    /\ selected = [run |-> 0, report |-> [variant \in Variants |-> 0]]
    /\ runs = 0

RunDataset(variant, n) ==
    /\ run.variant = "none"
    /\ runs < MaxRuns
    /\ runs' = runs + 1
    /\ run' = [NoRun EXCEPT !.variant = variant,
                            !.task = [k \in 1..n |-> "waiting"]]
    /\ selected' = [selected EXCEPT !.run = n]
    /\ UNCHANGED <<finished, reports>>

EvaluateReview == run.variant = "multi_agent"

\* asyncio wakes the tasks that wait for the semaphore in their order.
EnterSemaphore(k) ==
    /\ run.task[k] = "waiting" /\ run.permits > 0
    /\ \A j \in 1..(k - 1) : run.task[j] # "waiting"
    /\ run' = [run EXCEPT !.permits = @ - 1,
                  !.task[k] = IF run.variant = "single_agent" THEN "solo"
                                                              ELSE "investigating"]
    /\ UNCHANGED <<finished, reports, selected, runs>>

\* Leaving the semaphore with a result.
Finish(k, result) ==
    /\ run' = [run EXCEPT !.permits = @ + 1, !.task[k] = "done"]
    /\ finished' = Append(finished, [index |-> k, result |-> result])
    /\ UNCHANGED <<reports, selected, runs>>

\* run_investigation_case has not found a cause: the case is over.
InvestigationEscalates(k) ==
    /\ run.task[k] = "investigating"
    /\ \E s \in FinalStatesOf[run.variant] :
          /\ s.stage = "ESCALATED" /\ s.plan = NoPlan
          /\ Finish(k, ScoreCase(Dataset[k], s, EvaluateReview))

InvestigationFindsCause(k) ==
    /\ run.task[k] = "investigating"
    /\ run' = [run EXCEPT !.task[k] = "planning"]
    /\ UNCHANGED <<finished, reports, selected, runs>>

\* run_planning_review_case, or run_single_agent_case, has returned.
PipelineReturns(k) ==
    /\ run.task[k] \in {"planning", "solo"}
    /\ \E s \in FinalStatesOf[run.variant] :
          /\ run.task[k] = "planning" => s.plan # NoPlan
          /\ Finish(k, ScoreCase(Dataset[k], s, EvaluateReview))

InPipeline(k) == run.task[k] \in {"investigating", "planning", "solo"}

\* Mutant: the permit of a case that raised is lost.
PipelineKeepsPermit(k) ==
    /\ InPipeline(k)
    /\ run' = [run EXCEPT !.task[k] = "done"]
    /\ finished' = Append(finished, [index |-> k,
                              result |-> ScoreErrorCase(Dataset[k], EvaluateReview)])
    /\ UNCHANGED <<reports, selected, runs>>

PipelineRaises(k) ==
    /\ InPipeline(k)
    /\ Finish(k, ScoreErrorCase(Dataset[k], EvaluateReview))

\* Mutant: the results in the order in which the tasks ended.
AsCompleted == [k \in DOMAIN finished |-> finished[k].result]

\* gather and the sort by index: the k-th result is that of the task which
\* k - 1 of the finished ones precede.
Gathered ==
    LET before(j) == {i \in DOMAIN finished : finished[i].index < finished[j].index}
    IN  [k \in DOMAIN finished |->
            finished[CHOOSE j \in DOMAIN finished : Cardinality(before(j)) = k - 1].result]

WriteReport ==
    /\ run.variant # "none"
    /\ \A k \in DOMAIN run.task : run.task[k] = "done"
    /\ reports' = [reports EXCEPT ![run.variant] = {BuildReport(run.variant, Gathered)}]
    /\ selected' = [run |-> 0, report |-> [selected.report EXCEPT ![run.variant] = selected.run]]
    /\ run' = NoRun
    /\ finished' = << >>
    /\ UNCHANGED runs

TaskStep(k) ==
    \/ EnterSemaphore(k)
    \/ InvestigationEscalates(k)
    \/ InvestigationFindsCause(k)
    \/ PipelineReturns(k)
    \/ PipelineRaises(k)

RunStep == WriteReport \/ \E k \in DOMAIN run.task : TaskStep(k)

Next ==
    \/ \E variant \in Variants, n \in Selections : RunDataset(variant, n)
    \/ RunStep

Spec == Init /\ [][Next]_vars

\* A pipeline returns or raises: its agents' runs are bounded (AgentRun).
FairSpec == Spec /\ WF_vars(RunStep)
=============================================================================
