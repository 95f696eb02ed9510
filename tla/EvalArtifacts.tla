---------------------------- MODULE EvalArtifacts ----------------------------
(***************************************************************************)
(* The files of the evaluations (data/evals): runs of the runner write the *)
(* reports, compare.py reads three of them and writes the comparison, and  *)
(* the API (backend/app/api/evaluations.py) reads them for the dashboard.  *)
(* All are processes of their own.  A file is truncated and then written;  *)
(* what is torn is not JSON.  The scores inside a report are EvalRunner's. *)
(***************************************************************************)
EXTENDS Naturals

CONSTANTS
    Versions,       \* of the dataset file
    CasesOf,        \* the eval ids of each version
    Commands,       \* slots for runs of the runner
    MaxEdits,       \* bound: changes of the dataset file, and killed commands
    MaxRuns,        \* bound: runs of the runner
    MaxLoads        \* bound: times the dashboard is loaded

Variants == {"multi_agent", "single_agent", "no_reviewer"}
Scorings == {"strict-only", "2.0-operational-primary"}
Current  == "2.0-operational-primary"

ASSUME EvalArtifactsAssumption ==
    /\ Versions # {}
    /\ MaxEdits \in Nat /\ MaxRuns \in Nat /\ MaxLoads \in Nat

\* A report: whether --output was given for it is history.
Reports == [version : Versions, cases : SUBSET UNION {CasesOf[v] : v \in Versions},
            scoring : Scorings, explicit : BOOLEAN]

Nothing == [version |-> CHOOSE v \in Versions : TRUE, cases |-> {},
            scoring |-> Current, explicit |-> FALSE]

Paths == Variants \cup {"multi_agent_v1"}

Files == [state : {"absent", "torn", "whole"}, report : Reports]
Absent == [state |-> "absent", report |-> Nothing]

VARIABLES
    dataset,    \* the version in the dataset file
    files,      \* the report files; nothing reads the smoke directory
    comparison, \* final_comparison.json: its state, scoring and reports
    command,    \* the run in each slot
    compare,    \* the comparison being made
    page,       \* the dashboard being loaded, or the last one: the files read,
                \* and, as history, what runs had replaced when it began
    used        \* of the three bounds

vars == <<dataset, files, comparison, command, compare, page, used>>

TypeOK ==
    /\ dataset \in Versions
    /\ files \in [Paths -> Files]
    /\ comparison \in [state : {"absent", "torn", "whole"}, scoring : Scorings,
                       reports : [Variants -> Reports]]
    /\ command \in [Commands -> [pc : {"idle", "run", "open", "write"},
                                 path : Paths \cup {"smoke"}, report : Reports]]
    /\ compare \in [pc : Variants \cup {"idle", "open", "write"},
                    reports : [Variants -> Reports]]
    /\ page \in [pc : Variants \cup {"idle", "comparison", "shown", "failed", "invalid"},
                 from : [Variants -> Paths \cup {"none"}], taken : SUBSET Variants]
    /\ used \in [edits : 0..MaxEdits, runs : 0..MaxRuns, loads : 0..MaxLoads]

IdleCommand == [pc |-> "idle", path |-> "smoke", report |-> Nothing]
IdleCompare == [pc |-> "idle", reports |-> [v \in Variants |-> Nothing]]
IdlePage == [pc |-> "idle", from |-> [v \in Variants |-> "none"], taken |-> {}]

FullReport(scoring) ==
    [state |-> "whole",
     report |-> [Nothing EXCEPT !.cases = CasesOf[dataset], !.scoring = scoring]]

\* The repository comes with a comparison of the former scoring; reports of
\* that time may lie beside it, and the two variants that were measured
\* against the first one may have been evaluated already.
Init ==
    /\ dataset = CHOOSE v \in Versions : TRUE
    /\ \E old \in SUBSET {"multi_agent", "multi_agent_v1"},
          measured \in {{}, {"single_agent", "no_reviewer"}} :
          files = [p \in Paths |-> IF p \in old THEN FullReport("strict-only")
                                   ELSE IF p \in measured THEN FullReport(Current)
                                   ELSE Absent]
    /\ comparison = [state |-> "whole", scoring |-> "strict-only",
                     reports |-> [v \in Variants |-> Nothing]]
    /\ command = [x \in Commands |-> IdleCommand]
    /\ compare = IdleCompare
    /\ page = IdlePage
    /\ used = [edits |-> 0, runs |-> 0, loads |-> 0]

Edit == used.edits < MaxEdits /\ used' = [used EXCEPT !.edits = @ + 1]

EditDataset ==
    /\ Edit
    /\ dataset' \in Versions \ {dataset}
    /\ UNCHANGED <<files, comparison, command, compare, page>>

-----------------------------------------------------------------------------
(* runner.py, async_main *)

Step(x, pc) == command' = [command EXCEPT ![x].pc = pc]

\* default_output_path: --limit and --case go to the smoke directory.
DefaultOutputPath(variant, limited) ==
    IF limited THEN "smoke" ELSE variant

\* load_dataset; --limit or --case leaves some of its cases, --output names a
\* file in place of the default one.
StartRun(x, variant, limited, explicit) ==
    /\ command[x].pc = "idle"
    /\ used.runs < MaxRuns /\ used' = [used EXCEPT !.runs = @ + 1]
    /\ \E path \in IF explicit THEN Paths ELSE {DefaultOutputPath(variant, limited)},
          cases \in IF limited THEN SUBSET CasesOf[dataset] ELSE {CasesOf[dataset]} :
          command' = [command EXCEPT ![x] =
             [pc |-> "run", path |-> path,
              report |-> IF path = "smoke" THEN Nothing
                         ELSE [version |-> dataset, cases |-> cases,
                               scoring |-> Current, explicit |-> explicit]]]
    /\ UNCHANGED <<dataset, files, comparison, compare, page>>

\* Mutant: the report names the version that the dataset file has at the end.
RunEndsReloading(x) ==
    /\ command[x].pc = "run"
    /\ command' = [command EXCEPT ![x].pc = "open", ![x].report.version = dataset]
    /\ UNCHANGED <<dataset, files, comparison, compare, page, used>>

\* run_dataset has returned and build_report has made the report.
RunEnds(x) ==
    /\ command[x].pc = "run"
    /\ Step(x, "open")
    /\ UNCHANGED <<dataset, files, comparison, compare, page, used>>

Store(path, file) ==
    files' = IF path = "smoke" THEN files ELSE [files EXCEPT ![path] = file]

\* write_text, first half
OpenReport(x) ==
    /\ command[x].pc = "open"
    /\ Step(x, "write")
    /\ Store(command[x].path, [state |-> "torn", report |-> Nothing])
    /\ UNCHANGED <<dataset, comparison, compare, page, used>>

\* write_text, second half: after another run's, the longer text may show.
WriteReport(x) ==
    LET path == command[x].path
    IN  /\ command[x].pc = "write"
        /\ command' = [command EXCEPT ![x] = IdleCommand]
        /\ \/ Store(path, [state |-> "whole", report |-> command[x].report])
           \/ /\ path \in Paths /\ files[path].state = "whole"
              /\ Store(path, [state |-> "torn", report |-> Nothing])
        /\ UNCHANGED <<dataset, comparison, compare, page, used>>

\* A command is killed; what it has truncated stays so.
RunKilled(x) ==
    /\ command[x].pc # "idle"
    /\ Edit
    /\ command' = [command EXCEPT ![x] = IdleCommand]
    /\ UNCHANGED <<dataset, files, comparison, compare, page>>

-----------------------------------------------------------------------------
(* compare.py, main *)

NextVariant == [multi_agent |-> "single_agent", single_agent |-> "no_reviewer"]

StartCompare ==
    /\ compare.pc = "idle"
    /\ compare' = [IdleCompare EXCEPT !.pc = "multi_agent"]
    /\ UNCHANGED <<dataset, files, comparison, command, page, used>>

\* Mutant: the versions are compared, the sets of cases are not.
SameVersions(reports) ==
    \A v, w \in Variants : reports[v].version = reports[w].version

ValidateReports(reports) ==
    \A v, w \in Variants : /\ reports[v].version = reports[w].version
                           /\ reports[v].cases = reports[w].cases

\* _load_report: a file that is missing, torn or of the former scoring ends
\* the command, and so do reports that do not belong together.
LoadReport ==
    LET v == compare.pc
        read == [compare.reports EXCEPT ![v] = files[v].report]
        accepted == /\ files[v].state = "whole" /\ files[v].report.scoring = Current
                    /\ v = "no_reviewer" => ValidateReports(read)
    IN  /\ v \in Variants
        /\ compare' = IF accepted
                        THEN [pc |-> IF v = "no_reviewer" THEN "open" ELSE NextVariant[v],
                              reports |-> read]
                        ELSE IdleCompare
        /\ UNCHANGED <<dataset, files, comparison, command, page, used>>

OpenComparison ==
    /\ compare.pc = "open"
    /\ compare' = [compare EXCEPT !.pc = "write"]
    /\ comparison' = [state |-> "torn", scoring |-> Current,
                      reports |-> IdleCompare.reports]
    /\ UNCHANGED <<dataset, files, command, page, used>>

WriteComparison ==
    /\ compare.pc = "write"
    /\ compare' = IdleCompare
    /\ comparison' = [state |-> "whole", scoring |-> Current, reports |-> compare.reports]
    /\ UNCHANGED <<dataset, files, command, page, used>>

CompareKilled ==
    /\ compare.pc # "idle"
    /\ Edit
    /\ compare' = IdleCompare
    /\ UNCHANGED <<dataset, files, comparison, command, page>>

-----------------------------------------------------------------------------
(* api/evaluations.py, as EvaluationsPage calls it *)

\* Mutant: the fallback takes the place of a report that cannot be read.
ResolveReadable(v) ==
    IF /\ v = "multi_agent" /\ files[v].state # "whole"
       /\ files["multi_agent_v1"].state # "absent"
      THEN "multi_agent_v1" ELSE v

ResolvePath(v) ==
    IF /\ v = "multi_agent" /\ files[v].state = "absent"
       /\ files["multi_agent_v1"].state # "absent"
      THEN "multi_agent_v1" ELSE v

\* In the place of which variants a run has put its report, torn or whole.
Taken == {v \in Variants : files[v].state # "absent" /\ files[v].report.scoring = Current}

LoadPage ==
    /\ page.pc \in {"idle", "shown", "failed", "invalid"}
    /\ used.loads < MaxLoads /\ used' = [used EXCEPT !.loads = @ + 1]
    /\ page' = [IdlePage EXCEPT !.pc = "multi_agent", !.taken = Taken]
    /\ UNCHANGED <<dataset, files, comparison, command, compare>>

\* get_evaluations_overview, one variant: what is missing or torn is left out;
\* what model_validate refuses is not caught and ends the request.
ReadReport(v) ==
    LET path == ResolvePath(v)
        next == IF v = "no_reviewer" THEN "comparison" ELSE NextVariant[v]
    IN  page' = IF files[path].state # "whole" THEN [page EXCEPT !.pc = next]
                ELSE [page EXCEPT !.from[v] = path,
                         !.pc = IF files[path].report.scoring = Current THEN next
                                                                       ELSE "invalid"]

OverviewStep ==
    /\ page.pc \in Variants
    /\ ReadReport(page.pc)
    /\ UNCHANGED <<dataset, files, comparison, command, compare, used>>

\* get_final_comparison answers with whatever object the file holds.
GetFinalComparison ==
    /\ page.pc = "comparison"
    /\ page' = [page EXCEPT !.pc = IF /\ comparison.state = "whole"
                                       /\ \E v \in Variants : page.from[v] # "none"
                                     THEN "shown" ELSE "failed"]
    /\ UNCHANGED <<dataset, files, comparison, command, compare, used>>

RunStep(x) == RunEnds(x) \/ OpenReport(x) \/ WriteReport(x)

CompareStep == LoadReport \/ OpenComparison \/ WriteComparison

PageStep == OverviewStep \/ GetFinalComparison

Next ==
    \/ EditDataset
    \/ \E x \in Commands :
          \/ \E v \in Variants, limited, explicit \in BOOLEAN :
                StartRun(x, v, limited, explicit)
          \/ RunStep(x) \/ RunKilled(x)
    \/ StartCompare \/ CompareStep \/ CompareKilled
    \/ LoadPage \/ PageStep

Spec == Init /\ [][Next]_vars
=============================================================================
