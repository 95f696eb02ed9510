------------------------ MODULE EvalArtifacts_proofs -------------------------
(* Machine-checked proofs of what the evaluation files promise, for any     *)
(* dataset versions, any number of commands, runs, loads, edits and kills.  *)
EXTENDS EvalArtifactsProps, UseAsyncProps, TLAPS

-----------------------------------------------------------------------------
(* The files are read one after the other while runs replace them, so what *)
(* holds of a file must hold of the report a command is still to write     *)
(* there, and what holds of a page or a comparison of what it has read.    *)

\* A report that was not sent elsewhere by --output holds all its cases.
Full(report) == ~report.explicit => report.cases = CasesOf[report.version]

FilesFull == \A v \in Variants : files[v].state = "whole" => Full(files[v].report)

CommandsFull ==
    \A x \in Commands : command[x].path # "smoke" => Full(command[x].report)

\* What compare.py has accepted so far is of the present scoring; what it is
\* going to write belongs together.
ReadCurrent == \A v \in Variants : compare.reports[v].scoring = Current

ReadPaired == compare.pc \in {"open", "write"} => ValidateReports(compare.reports)

\* What a run has put into a variant's place may be torn or replaced by another
\* run, but the place is not empty again, and no old report comes back.
CommandsCurrent == \A x \in Commands : command[x].report.scoring = Current

TakenStays == page.taken \subseteq Taken

\* So a load met an old report only in a place that was not yet taken.
PageKeepsUp ==
    /\ page.from["multi_agent"] = "multi_agent_v1" => "multi_agent" \notin page.taken
    /\ page.pc = "invalid" => \E v \in Variants : v \notin page.taken

FilesInv ==
    /\ TypeOK
    /\ FilesFull /\ CommandsFull
    /\ ReadCurrent /\ ReadPaired
    /\ ComparisonIsPaired
    /\ CommandsCurrent /\ TakenStays /\ PageKeepsUp

AllCases == UNION {CasesOf[v] : v \in Versions}

CommandRecords ==
    [pc : {"idle", "run", "open", "write"}, path : Paths \cup {"smoke"}, report : Reports]

CompareRecords ==
    [pc : Variants \cup {"idle", "open", "write"}, reports : [Variants -> Reports]]

ComparisonRecords ==
    [state : {"absent", "torn", "whole"}, scoring : Scorings, reports : [Variants -> Reports]]

PageRecords ==
    [pc : Variants \cup {"idle", "comparison", "shown", "failed", "invalid"},
     from : [Variants -> Paths \cup {"none"}], taken : SUBSET Variants]

LEMMA NothingType ==
    /\ Nothing \in Reports
    /\ Nothing.scoring = Current /\ ~Nothing.explicit
    /\ Absent \in Files
    /\ \A state \in {"absent", "torn", "whole"}, r \in Reports :
          [state |-> state, report |-> r] \in Files
<1>1. (CHOOSE v \in Versions : TRUE) \in Versions
  BY EvalArtifactsAssumption
<1>2. Nothing \in Reports /\ Nothing.scoring = Current /\ ~Nothing.explicit
  BY <1>1 DEF Nothing, Reports, Scorings, Current
<1> QED BY <1>2 DEF Absent, Files

LEMMA IdleTypes ==
    /\ IdleCommand \in CommandRecords
    /\ IdleCompare \in CompareRecords
    /\ \A v \in Variants : IdleCompare.reports[v].scoring = Current
    /\ IdlePage \in PageRecords
<1>1. IdleCommand \in CommandRecords
  BY NothingType DEF IdleCommand, CommandRecords
<1>2. IdleCompare \in CompareRecords
  BY NothingType DEF IdleCompare, CompareRecords
<1>3. IdlePage \in PageRecords
  BY DEF IdlePage, PageRecords
<1>4. \A v \in Variants : IdleCompare.reports[v].scoring = Current
  BY NothingType DEF IdleCompare
<1> QED BY <1>1, <1>2, <1>3, <1>4

\* A dataset version has the cases that a run of all of them reports.
LEMMA CasesType == \A v \in Versions : CasesOf[v] \in SUBSET AllCases
  BY DEF AllCases

LEMMA FullReportType ==
    ASSUME dataset \in Versions, NEW scoring \in Scorings
    PROVE  FullReport(scoring) \in Files
<1>1. CasesOf[dataset] \in SUBSET AllCases
  BY CasesType
<1>2. [Nothing EXCEPT !.cases = CasesOf[dataset], !.scoring = scoring] \in Reports
  BY <1>1, NothingType DEF Reports, AllCases
<1> QED BY <1>2, NothingType DEF FullReport

LEMMA InitFiles == Init => FilesInv
<1> SUFFICES ASSUME Init PROVE FilesInv
  OBVIOUS
<1>0. dataset \in Versions
  BY EvalArtifactsAssumption DEF Init
<1>1. files \in [Paths -> Files]
  <2>1. PICK old \in SUBSET {"multi_agent", "multi_agent_v1"},
             measured \in {{}, {"single_agent", "no_reviewer"}} :
             files = [p \in Paths |-> IF p \in old THEN FullReport("strict-only")
                                      ELSE IF p \in measured THEN FullReport(Current)
                                      ELSE Absent]
    BY DEF Init
  <2>2. FullReport("strict-only") \in Files /\ FullReport(Current) \in Files
    BY <1>0, FullReportType DEF Scorings, Current
  <2> QED BY <2>1, <2>2, NothingType
<1>2. comparison \in ComparisonRecords /\ comparison.scoring # Current
  BY NothingType DEF Init, ComparisonRecords, Scorings, Current
<1>3. used \in [edits : 0..MaxEdits, runs : 0..MaxRuns, loads : 0..MaxLoads]
  BY EvalArtifactsAssumption DEF Init
<1>4. TypeOK
  BY <1>0, <1>1, <1>2, <1>3, IdleTypes
  DEF Init, TypeOK, CommandRecords, CompareRecords, ComparisonRecords, PageRecords
<1>5. FilesFull
  <2> SUFFICES ASSUME NEW v \in Variants, files[v].state = "whole" PROVE Full(files[v].report)
    BY DEF FilesFull
  <2>1. PICK scoring \in Scorings : files[v] = FullReport(scoring)
    BY DEF Init, Absent, Scorings, Current, Paths
  <2>2. /\ files[v].report.cases = CasesOf[dataset]
        /\ files[v].report.version = dataset
    <3> DEFINE first == CHOOSE w \in Versions : TRUE
    <3>1. dataset = first
      BY DEF Init
    <3>2. Nothing = [version |-> first, cases |-> {}, scoring |-> Current, explicit |-> FALSE]
      BY DEF Nothing
    <3> HIDE DEF first
    <3>3. /\ FullReport(scoring).report.version = first
          /\ FullReport(scoring).report.cases = CasesOf[dataset]
      BY ONLY <3>2 DEF FullReport
    <3> QED BY ONLY <2>1, <3>1, <3>3
  <2> QED BY <2>2 DEF Full
<1>6. CommandsFull
  BY DEF Init, CommandsFull, IdleCommand
<1>7. ReadCurrent /\ ReadPaired
  BY IdleTypes DEF Init, ReadCurrent, ReadPaired, IdleCompare
<1>8. CommandsCurrent /\ TakenStays /\ PageKeepsUp
  BY NothingType DEF Init, CommandsCurrent, TakenStays, PageKeepsUp, IdleCommand, IdlePage,
     Variants
<1> QED BY <1>2, <1>4, <1>5, <1>6, <1>7, <1>8 DEF FilesInv, ComparisonIsPaired

-----------------------------------------------------------------------------
(* The steps.  Each disturbs one or two of the variables. *)

LEMMA Types ==
    TypeOK <=> /\ dataset \in Versions
               /\ files \in [Paths -> Files]
               /\ comparison \in ComparisonRecords
               /\ command \in [Commands -> CommandRecords]
               /\ compare \in CompareRecords
               /\ page \in PageRecords
               /\ used \in [edits : 0..MaxEdits, runs : 0..MaxRuns, loads : 0..MaxLoads]
  BY DEF TypeOK, ComparisonRecords, CommandRecords, CompareRecords, PageRecords

LEMMA TypesNext ==
    ASSUME dataset' \in Versions, files' \in [Paths -> Files],
           comparison' \in ComparisonRecords, command' \in [Commands -> CommandRecords],
           compare' \in CompareRecords, page' \in PageRecords,
           used' \in [edits : 0..MaxEdits, runs : 0..MaxRuns, loads : 0..MaxLoads]
    PROVE  TypeOK'
  BY DEF TypeOK, ComparisonRecords, CommandRecords, CompareRecords, PageRecords

LEMMA Kept ==
    ASSUME FilesInv
    PROVE  /\ files' = files => FilesFull'
           /\ command' = command => CommandsFull' /\ CommandsCurrent'
           /\ compare' = compare => ReadCurrent' /\ ReadPaired'
           /\ comparison' = comparison => ComparisonIsPaired'
           /\ page' = page => PageKeepsUp'
           /\ files' = files /\ page' = page => TakenStays'
<1>1. files' = files => FilesFull'
  BY DEF FilesInv, FilesFull, Full
<1>2. command' = command => CommandsFull' /\ CommandsCurrent'
  BY DEF FilesInv, CommandsFull, Full, CommandsCurrent
<1>3. compare' = compare => ReadCurrent' /\ ReadPaired'
  BY DEF FilesInv, ReadCurrent, ReadPaired
<1>4. comparison' = comparison => ComparisonIsPaired'
  BY DEF FilesInv, ComparisonIsPaired
<1>5. page' = page => PageKeepsUp'
  BY DEF FilesInv, PageKeepsUp
<1>6. files' = files /\ page' = page => TakenStays'
  BY DEF FilesInv, TakenStays, Taken
<1> QED BY <1>1, <1>2, <1>3, <1>4, <1>5, <1>6

LEMMA EditType ==
    ASSUME TypeOK, Edit
    PROVE  used' \in [edits : 0..MaxEdits, runs : 0..MaxRuns, loads : 0..MaxLoads]
  BY EvalArtifactsAssumption DEF TypeOK, Edit

LEMMA EditStep == ASSUME FilesInv, EditDataset PROVE FilesInv'
<1>1. TypeOK'
  BY EditType, Types, TypesNext DEF FilesInv, EditDataset, TypeOK
<1> QED BY <1>1, Kept DEF FilesInv, EditDataset

\* A run of some of the cases goes elsewhere unless --output names the file.
LEMMA StartRunStep ==
    ASSUME FilesInv, NEW x \in Commands, NEW variant \in Variants,
           NEW limited \in BOOLEAN, NEW explicit \in BOOLEAN,
           StartRun(x, variant, limited, explicit)
    PROVE  FilesInv'
<1> DEFINE reportOf(path, cases) ==
              IF path = "smoke" THEN Nothing
              ELSE [version |-> dataset, cases |-> cases,
                    scoring |-> Current, explicit |-> explicit]
<1>0. /\ UNCHANGED <<dataset, files, comparison, compare, page>>
      /\ used.runs < MaxRuns /\ used' = [used EXCEPT !.runs = @ + 1]
      /\ dataset \in Versions
  BY DEF StartRun, FilesInv, TypeOK
<1>1. PICK path \in IF explicit THEN Paths ELSE {DefaultOutputPath(variant, limited)},
           cases \in IF limited THEN SUBSET CasesOf[dataset] ELSE {CasesOf[dataset]} :
         command' = [command EXCEPT ![x] =
                        [pc |-> "run", path |-> path, report |-> reportOf(path, cases)]]
  BY DEF StartRun
<1> DEFINE report == reportOf(path, cases)
<1>2. path \in Paths \cup {"smoke"}
  BY <1>1 DEF DefaultOutputPath, Paths
<1>3. cases \in SUBSET AllCases
  BY <1>0, CasesType
<1>4. report \in Reports /\ report.scoring = Current
  BY <1>0, <1>3, NothingType DEF Reports, Scorings, Current, AllCases
<1>5. path # "smoke" => Full(report)
  BY <1>1 DEF Full, DefaultOutputPath
<1> HIDE DEF report, reportOf
<1>6. command' = [command EXCEPT ![x] = [pc |-> "run", path |-> path, report |-> report]]
  BY <1>1 DEF report
<1>7. [pc |-> "run", path |-> path, report |-> report] \in CommandRecords
  BY <1>2, <1>4 DEF CommandRecords
<1>8. TypeOK'
  <2>1. used' \in [edits : 0..MaxEdits, runs : 0..MaxRuns, loads : 0..MaxLoads]
    BY <1>0, EvalArtifactsAssumption DEF FilesInv, TypeOK
  <2>2. command' \in [Commands -> CommandRecords]
    BY <1>6, <1>7, Types DEF FilesInv
  <2> QED BY <1>0, <2>1, <2>2 DEF FilesInv, TypeOK, CommandRecords
<1>9. CommandsFull' /\ CommandsCurrent'
  BY <1>4, <1>5, <1>6, <1>7, Types DEF FilesInv, CommandsFull, CommandsCurrent, Full
<1> QED BY <1>0, <1>8, <1>9, Kept DEF FilesInv

LEMMA RunEndsStep ==
    ASSUME FilesInv, NEW x \in Commands, RunEnds(x) PROVE FilesInv'
<1>1. command' = [command EXCEPT ![x].pc = "open"]
  BY DEF RunEnds, Step
<1>2. command' \in [Commands -> CommandRecords]
  BY <1>1, Types DEF FilesInv, CommandRecords
<1>3. TypeOK'
  BY <1>2 DEF RunEnds, FilesInv, TypeOK, CommandRecords
<1>4. CommandsFull' /\ CommandsCurrent'
  BY <1>1, Types DEF FilesInv, CommandsFull, CommandsCurrent, Full, CommandRecords
<1> QED BY <1>3, <1>4, Kept DEF RunEnds, FilesInv

LEMMA StoreKeeps ==
    ASSUME FilesInv, NEW path \in Paths \cup {"smoke"}, NEW file \in Files,
           path # "smoke" /\ file.state = "whole" => Full(file.report),
           file.state # "absent", file.report.scoring = Current,
           Store(path, file), page' = page
    PROVE  files' \in [Paths -> Files] /\ FilesFull' /\ TakenStays'
<1>1. files \in [Paths -> Files] /\ FilesFull /\ page.taken \subseteq Taken
  BY DEF FilesInv, TypeOK, TakenStays
<1>2. CASE path = "smoke"
  BY <1>1, <1>2 DEF Store, FilesFull, Full, TakenStays, Taken
<1>3. CASE path \in Paths /\ path # "smoke"
  <2>1. files' = [files EXCEPT ![path] = file]
    BY <1>3 DEF Store
  <2>2. files' \in [Paths -> Files]
    BY <1>1, <2>1
  <2>3. ASSUME NEW v \in Variants, files'[v].state = "whole" PROVE Full(files'[v].report)
    <3>1. v \in Paths
      BY DEF Paths
    <3>2. CASE v = path
      BY <1>1, <1>3, <2>1, <2>3, <3>2 DEF Full
    <3>3. CASE v # path
      BY <1>1, <2>1, <2>3, <3>1, <3>3 DEF FilesFull, Full
    <3> QED BY <3>2, <3>3
  <2>4. Taken \subseteq Taken'
    <3> SUFFICES ASSUME NEW v \in Taken PROVE v \in Taken'
      OBVIOUS
    <3>1. v \in Variants /\ v \in Paths
      BY DEF Taken, Paths
    <3>2. files'[v] \in {files[v], file}
      BY <1>1, <2>1, <3>1
    <3> QED BY <3>1, <3>2 DEF Taken
  <2>5. TakenStays'
    BY <1>1, <2>4 DEF TakenStays
  <2> QED BY <2>2, <2>3, <2>5 DEF FilesFull, Full
<1> QED BY <1>2, <1>3

LEMMA OpenReportStep ==
    ASSUME FilesInv, NEW x \in Commands, OpenReport(x) PROVE FilesInv'
<1> DEFINE torn == [state |-> "torn", report |-> Nothing]
<1>0. UNCHANGED <<dataset, comparison, compare, page, used>>
  BY DEF OpenReport
<1>1. command' = [command EXCEPT ![x].pc = "write"]
  BY DEF OpenReport, Step
<1>2. command' \in [Commands -> CommandRecords] /\ CommandsFull' /\ CommandsCurrent'
  BY <1>1, Types DEF FilesInv, CommandRecords, CommandsFull, CommandsCurrent, Full
<1>3. files' \in [Paths -> Files] /\ FilesFull' /\ TakenStays'
  <2>1. torn \in Files /\ torn.state = "torn" /\ torn.report.scoring = Current
    BY NothingType
  <2>2. Store(command[x].path, torn)
    BY DEF OpenReport
  <2>3. command[x].path \in Paths \cup {"smoke"}
    BY Types DEF FilesInv, CommandRecords
  <2> HIDE DEF torn
  <2> QED BY <1>0, <2>1, <2>2, <2>3, StoreKeeps
<1>4. TypeOK'
  BY <1>0, <1>2, <1>3 DEF FilesInv, TypeOK, CommandRecords
<1> QED BY <1>0, <1>2, <1>3, <1>4, Kept DEF FilesInv

LEMMA WriteReportStep ==
    ASSUME FilesInv, NEW x \in Commands, WriteReport(x) PROVE FilesInv'
<1> DEFINE torn == [state |-> "torn", report |-> Nothing]
           whole == [state |-> "whole", report |-> command[x].report]
           path == command[x].path
<1>0. UNCHANGED <<dataset, comparison, compare, page, used>>
  BY DEF WriteReport
<1>1. command' = [command EXCEPT ![x] = IdleCommand]
  BY DEF WriteReport
<1>2. command' \in [Commands -> CommandRecords]
  BY <1>1, IdleTypes, Types DEF FilesInv
<1>3. CommandsFull' /\ CommandsCurrent'
  BY <1>1, NothingType, Types
  DEF FilesInv, CommandsFull, CommandsCurrent, Full, IdleCommand
<1>4. files' \in [Paths -> Files] /\ FilesFull' /\ TakenStays'
  <2>1. /\ path \in Paths \cup {"smoke"}
        /\ command[x].report \in Reports
    BY Types DEF FilesInv, CommandRecords
  <2>2. /\ torn \in Files /\ torn.state = "torn" /\ torn.report.scoring = Current
        /\ whole \in Files /\ whole.state = "whole" /\ whole.report.scoring = Current
    BY <2>1, NothingType DEF FilesInv, CommandsCurrent
  <2>3. path # "smoke" => Full(whole.report)
    BY DEF FilesInv, CommandsFull
  <2>4. Store(path, whole) \/ Store(path, torn)
    BY DEF WriteReport
  <2> HIDE DEF torn, whole, path
  <2> QED BY <1>0, <2>1, <2>2, <2>3, <2>4, StoreKeeps
<1>5. TypeOK'
  BY <1>0, <1>2, <1>4 DEF FilesInv, TypeOK, CommandRecords
<1> QED BY <1>0, <1>3, <1>4, <1>5, Kept DEF FilesInv

LEMMA RunKilledStep ==
    ASSUME FilesInv, NEW x \in Commands, RunKilled(x) PROVE FilesInv'
<1>0. UNCHANGED <<dataset, files, comparison, compare, page>>
  BY DEF RunKilled
<1>1. command' = [command EXCEPT ![x] = IdleCommand]
  BY DEF RunKilled
<1>2. command' \in [Commands -> CommandRecords]
  BY <1>1, IdleTypes, Types DEF FilesInv
<1>3. CommandsFull' /\ CommandsCurrent'
  BY <1>1, NothingType, Types
  DEF FilesInv, CommandsFull, CommandsCurrent, Full, IdleCommand
<1>4. TypeOK'
  BY <1>0, <1>2, EditType, Types, TypesNext DEF FilesInv, RunKilled
<1> QED BY <1>0, <1>3, <1>4, Kept DEF FilesInv

-----------------------------------------------------------------------------
(* The comparison *)

LEMMA StartCompareStep == ASSUME FilesInv, StartCompare PROVE FilesInv'
<1>1. compare' = [IdleCompare EXCEPT !.pc = "multi_agent"]
  BY DEF StartCompare
<1>2. /\ compare' \in CompareRecords
      /\ compare'.pc = "multi_agent"
      /\ compare'.reports = IdleCompare.reports
  BY <1>1, IdleTypes DEF CompareRecords, Variants
<1>3. ReadCurrent' /\ ReadPaired'
  BY <1>2, IdleTypes DEF ReadCurrent, ReadPaired
<1>4. TypeOK'
  BY <1>2, Types, TypesNext DEF FilesInv, StartCompare
<1> QED BY <1>3, <1>4, Kept DEF FilesInv, StartCompare

\* The last report is accepted only together with the others.
LEMMA LoadReportStep == ASSUME FilesInv, LoadReport PROVE FilesInv'
<1> DEFINE v == compare.pc
           read == [compare.reports EXCEPT ![v] = files[v].report]
           pc == IF v = "no_reviewer" THEN "open" ELSE NextVariant[v]
<1>0. /\ v \in Variants
      /\ UNCHANGED <<dataset, files, comparison, command, page, used>>
  BY DEF LoadReport
<1>1. \/ compare' = IdleCompare
      \/ /\ compare' = [pc |-> pc, reports |-> read]
         /\ files[v].report.scoring = Current
         /\ v = "no_reviewer" => ValidateReports(read)
  BY DEF LoadReport
<1>2. v \in Paths /\ files[v].report \in Reports /\ compare.reports \in [Variants -> Reports]
  BY <1>0, Types DEF FilesInv, Paths, Files, CompareRecords
<1>3. compare' \in CompareRecords /\ ReadCurrent' /\ ReadPaired'
  <2>1. CASE compare' = IdleCompare
    BY <2>1, IdleTypes DEF ReadCurrent, ReadPaired, IdleCompare
  <2>2. CASE /\ compare' = [pc |-> pc, reports |-> read]
             /\ files[v].report.scoring = Current
             /\ v = "no_reviewer" => ValidateReports(read)
    <3>1. read \in [Variants -> Reports]
      BY <1>0, <1>2
    <3>2. pc \in Variants \cup {"open"} /\ (pc = "open" => v = "no_reviewer")
      BY <1>0 DEF Variants, NextVariant
    <3>3. \A w \in Variants : read[w].scoring = Current
      BY <1>2, <2>2 DEF FilesInv, ReadCurrent
    <3>4. compare'.pc = pc /\ compare'.reports = read
      BY <2>2
    <3>5. "open" \notin Variants /\ "write" \notin Variants
      BY DEF Variants
    <3> HIDE DEF read, pc, v
    <3>6. compare' \in CompareRecords
      BY <2>2, <3>1, <3>2 DEF CompareRecords
    <3>7. ReadCurrent'
      BY <3>3, <3>4 DEF ReadCurrent
    <3>8. ReadPaired'
      BY <2>2, <3>2, <3>4, <3>5 DEF ReadPaired, ValidateReports
    <3> QED BY <3>6, <3>7, <3>8
  <2> QED BY <1>1, <2>1, <2>2
<1>4. TypeOK'
  BY <1>0, <1>3, Types, TypesNext DEF FilesInv
<1> QED BY <1>0, <1>3, <1>4, Kept DEF FilesInv

LEMMA OpenComparisonStep == ASSUME FilesInv, OpenComparison PROVE FilesInv'
<1>0. UNCHANGED <<dataset, files, command, page, used>>
  BY DEF OpenComparison
<1>1. compare' = [compare EXCEPT !.pc = "write"] /\ compare.pc = "open"
  BY DEF OpenComparison
<1>2. compare' \in CompareRecords /\ compare'.reports = compare.reports
  BY <1>1, Types DEF FilesInv, CompareRecords
<1>3. ReadCurrent' /\ ReadPaired'
  BY <1>1, <1>2 DEF FilesInv, ReadCurrent, ReadPaired
<1>4. comparison' \in ComparisonRecords /\ comparison'.state = "torn"
  BY IdleTypes DEF OpenComparison, ComparisonRecords, CompareRecords, Scorings, Current
<1>5. TypeOK'
  BY <1>0, <1>2, <1>4, Types, TypesNext DEF FilesInv
<1> QED BY <1>0, <1>3, <1>4, <1>5, Kept DEF FilesInv, ComparisonIsPaired

LEMMA WriteComparisonStep == ASSUME FilesInv, WriteComparison PROVE FilesInv'
<1>0. /\ UNCHANGED <<dataset, files, command, page, used>>
      /\ compare.pc = "write" /\ compare' = IdleCompare
  BY DEF WriteComparison
<1>1. comparison' = [state |-> "whole", scoring |-> Current, reports |-> compare.reports]
  BY DEF WriteComparison
<1>2. comparison' \in ComparisonRecords /\ comparison'.reports = compare.reports
  BY <1>1, Types DEF FilesInv, ComparisonRecords, CompareRecords, Scorings, Current
<1>3. ReadCurrent' /\ ReadPaired'
  BY <1>0, IdleTypes DEF ReadCurrent, ReadPaired, IdleCompare
<1>4. ComparisonIsPaired'
  BY <1>0, <1>2
  DEF FilesInv, ReadCurrent, ReadPaired, ValidateReports, ComparisonIsPaired
<1>5. TypeOK'
  BY <1>0, <1>2, IdleTypes, Types, TypesNext DEF FilesInv
<1> QED BY <1>0, <1>3, <1>4, <1>5, Kept DEF FilesInv

LEMMA CompareKilledStep == ASSUME FilesInv, CompareKilled PROVE FilesInv'
<1>0. UNCHANGED <<dataset, files, comparison, command, page>> /\ compare' = IdleCompare
  BY DEF CompareKilled
<1>1. ReadCurrent' /\ ReadPaired'
  BY <1>0, IdleTypes DEF ReadCurrent, ReadPaired, IdleCompare
<1>2. TypeOK'
  BY <1>0, IdleTypes, EditType, Types, TypesNext DEF FilesInv, CompareKilled
<1> QED BY <1>0, <1>1, <1>2, Kept DEF FilesInv

-----------------------------------------------------------------------------
(* The dashboard *)

LEMMA LoadPageStep == ASSUME FilesInv, LoadPage PROVE FilesInv'
<1>0. /\ UNCHANGED <<dataset, files, comparison, command, compare>>
      /\ used.loads < MaxLoads /\ used' = [used EXCEPT !.loads = @ + 1]
      /\ page' = [IdlePage EXCEPT !.pc = "multi_agent", !.taken = Taken]
  BY DEF LoadPage
<1>1. page' = [pc |-> "multi_agent", from |-> [v \in Variants |-> "none"], taken |-> Taken]
  BY <1>0 DEF IdlePage
<1>2. page' \in PageRecords
  BY <1>1 DEF PageRecords, Variants, Taken
<1>3. TakenStays' /\ PageKeepsUp'
  <2>1. page'.taken = Taken /\ page'.pc = "multi_agent"
    BY <1>1
  <2>2. page'.from["multi_agent"] = "none"
    BY <1>1 DEF Variants
  <2>3. TakenStays'
    BY <1>0, <2>1 DEF TakenStays, Taken
  <2>4. PageKeepsUp'
    BY <2>1, <2>2 DEF PageKeepsUp
  <2> QED BY <2>3, <2>4
<1>4. used' \in [edits : 0..MaxEdits, runs : 0..MaxRuns, loads : 0..MaxLoads]
  BY <1>0, EvalArtifactsAssumption DEF FilesInv, TypeOK
<1>5. TypeOK'
  BY <1>0, <1>2, <1>4, Types, TypesNext DEF FilesInv
<1> QED BY <1>0, <1>3, <1>5, Kept DEF FilesInv

\* The fallback is read only while the variant's own file is absent, and an old
\* report only in a place that no run has taken.
LEMMA OverviewStepStep == ASSUME FilesInv, OverviewStep PROVE FilesInv'
<1> DEFINE v == page.pc
           path == ResolvePath(v)
           next == IF v = "no_reviewer" THEN "comparison" ELSE NextVariant[v]
<1>0. /\ v \in Variants /\ page \in PageRecords
      /\ UNCHANGED <<dataset, files, comparison, command, compare, used>>
  BY Types DEF OverviewStep, FilesInv
<1>1. \/ page' = [page EXCEPT !.pc = next]
      \/ /\ page' = [page EXCEPT !.from[v] = path, !.pc = next]
         /\ files[path].report.scoring = Current
      \/ /\ page' = [page EXCEPT !.from[v] = path, !.pc = "invalid"]
         /\ files[path].report.scoring # Current
  BY DEF OverviewStep, ReadReport
<1>2. /\ path \in Paths
      /\ path # v => v = "multi_agent" /\ files[v].state = "absent"
      /\ path = "multi_agent_v1" => path # v
  BY <1>0 DEF ResolvePath, Paths, Variants
<1>3. next \in Variants \cup {"comparison"}
  BY <1>0 DEF NextVariant, Variants
<1>4. path # v \/ files[path].report.scoring # Current => v \notin page.taken
  BY <1>2 DEF FilesInv, TakenStays, Taken
<1>5. PageKeepsUp /\ TakenStays
  BY DEF FilesInv
<1> HIDE DEF path, next
<1>6. /\ page' \in PageRecords /\ page'.taken = page.taken
      /\ page'.pc = "invalid" => files[path].report.scoring # Current
      /\ \/ page'.from["multi_agent"] = page.from["multi_agent"]
         \/ v = "multi_agent" /\ page'.from["multi_agent"] = path
  <2>1. next # "invalid" /\ "multi_agent" \in Variants
    BY <1>3 DEF Variants
  <2> HIDE DEF v
  <2>2. CASE page' = [page EXCEPT !.pc = next]
    BY <1>0, <1>3, <2>1, <2>2 DEF PageRecords
  <2>3. CASE /\ page' = [page EXCEPT !.from[v] = path, !.pc = next]
             /\ files[path].report.scoring = Current
    BY <1>0, <1>2, <1>3, <2>1, <2>3 DEF PageRecords
  <2>4. CASE /\ page' = [page EXCEPT !.from[v] = path, !.pc = "invalid"]
             /\ files[path].report.scoring # Current
    BY <1>0, <1>2, <2>1, <2>4 DEF PageRecords
  <2> QED BY <1>1, <2>2, <2>3, <2>4
<1>7. PageKeepsUp'
  BY <1>0, <1>2, <1>4, <1>5, <1>6 DEF PageKeepsUp
<1>8. TakenStays'
  BY <1>0, <1>5, <1>6 DEF TakenStays, Taken
<1>9. TypeOK'
  BY <1>0, <1>6, Types, TypesNext DEF FilesInv
<1> QED BY <1>0, <1>7, <1>8, <1>9, Kept DEF FilesInv

LEMMA GetFinalComparisonStep == ASSUME FilesInv, GetFinalComparison PROVE FilesInv'
<1>0. UNCHANGED <<dataset, files, comparison, command, compare, used>>
  BY DEF GetFinalComparison
<1>1. page' = [page EXCEPT !.pc = "shown"] \/ page' = [page EXCEPT !.pc = "failed"]
  BY DEF GetFinalComparison
<1>2. /\ page' \in PageRecords /\ page'.from = page.from /\ page'.taken = page.taken
      /\ page'.pc # "invalid"
  BY <1>1, Types DEF FilesInv, PageRecords
<1>3. PageKeepsUp' /\ TakenStays'
  BY <1>0, <1>2 DEF FilesInv, PageKeepsUp, TakenStays, Taken
<1>4. TypeOK'
  BY <1>0, <1>2, Types, TypesNext DEF FilesInv
<1> QED BY <1>0, <1>3, <1>4, Kept DEF FilesInv

-----------------------------------------------------------------------------

LEMMA FilesInvariant == Spec => []FilesInv
<1>1. ASSUME FilesInv, Next PROVE FilesInv'
  <2>1. ASSUME NEW x \in Commands, RunStep(x) PROVE FilesInv'
    BY <1>1, <2>1, RunEndsStep, OpenReportStep, WriteReportStep DEF RunStep
  <2>2. ASSUME CompareStep PROVE FilesInv'
    BY <1>1, <2>2, LoadReportStep, OpenComparisonStep, WriteComparisonStep DEF CompareStep
  <2>3. ASSUME PageStep PROVE FilesInv'
    BY <1>1, <2>3, OverviewStepStep, GetFinalComparisonStep DEF PageStep
  <2> QED
    BY <1>1, <2>1, <2>2, <2>3, EditStep, StartRunStep, RunKilledStep, StartCompareStep,
       CompareKilledStep, LoadPageStep DEF Next
<1>2. ASSUME FilesInv, UNCHANGED vars PROVE FilesInv'
  BY <1>2, Types, TypesNext, Kept DEF FilesInv, vars
<1> QED BY InitFiles, <1>1, <1>2, PTL DEF Spec

\* TypeOK: files, commands, comparisons and pages keep their types, whatever is
\* torn or replaced while it is read.
THEOREM TypeCorrect == Spec => []TypeOK
<1>1. FilesInv => TypeOK
  BY DEF FilesInv
<1> QED BY FilesInvariant, <1>1, PTL

\* A report in a variant's place, unless --output put it there, holds all the
\* cases of the version it names, whatever other runs, kills and edits do.
THEOREM FullReports == Spec => []ReportsAreFull
<1>1. FilesInv => ReportsAreFull
  BY DEF FilesInv, FilesFull, Full, ReportsAreFull
<1> QED BY FilesInvariant, <1>1, PTL

\* A comparison of the present scoring pairs reports of the same cases,
\* although its reports are replaced while it reads them.
THEOREM PairedComparison == Spec => []ComparisonIsPaired
<1>1. FilesInv => ComparisonIsPaired
  BY DEF FilesInv
<1> QED BY FilesInvariant, <1>1, PTL

\* FallbackGivesWay: after a run has put its report into a variant's place, no
\* load that begins later reads the fallback instead, or fails on an old report,
\* for any number of runs that rewrite it or are killed over it.
THEOREM OwnReportsPrevail == Spec => []FallbackGivesWay
<1>1. FilesInv => FallbackGivesWay
  BY DEF FilesInv, PageKeepsUp, FallbackGivesWay
<1> QED BY FilesInvariant, <1>1, PTL

-----------------------------------------------------------------------------
(* The hook with which a page asks for the overview, and for everything     *)
(* else.  Only the load of the latest effect is not cancelled, so only it   *)
(* decides what is shown, and it ends the loading after it has been shown.  *)

\* The first n loads have been asked for; all but the n-th are cleaned up.
LoadsInOrder ==
    /\ \A n \in Loads : load[n].pc # "none" => n <= latest
    /\ \A n \in Loads : load[n].pc # "none" /\ n < latest => load[n].cancelled
    /\ latest > 0 => load[latest].pc # "none" /\ ~load[latest].cancelled

LatestShown ==
    /\ ~loading => latest > 0 /\ load[latest].pc = "over"
    /\ latest > 0 /\ load[latest].pc \in {"settled", "over"}
          => data = latest \/ error = latest

HookInv ==
    /\ load \in [Loads -> [pc : {"none", "asked", "settled", "over"},
                          cancelled : BOOLEAN]]
    /\ rendered \in Loads /\ latest \in 0..rendered
    /\ loading \in BOOLEAN
    /\ LoadsInOrder
    /\ LatestShown

LEMMA HookStarts == HookInit => HookInv
  BY UseAsyncAssumption
     DEF HookInit, Loads, HookInv, LoadsInOrder, LatestShown

\* The one load that is not cleaned up is the latest one.
LEMMA LatestIsLive ==
    ASSUME HookInv, NEW n \in Loads, load[n].pc # "none"
    PROVE  load[n].cancelled <=> n # latest
  BY DEF HookInv, LoadsInOrder, Loads

LEMMA EffectKeeps ==
    ASSUME HookInv, Effect
    PROVE  HookInv'
<1> USE DEF Loads
<1>1. /\ latest' = rendered /\ rendered' = rendered /\ loading' = TRUE
      /\ rendered \in Loads /\ latest \in Nat /\ latest < rendered
  BY DEF HookInv, Effect
<1>2. \A n \in Loads :
         /\ n = rendered => load'[n] = [pc |-> "asked", cancelled |-> FALSE]
         /\ n # rendered => /\ load'[n].pc = load[n].pc
                            /\ load'[n].cancelled <=> load[n].cancelled \/ n = latest
  BY DEF HookInv, Effect
<1>3. load' \in [Loads -> [pc : {"none", "asked", "settled", "over"},
                          cancelled : BOOLEAN]]
  BY DEF HookInv, Effect
<1>4. LoadsInOrder'
  <2>1. ASSUME NEW n \in Loads, load'[n].pc # "none"
        PROVE  n <= rendered /\ (n < rendered => load'[n].cancelled)
    <3>1. CASE n = rendered
      BY <1>1, <3>1
    <3>2. CASE n # rendered
      <4>1. n <= latest /\ (n < latest => load[n].cancelled)
        BY <1>2, <2>1, <3>2 DEF HookInv, LoadsInOrder
      <4>2. load'[n].cancelled <=> load[n].cancelled \/ n = latest
        BY <1>2, <3>2
      <4>3. n \in Nat
        BY UseAsyncAssumption
      <4> QED BY <1>1, <4>1, <4>2, <4>3
    <3> QED BY <3>1, <3>2
  <2>2. load'[rendered].pc # "none" /\ ~load'[rendered].cancelled
    BY <1>1, <1>2
  <2> QED BY <1>1, <2>1, <2>2 DEF LoadsInOrder
<1>5. LatestShown'
  BY <1>1, <1>2 DEF LatestShown
<1> QED BY <1>1, <1>3, <1>4, <1>5 DEF HookInv

\* A load that goes on, and shows itself if it is the latest.
LEMMA LoadKeeps ==
    ASSUME HookInv, NEW n \in Loads, NEW to \in {"settled", "over"},
           load[n].pc # "none", load' = [load EXCEPT ![n].pc = to],
           UNCHANGED <<latest, rendered>>, loading' \in BOOLEAN, LatestShown'
    PROVE  HookInv'
<1>1. /\ load' \in [Loads -> [pc : {"none", "asked", "settled", "over"},
                              cancelled : BOOLEAN]]
      /\ \A m \in Loads : /\ load'[m].cancelled = load[m].cancelled
                          /\ load'[m].pc = "none" <=> load[m].pc = "none"
  BY DEF HookInv
<1>2. latest > 0 => latest \in Loads
  BY UseAsyncAssumption DEF HookInv, Loads
<1>3. LoadsInOrder'
  BY <1>1, <1>2 DEF HookInv, LoadsInOrder
<1> QED BY <1>1, <1>3 DEF HookInv

LEMMA HookStep == HookInv /\ [HookNext]_hookVars => HookInv'
<1> SUFFICES ASSUME HookInv, [HookNext]_hookVars PROVE HookInv'
  OBVIOUS
<1>1. CASE Render
  BY <1>1, UseAsyncAssumption
     DEF Render, HookInv, LoadsInOrder, LatestShown, Loads
<1>2. CASE Effect
  BY <1>2, EffectKeeps
<1>3. ASSUME NEW n \in Loads, Resolve(n) \/ Reject(n)
      PROVE  HookInv'
  <2>1. /\ load[n].pc = "asked" /\ load' = [load EXCEPT ![n].pc = "settled"]
        /\ UNCHANGED <<latest, rendered, loading>>
    BY <1>3 DEF Resolve, Reject, Settle
  <2>2. load[n].cancelled <=> n # latest
    BY <2>1, LatestIsLive
  <2>3. /\ n # latest => data' = data /\ error' = error
        /\ n = latest => data' = latest \/ error' = latest
    BY <1>3, <2>2 DEF Resolve, Reject
  <2>4. \A m \in Loads : m # n => load'[m] = load[m]
    BY <2>1 DEF HookInv
  <2>5. latest > 0 => latest \in Loads
    BY UseAsyncAssumption DEF HookInv, Loads
  <2>6. LatestShown'
    BY <2>1, <2>3, <2>4, <2>5 DEF HookInv, LatestShown
  <2> QED BY <2>1, <2>6, LoadKeeps DEF HookInv
<1>4. ASSUME NEW n \in Loads, Finally(n)
      PROVE  HookInv'
  <2>1. /\ load[n].pc = "settled" /\ load' = [load EXCEPT ![n].pc = "over"]
        /\ loading' = (loading /\ load[n].cancelled)
        /\ UNCHANGED <<latest, rendered, data, error>>
    BY <1>4 DEF Finally
  <2>2. load[n].cancelled <=> n # latest
    BY <2>1, LatestIsLive
  <2>3. /\ \A m \in Loads : m # n => load'[m] = load[m]
        /\ load'[n].pc = "over"
    BY <2>1 DEF HookInv
  <2>4. latest > 0 => latest \in Loads
    BY UseAsyncAssumption DEF HookInv, Loads
  <2>5. n > 0
    BY DEF Loads
  <2>6. LatestShown'
    BY <2>1, <2>2, <2>3, <2>4, <2>5 DEF HookInv, LatestShown
  <2> QED BY <2>1, <2>6, LoadKeeps DEF HookInv
<1>5. CASE UNCHANGED hookVars
  BY <1>5 DEF hookVars, HookInv, LoadsInOrder, LatestShown
<1> QED BY <1>1, <1>2, <1>3, <1>4, <1>5 DEF HookNext, LoadStep

\* SettledIsCurrent of UseAsync: for any number of loads whose answers come in
\* any order, a page that is not loading shows the outcome of the latest one.
THEOREM ShownIsCurrent == HookSpec => []SettledIsCurrent
<1>1. HookInv => SettledIsCurrent
  BY DEF HookInv, LatestShown, SettledIsCurrent
<1> QED BY <1>1, HookStarts, HookStep, PTL DEF HookSpec
=============================================================================
