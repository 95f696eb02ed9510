-------------------------- MODULE EvalRunner_proofs --------------------------
(* Machine-checked proofs about EvalRunner, for every data set, selection   *)
(* and number of concurrent cases, whatever the pipelines leave or raise.   *)
EXTENDS EvalRunnerProps, FiniteSetTheorems, TLAPS

-----------------------------------------------------------------------------
(* The invariant.  What a task has scored is a score of its case; a report  *)
(* is built of one such score for each of the first cases of the data set.  *)

EndStates == UNION {FinalStatesOf[variant] : variant \in Variants}

\* The scores that the k-th case may get.
Scores(k) ==
    {ScoreCase(Dataset[k], s, b) : s \in EndStates, b \in BOOLEAN}
        \cup {ScoreErrorCase(Dataset[k], b) : b \in BOOLEAN}

AnyScore == UNION {Scores(k) : k \in DOMAIN Dataset}

TaskStates == {"waiting", "investigating", "planning", "solo", "done"}

RunTyped ==
    \E n \in Selections \cup {0} :
        run \in [variant : Variants \cup {"none"}, task : [1..n -> TaskStates],
                permits : Nat]

\* The results that wait to be gathered: one of each task that is done.
FinishedOnce ==
    /\ finished \in Seq([index : DOMAIN run.task, result : AnyScore])
    /\ \A j \in DOMAIN finished : finished[j].result \in Scores(finished[j].index)
    /\ \A i, j \in DOMAIN finished : finished[i].index = finished[j].index => i = j
    /\ \A k \in DOMAIN run.task :
          run.task[k] = "done" <=> \E j \in DOMAIN finished : finished[j].index = k

Sound(report) ==
    /\ report.cases \in Seq(AnyScore)
    /\ Len(report.cases) <= Len(Dataset)
    /\ \A k \in DOMAIN report.cases : report.cases[k] \in Scores(k)
    /\ report = BuildReport(report.variant, report.cases)

SoundReports ==
    /\ DOMAIN reports = Variants
    /\ \A variant \in Variants : \A report \in reports[variant] : Sound(report)

\* A permit is held by a task that is in its pipeline, and by no other.
InsideNow == {k \in DOMAIN run.task : InPipeline(k)}

PermitsHeld == run.permits + Cardinality(InsideNow) = Concurrency

IdleWithoutTasks == run.variant = "none" => DOMAIN run.task = {}

\* As many tasks, and then results, as cases were selected.
SelectionKept ==
    /\ selected \in [run : Selections \cup {0}, report : [Variants -> Selections \cup {0}]]
    /\ DOMAIN run.task = 1..selected.run
    /\ \A variant \in Variants : \A report \in reports[variant] :
          Len(report.cases) = selected.report[variant]

RunnerInv ==
    /\ RunTyped
    /\ IdleWithoutTasks
    /\ FinishedOnce
    /\ SoundReports
    /\ PermitsHeld
    /\ SelectionKept
    /\ runs \in 0..MaxRuns

-----------------------------------------------------------------------------
(* Counting *)

LEMMA SameSize ==
    ASSUME NEW S, NEW T, IsFiniteSet(S), NEW f \in [S -> T],
           \A x, y \in S : f[x] = f[y] => x = y,
           \A z \in T : \E x \in S : f[x] = z
    PROVE  IsFiniteSet(T) /\ Cardinality(T) = Cardinality(S)
<1>1. f \in Bijection(S, T)
  BY DEF Bijection, Injection, Surjection, IsInjective
<1>2. ExistsBijection(S, T)
  BY <1>1 DEF ExistsBijection
<1> QED BY <1>2, FS_Bijection

LEMMA UpTo ==
    ASSUME NEW n \in Nat
    PROVE  IsFiniteSet(1..n) /\ Cardinality(1..n) = n
<1>1. IsFiniteSet(1..n) /\ Cardinality(1..n) = IF 1 > n THEN 0 ELSE n - 1 + 1
  BY FS_Interval
<1> QED BY <1>1

\* What two sets do not share makes up the difference of their sizes.
LEMMA Differences ==
    ASSUME NEW S, NEW T, IsFiniteSet(S), IsFiniteSet(T)
    PROVE  Cardinality(S) - Cardinality(T) =
               Cardinality(S \ T) - Cardinality(T \ S)
<1>1. /\ Cardinality(S \ T) = Cardinality(S) - Cardinality(S \cap T)
      /\ Cardinality(T \ S) = Cardinality(T) - Cardinality(T \cap S)
  BY FS_Difference
<1>2. S \cap T = T \cap S
  OBVIOUS
<1>3. /\ Cardinality(S) \in Nat /\ Cardinality(T) \in Nat
      /\ Cardinality(S \cap T) \in Nat
  BY FS_CardinalityType, FS_Intersection
<1> QED BY <1>1, <1>2, <1>3

-----------------------------------------------------------------------------
(* Gathering.  index is the task of each finished entry, in the order in    *)
(* which they ended; every task from 1 to n is there once.                  *)

OnceEach(index, m, n) ==
    /\ index \in [1..m -> 1..n]
    /\ \A i, j \in 1..m : index[i] = index[j] => i = j
    /\ \A k \in 1..n : \E j \in 1..m : index[j] = k

Before(index, m, j) == {i \in 1..m : index[i] < index[j]}

\* Exactly index[j] - 1 entries have a smaller index than the j-th.
LEMMA Precede ==
    ASSUME NEW n \in Nat, NEW m \in Nat, NEW index, OnceEach(index, m, n)
    PROVE  \A j \in 1..m : Cardinality(Before(index, m, j)) = index[j] - 1
<1> USE DEF OnceEach
<1> SUFFICES ASSUME NEW j \in 1..m
             PROVE  Cardinality(Before(index, m, j)) = index[j] - 1
  OBVIOUS
<1> DEFINE before == {i \in 1..m : index[i] < index[j]}
           k == index[j]
           f == [i \in before |-> index[i]]
<1>1. k \in 1..n /\ k - 1 \in Nat
  OBVIOUS
<1>2. IsFiniteSet(before)
  <2>1. before \in SUBSET (1..m)
    OBVIOUS
  <2> QED BY <2>1, UpTo, FS_Subset
<1>3. f \in [before -> 1..(k - 1)]
  BY <1>1
<1>4. \A x, y \in before : f[x] = f[y] => x = y
  OBVIOUS
<1>5. \A z \in 1..(k - 1) : \E x \in before : f[x] = z
  <2> SUFFICES ASSUME NEW z \in 1..(k - 1) PROVE \E x \in before : f[x] = z
    OBVIOUS
  <2>1. z \in 1..n /\ z < k
    BY <1>1
  <2>2. PICK i \in 1..m : index[i] = z
    BY <2>1
  <2> QED BY <2>1, <2>2
<1> HIDE DEF before, k, f
<1>6. Cardinality(1..(k - 1)) = Cardinality(before)
  BY <1>2, <1>3, <1>4, <1>5, SameSize
<1> QED BY <1>1, <1>6, UpTo DEF before, k, Before

LEMMA AllArrived ==
    ASSUME NEW n \in Nat, NEW m \in Nat, NEW index, OnceEach(index, m, n)
    PROVE  m = n
<1>1. Cardinality(1..n) = Cardinality(1..m)
  BY UpTo, SameSize DEF OnceEach
<1> QED BY <1>1, UpTo

\* Init: the cases the command line selects are the first of the dataset.
LEMMA SelectedCases ==
    /\ Len(Dataset) \in Nat /\ DOMAIN Dataset = 1..Len(Dataset)
    /\ \A n \in Selections \cup {0} : n \in Nat /\ n <= Len(Dataset)
<1>1. /\ Dataset \in Seq({Dataset[k] : k \in DOMAIN Dataset})
      /\ Selections \subseteq 0..Len(Dataset)
  BY EvalRunnerAssumption
<1>2. Len(Dataset) \in Nat /\ DOMAIN Dataset = 1..Len(Dataset)
  <2> DEFINE C == {Dataset[k] : k \in DOMAIN Dataset}
  <2>1. Dataset \in Seq(C)
    BY <1>1
  <2> HIDE DEF C
  <2> QED BY <2>1
<1> QED BY <1>1, <1>2

\* WriteReport: when every task is done, the k-th result is a score of the
\* k-th case, in whatever order the tasks ended.
LEMMA GatheredInOrder ==
    ASSUME RunTyped, FinishedOnce,
           \A k \in DOMAIN run.task : run.task[k] = "done"
    PROVE  /\ Gathered \in Seq(AnyScore)
           /\ Len(Gathered) <= Len(Dataset)
           /\ DOMAIN run.task = 1..Len(Gathered)
           /\ \A k \in DOMAIN Gathered : Gathered[k] \in Scores(k)
<1>1. PICK n \in Selections \cup {0} : run.task \in [1..n -> TaskStates]
  BY DEF RunTyped
<1>2. n \in Nat /\ n <= Len(Dataset)
  BY <1>1, SelectedCases
<1>3. PICK m \in Nat : m = Len(finished)
  BY DEF FinishedOnce
<1>4. /\ finished \in Seq([index : 1..n, result : AnyScore])
      /\ DOMAIN finished = 1..m /\ DOMAIN run.task = 1..n
  <2>1. DOMAIN run.task = 1..n
    BY <1>1
  <2>2. finished \in Seq([index : 1..n, result : AnyScore])
    BY <2>1 DEF FinishedOnce
  <2> QED BY <1>3, <2>1, <2>2
<1> DEFINE position == [j \in 1..m |-> finished[j].index]
<1>5. position \in [1..m -> 1..n]
  <2> DEFINE Entries == [index : 1..n, result : AnyScore]
  <2>1. \A j \in 1..m : finished[j] \in Entries
    <3> HIDE DEF Entries
    <3>1. finished \in Seq(Entries)
      BY <1>4 DEF Entries
    <3> QED BY <1>4, <3>1
  <2> QED BY <2>1
<1>6. PICK index \in [1..m -> 1..n] : \A j \in 1..m : index[j] = finished[j].index
  BY <1>5
<1> HIDE DEF position
<1>7. \A i, j \in 1..m : index[i] = index[j] => i = j
  BY <1>4, <1>6 DEF FinishedOnce
<1>8. \A k \in 1..n : \E j \in 1..m : index[j] = k
  <2>1. \A k \in 1..n : \E j \in 1..m : finished[j].index = k
    BY <1>4 DEF FinishedOnce
  <2> QED BY <1>6, <2>1
<1>9. OnceEach(index, m, n)
  BY <1>7, <1>8 DEF OnceEach
<1> DEFINE before(j) == {i \in DOMAIN finished : finished[i].index < finished[j].index}
           first(k) == CHOOSE j \in DOMAIN finished : Cardinality(before(j)) = k - 1
<1>10. m = n
  BY <1>2, <1>9, AllArrived
<1>11. \A j \in 1..m : Cardinality(before(j)) = index[j] - 1
  <2>1. \A j \in 1..m : Cardinality(Before(index, m, j)) = index[j] - 1
    BY <1>2, <1>9, Precede
  <2>2. \A j \in 1..m : before(j) = Before(index, m, j)
    BY <1>4, <1>6 DEF Before
  <2> QED BY <2>1, <2>2
<1> HIDE DEF before
<1>12. \A k \in 1..n : first(k) \in 1..m /\ finished[first(k)].index = k
  <2> SUFFICES ASSUME NEW k \in 1..n
               PROVE  first(k) \in 1..m /\ finished[first(k)].index = k
    OBVIOUS
  <2>1. PICK j \in 1..m : index[j] = k
    BY <1>8
  <2>2. \E i \in DOMAIN finished : Cardinality(before(i)) = k - 1
    BY <1>4, <1>11, <2>1
  <2>3. first(k) \in DOMAIN finished /\ Cardinality(before(first(k))) = k - 1
    BY <2>2
  <2> HIDE DEF first
  <2>4. first(k) \in 1..m /\ index[first(k)] - 1 = k - 1 /\ index[first(k)] \in 1..n
    BY <1>4, <1>6, <1>11, <2>3
  <2> QED BY <1>2, <1>6, <2>4
<1>13. Gathered = [k \in 1..n |-> finished[first(k)].result]
  BY <1>4, <1>10 DEF Gathered, before
<1> HIDE DEF first
<1>14. \A k \in 1..n : Gathered[k] \in Scores(k) /\ Gathered[k] \in AnyScore
  <2> SUFFICES ASSUME NEW k \in 1..n
               PROVE  Gathered[k] \in Scores(k) /\ Gathered[k] \in AnyScore
    OBVIOUS
  <2>1. Gathered[k] = finished[first(k)].result
    BY <1>13
  <2>2. PICK j \in 1..m : j = first(k)
    BY <1>12
  <2>3. finished[j].index = k
    BY <1>12, <2>2
  <2>4. finished[j].result \in Scores(finished[j].index)
    BY <1>4 DEF FinishedOnce
  <2>5. k \in DOMAIN Dataset
    BY <1>2, SelectedCases
  <2> QED BY <2>1, <2>2, <2>3, <2>4, <2>5 DEF AnyScore
<1>15. Gathered \in [1..n -> AnyScore]
  BY <1>13, <1>14
<1>16. Gathered \in Seq(AnyScore) /\ Len(Gathered) = n
  BY <1>2, <1>15
<1> QED BY <1>2, <1>4, <1>13, <1>14, <1>16

LEMMA BuiltSound ==
    ASSUME NEW variant, NEW results \in Seq(AnyScore),
           Len(results) <= Len(Dataset),
           \A k \in DOMAIN results : results[k] \in Scores(k)
    PROVE  Sound(BuildReport(variant, results))
<1>1. /\ BuildReport(variant, results).variant = variant
      /\ BuildReport(variant, results).cases = results
  BY DEF BuildReport
<1> QED BY <1>1 DEF Sound

-----------------------------------------------------------------------------
(* Every step keeps the invariant. *)

LEMMA RunnerInit == Init => RunnerInv
<1> SUFFICES ASSUME Init PROVE RunnerInv
  OBVIOUS
<1>1. run = [variant |-> "none", task |-> << >>, permits |-> Concurrency]
  BY DEF Init, NoRun
<1>2. run.task \in [1..0 -> TaskStates] /\ DOMAIN run.task = {}
  BY <1>1
<1>3. RunTyped
  BY <1>1, <1>2, EvalRunnerAssumption DEF RunTyped
<1>4. FinishedOnce
  BY <1>2 DEF Init, FinishedOnce
<1>5. InsideNow = {}
  BY <1>2 DEF InsideNow
<1>6. PermitsHeld
  BY <1>1, <1>5, FS_EmptySet, EvalRunnerAssumption DEF PermitsHeld
<1>7. SoundReports
  BY DEF Init, SoundReports
<1>8. IdleWithoutTasks
  BY <1>2 DEF IdleWithoutTasks
<1>9. runs \in 0..MaxRuns
  BY EvalRunnerAssumption DEF Init
<1>10. SelectionKept
  BY <1>2 DEF Init, SelectionKept
<1> QED BY <1>3, <1>4, <1>6, <1>7, <1>8, <1>9, <1>10 DEF RunnerInv

LEMMA RunDatasetKeeps ==
    ASSUME RunnerInv, NEW variant \in Variants, NEW n \in Selections,
           RunDataset(variant, n)
    PROVE  RunnerInv'
<1>1. /\ run' = [variant |-> variant, task |-> [k \in 1..n |-> "waiting"],
                 permits |-> Concurrency]
      /\ runs < MaxRuns /\ runs' = runs + 1
      /\ finished' = finished /\ reports' = reports /\ run.variant = "none"
  BY DEF RunDataset, NoRun
<1>2. DOMAIN run.task = {}
  BY <1>1 DEF RunnerInv, IdleWithoutTasks
<1>3. finished \in Seq([index : {}, result : AnyScore])
  BY <1>2 DEF RunnerInv, FinishedOnce
<1>4. finished = << >>
  <2>1. \A j \in 1..Len(finished) : FALSE
    BY <1>3
  <2>2. Len(finished) = 0
    BY <1>3, <2>1
  <2> QED BY <1>3, <2>2
<1>5. RunTyped'
  BY <1>1, EvalRunnerAssumption DEF RunTyped, TaskStates
<1>6. FinishedOnce'
  BY <1>1, <1>4 DEF FinishedOnce
<1>7. SoundReports'
  BY <1>1 DEF RunnerInv, SoundReports
<1>8. PermitsHeld'
  <2>1. InsideNow' = {}
    BY <1>1 DEF InsideNow, InPipeline
  <2> QED BY <1>1, <2>1, FS_EmptySet, EvalRunnerAssumption DEF PermitsHeld
<1>9. IdleWithoutTasks' /\ runs' \in 0..MaxRuns
  BY <1>1, EvalRunnerAssumption DEF RunnerInv, IdleWithoutTasks, Variants
<1>10. SelectionKept'
  <2>1. selected' = [selected EXCEPT !.run = n]
    BY DEF RunDataset
  <2>2. SelectionKept
    BY DEF RunnerInv
  <2>3. selected'.run = n /\ selected'.report = selected.report
    BY <2>1, <2>2 DEF SelectionKept
  <2>4. DOMAIN run'.task = 1..n
    BY <1>1
  <2> QED BY <1>1, <2>1, <2>2, <2>3, <2>4 DEF SelectionKept
<1> QED BY <1>5, <1>6, <1>7, <1>8, <1>9, <1>10 DEF RunnerInv

Moves(k, to, permits) == run' = [run EXCEPT !.permits = permits, !.task[k] = to]

\* A task moves on without an end: it takes a permit, or keeps the one it has.
LEMMA MoveKeeps ==
    ASSUME RunnerInv, NEW k \in DOMAIN run.task,
           NEW to \in {"investigating", "planning", "solo"}, NEW permits \in Nat,
           Moves(k, to, permits), run.task[k] # "done",
           permits = IF InPipeline(k) THEN run.permits ELSE run.permits - 1,
           UNCHANGED <<finished, reports, selected, runs>>
    PROVE  RunnerInv'
<1>1. PICK n \in Selections \cup {0} :
         run \in [variant : Variants \cup {"none"}, task : [1..n -> TaskStates],
                  permits : Nat]
  BY DEF RunnerInv, RunTyped
<1> DEFINE task == [run.task EXCEPT ![k] = to]
<1>2. task \in [1..n -> TaskStates] /\ n \in Nat
  BY <1>1, SelectedCases DEF TaskStates
<1>3. /\ \A j \in 1..n : j # k => task[j] = run.task[j]
      /\ task[k] = to /\ k \in 1..n /\ DOMAIN run.task = 1..n
  BY <1>1
<1>4. run' = [variant |-> run.variant, task |-> task, permits |-> permits]
  BY <1>1 DEF Moves
<1> HIDE DEF task
<1>5. run'.task = task /\ run'.permits = permits /\ run'.variant = run.variant
  BY <1>4
<1>6. DOMAIN run'.task = 1..n
  BY <1>2, <1>5
<1>7. RunTyped'
  BY <1>1, <1>2, <1>4 DEF RunTyped
<1>8. FinishedOnce'
  <2>1. \A j \in 1..n : run'.task[j] = "done" <=> run.task[j] = "done"
    BY <1>3, <1>5
  <2> QED BY <1>3, <1>6, <2>1 DEF RunnerInv, FinishedOnce
<1>9. PermitsHeld'
  <2>1. InsideNow' = InsideNow \cup {k}
    BY <1>3, <1>5, <1>6 DEF InsideNow, InPipeline
  <2>2. IsFiniteSet(InsideNow)
    <3>1. InsideNow \in SUBSET (1..n)
      BY <1>3 DEF InsideNow
    <3> QED BY <1>2, <3>1, UpTo, FS_Subset
  <2>3. Cardinality(InsideNow) \in Nat
    BY <2>2, FS_CardinalityType
  <2>4. Cardinality(InsideNow') =
          IF k \in InsideNow THEN Cardinality(InsideNow) ELSE Cardinality(InsideNow) + 1
    BY <2>1, <2>2, FS_AddElement
  <2>5. k \in InsideNow <=> InPipeline(k)
    BY DEF InsideNow
  <2>6. run.permits + Cardinality(InsideNow) = Concurrency /\ run.permits \in Nat
    BY <1>1 DEF RunnerInv, PermitsHeld
  <2>7. permits + Cardinality(InsideNow') = Concurrency
    BY <2>3, <2>4, <2>5, <2>6
  <2> QED BY <1>5, <2>7 DEF PermitsHeld
<1>10. SoundReports' /\ runs' \in 0..MaxRuns
  BY DEF RunnerInv, SoundReports
<1>11. IdleWithoutTasks'
  BY <1>3, <1>5, <1>6 DEF RunnerInv, IdleWithoutTasks
<1>12. SelectionKept'
  BY <1>3, <1>6 DEF RunnerInv, SelectionKept
<1> QED BY <1>7, <1>8, <1>9, <1>10, <1>11, <1>12 DEF RunnerInv

LEMMA EnterSemaphoreKeeps ==
    ASSUME RunnerInv, NEW k \in DOMAIN run.task, EnterSemaphore(k)
    PROVE  RunnerInv'
<1> DEFINE to == IF run.variant = "single_agent" THEN "solo" ELSE "investigating"
           permits == run.permits - 1
<1>1. Moves(k, to, permits)
  BY DEF EnterSemaphore, Moves
<1>2. run.permits \in Nat /\ permits \in Nat
  BY DEF RunnerInv, RunTyped, EnterSemaphore
<1>3. to \in {"investigating", "planning", "solo"}
  OBVIOUS
<1> HIDE DEF to, permits
<1>4. ~InPipeline(k) /\ run.task[k] # "done"
  BY DEF EnterSemaphore, InPipeline
<1>5. permits = IF InPipeline(k) THEN run.permits ELSE run.permits - 1
  BY <1>4 DEF permits
<1> QED BY <1>1, <1>2, <1>3, <1>4, <1>5, MoveKeeps DEF EnterSemaphore

LEMMA InvestigationFindsCauseKeeps ==
    ASSUME RunnerInv, NEW k \in DOMAIN run.task, InvestigationFindsCause(k)
    PROVE  RunnerInv'
<1>1. run.permits \in Nat /\ InPipeline(k) /\ run.task[k] # "done"
  BY DEF RunnerInv, RunTyped, InvestigationFindsCause, InPipeline
<1>2. Moves(k, "planning", run.permits)
  BY DEF InvestigationFindsCause, Moves, RunnerInv, RunTyped
<1> QED BY <1>1, <1>2, MoveKeeps DEF InvestigationFindsCause

\* A task ends with a score of its case, and gives its permit back.
LEMMA FinishKeeps ==
    ASSUME RunnerInv, NEW k \in DOMAIN run.task, InPipeline(k),
           NEW result \in Scores(k), Finish(k, result)
    PROVE  RunnerInv'
<1>1. PICK n \in Selections \cup {0} :
         run \in [variant : Variants \cup {"none"}, task : [1..n -> TaskStates],
                  permits : Nat]
  BY DEF RunnerInv, RunTyped
<1> DEFINE task == [run.task EXCEPT ![k] = "done"]
           m == Len(finished)
           entry == [index |-> k, result |-> result]
<1>2. /\ task \in [1..n -> TaskStates] /\ n \in Nat
      /\ DOMAIN run.task = 1..n /\ DOMAIN Dataset = 1..Len(Dataset)
      /\ n <= Len(Dataset)
  BY <1>1, SelectedCases DEF TaskStates
<1>3. /\ \A j \in 1..n : j # k => task[j] = run.task[j]
      /\ task[k] = "done" /\ k \in 1..n /\ k \in DOMAIN Dataset
  BY <1>1, <1>2
<1>4. run' = [variant |-> run.variant, task |-> task, permits |-> run.permits + 1]
  BY <1>1 DEF Finish
<1> HIDE DEF task
<1>5. /\ run'.task = task /\ run'.permits = run.permits + 1
      /\ run'.variant = run.variant
  BY <1>4
<1>6. DOMAIN run'.task = 1..n
  BY <1>2, <1>5
<1>7. RunTyped'
  BY <1>1, <1>2, <1>4 DEF RunTyped
<1>8. FinishedOnce'
  <2>1. /\ finished \in Seq([index : 1..n, result : AnyScore])
        /\ \A j \in 1..m : finished[j].result \in Scores(finished[j].index)
        /\ \A i, j \in 1..m : finished[i].index = finished[j].index => i = j
        /\ \A i \in 1..n :
              run.task[i] = "done" <=> \E j \in 1..m : finished[j].index = i
    <3>1. FinishedOnce /\ DOMAIN run.task = 1..n
      BY <1>2 DEF RunnerInv
    <3>2. finished \in Seq([index : 1..n, result : AnyScore])
      BY <3>1 DEF FinishedOnce
    <3>3. DOMAIN finished = 1..m
      <4> DEFINE Entries == [index : 1..n, result : AnyScore]
      <4>1. finished \in Seq(Entries)
        BY <3>2
      <4> HIDE DEF Entries
      <4> QED BY <4>1
    <3> HIDE DEF m
    <3> QED BY <3>1, <3>2, <3>3 DEF FinishedOnce
  <2>2. run.task[k] # "done"
    BY DEF InPipeline
  <2>3. entry \in [index : 1..n, result : AnyScore]
    BY <1>3 DEF AnyScore
  <2>4. finished' = Append(finished, entry)
    BY DEF Finish
  <2>5. entry.index = k /\ entry.result = result
    OBVIOUS
  <2> HIDE DEF entry
  <2>6. /\ finished' \in Seq([index : 1..n, result : AnyScore])
        /\ Len(finished') = m + 1 /\ finished'[m + 1] = entry
        /\ \A j \in 1..m : finished'[j] = finished[j]
        /\ m \in Nat /\ DOMAIN finished' = 1..(m + 1)
    BY <2>1, <2>3, <2>4
  <2>7. \A j \in 1..m : finished[j].index # k
    BY <1>3, <2>1, <2>2
  <2>8. \A j \in 1..(m + 1) : j \in 1..m \/ j = m + 1
    BY <2>6
  <2> HIDE DEF m
  <2>9. \A j \in 1..(m + 1) : finished'[j].result \in Scores(finished'[j].index)
    BY <2>1, <2>5, <2>6, <2>8
  <2>10. \A i, j \in 1..(m + 1) : finished'[i].index = finished'[j].index => i = j
    BY <2>1, <2>5, <2>6, <2>7, <2>8
  <2>11. \A i \in 1..n :
            run'.task[i] = "done" <=> \E j \in 1..(m + 1) : finished'[j].index = i
    <3>1. \A j \in 1..m : j \in 1..(m + 1)
      BY <2>6
    <3>2. m + 1 \in 1..(m + 1)
      BY <2>6
    <3>3. ASSUME NEW i \in 1..n, i # k
          PROVE  run'.task[i] = "done" <=> \E j \in 1..(m + 1) : finished'[j].index = i
      <4>1. run'.task[i] = "done" <=> run.task[i] = "done"
        BY <1>3, <1>5, <3>3
      <4>2. run.task[i] = "done" <=> \E j \in 1..m : finished[j].index = i
        BY <2>1
      <4>3. \A j \in 1..(m + 1) : finished'[j].index = i => j \in 1..m
        BY <2>5, <2>6, <2>8, <3>3
      <4> QED BY <2>6, <3>1, <4>1, <4>2, <4>3
    <3>4. /\ run'.task[k] = "done"
          /\ \E j \in 1..(m + 1) : finished'[j].index = k
      BY <1>3, <1>5, <2>5, <2>6, <3>2
    <3> QED BY <3>3, <3>4
  <2> QED BY <1>6, <2>6, <2>9, <2>10, <2>11 DEF FinishedOnce
<1>9. PermitsHeld'
  <2>1. InsideNow' = InsideNow \ {k} /\ k \in InsideNow
    BY <1>2, <1>3, <1>5, <1>6 DEF InsideNow, InPipeline
  <2>2. IsFiniteSet(InsideNow)
    <3>1. InsideNow \in SUBSET (1..n)
      BY <1>2 DEF InsideNow
    <3> QED BY <1>2, <3>1, UpTo, FS_Subset
  <2>3. Cardinality(InsideNow) \in Nat
    BY <2>2, FS_CardinalityType
  <2>4. Cardinality(InsideNow') = Cardinality(InsideNow) - 1
    BY <2>1, <2>2, FS_RemoveElement
  <2>5. run.permits + Cardinality(InsideNow) = Concurrency /\ run.permits \in Nat
    BY <1>1 DEF RunnerInv, PermitsHeld
  <2>6. run.permits + 1 + Cardinality(InsideNow') = Concurrency
    BY <2>3, <2>4, <2>5
  <2> QED BY <1>5, <2>6 DEF PermitsHeld
<1>10. SoundReports' /\ runs' \in 0..MaxRuns
  BY DEF RunnerInv, SoundReports, Finish
<1>11. IdleWithoutTasks'
  BY <1>2, <1>5, <1>6 DEF RunnerInv, IdleWithoutTasks
<1>12. SelectionKept'
  BY <1>2, <1>6 DEF RunnerInv, SelectionKept, Finish
<1> QED BY <1>7, <1>8, <1>9, <1>10, <1>11, <1>12 DEF RunnerInv

LEMMA LeftScored ==
    ASSUME RunnerInv, NEW k \in DOMAIN run.task, NEW s,
           run.variant # "none" => s \in FinalStatesOf[run.variant],
           run.variant # "none"
    PROVE  ScoreCase(Dataset[k], s, EvaluateReview) \in Scores(k)
<1>1. run.variant \in Variants
  BY DEF RunnerInv, RunTyped
<1>2. s \in EndStates
  BY <1>1 DEF EndStates
<1>3. EvaluateReview \in BOOLEAN
  BY DEF EvaluateReview
<1> QED BY <1>2, <1>3 DEF Scores

LEMMA EndKeeps ==
    ASSUME RunnerInv, NEW k \in DOMAIN run.task,
           InvestigationEscalates(k) \/ PipelineReturns(k) \/ PipelineRaises(k)
    PROVE  RunnerInv'
<1>1. run.variant # "none"
  BY DEF RunnerInv, IdleWithoutTasks
<1>2. InPipeline(k)
  BY DEF InvestigationEscalates, PipelineReturns, PipelineRaises, InPipeline
<1>3. CASE InvestigationEscalates(k)
  <2>1. PICK s \in FinalStatesOf[run.variant] :
           Finish(k, ScoreCase(Dataset[k], s, EvaluateReview))
    BY <1>3 DEF InvestigationEscalates
  <2> QED BY <1>1, <1>2, <2>1, LeftScored, FinishKeeps
<1>4. CASE PipelineReturns(k)
  <2>1. PICK s \in FinalStatesOf[run.variant] :
           Finish(k, ScoreCase(Dataset[k], s, EvaluateReview))
    BY <1>4 DEF PipelineReturns
  <2> QED BY <1>1, <1>2, <2>1, LeftScored, FinishKeeps
<1>5. CASE PipelineRaises(k)
  <2>1. EvaluateReview \in BOOLEAN
    BY DEF EvaluateReview
  <2>2. ScoreErrorCase(Dataset[k], EvaluateReview) \in Scores(k)
    BY <2>1 DEF Scores
  <2> QED BY <1>2, <1>5, <2>2, FinishKeeps DEF PipelineRaises
<1> QED BY <1>3, <1>4, <1>5

LEMMA WriteReportKeeps ==
    ASSUME RunnerInv, WriteReport
    PROVE  RunnerInv'
<1> DEFINE report == BuildReport(run.variant, Gathered)
<1>1. run.variant \in Variants
  BY DEF RunnerInv, RunTyped, WriteReport
<1>2. Sound(report) /\ Len(report.cases) = selected.run
  <2>1. /\ Gathered \in Seq(AnyScore) /\ Len(Gathered) <= Len(Dataset)
        /\ DOMAIN run.task = 1..Len(Gathered)
        /\ \A k \in DOMAIN Gathered : Gathered[k] \in Scores(k)
    BY GatheredInOrder DEF RunnerInv, WriteReport
  <2>2. report.cases = Gathered
    BY DEF BuildReport
  <2>3. Len(Gathered) = selected.run
    <3>1. selected.run \in Nat /\ DOMAIN run.task = 1..selected.run
      BY SelectedCases DEF RunnerInv, SelectionKept
    <3>2. PICK m \in Nat : m = Len(Gathered)
      BY <2>1
    <3> QED BY <2>1, <3>1, <3>2
  <2> QED BY <2>1, <2>2, <2>3, BuiltSound
<1>3. reports' = [reports EXCEPT ![run.variant] = {report}]
  BY DEF WriteReport
<1> HIDE DEF report
<1>4. SoundReports'
  BY <1>1, <1>2, <1>3 DEF RunnerInv, SoundReports
<1>5. run' = [variant |-> "none", task |-> << >>, permits |-> Concurrency]
  BY DEF WriteReport, NoRun
<1>6. run'.task \in [1..0 -> TaskStates] /\ DOMAIN run'.task = {}
  BY <1>5
<1>7. RunTyped'
  BY <1>5, <1>6, EvalRunnerAssumption DEF RunTyped
<1>8. FinishedOnce'
  BY <1>6 DEF WriteReport, FinishedOnce
<1>9. InsideNow' = {}
  BY <1>6 DEF InsideNow
<1>10. PermitsHeld'
  BY <1>5, <1>9, FS_EmptySet, EvalRunnerAssumption DEF PermitsHeld
<1>11. SelectionKept'
  <2>1. selected' = [run |-> 0,
                     report |-> [selected.report EXCEPT ![run.variant] = selected.run]]
    BY DEF WriteReport
  <2>2. SelectionKept /\ DOMAIN reports = Variants
    BY DEF RunnerInv, SoundReports
  <2>3. DOMAIN run'.task = 1..0
    BY <1>6
  <2> QED BY <1>1, <1>2, <1>3, <2>1, <2>2, <2>3 DEF SelectionKept
<1> QED BY <1>4, <1>6, <1>7, <1>8, <1>10, <1>11
        DEF RunnerInv, IdleWithoutTasks, WriteReport

LEMMA RunnerNext == RunnerInv /\ [Next]_vars => RunnerInv'
<1> SUFFICES ASSUME RunnerInv, [Next]_vars PROVE RunnerInv'
  OBVIOUS
<1>1. ASSUME NEW variant \in Variants, NEW n \in Selections, RunDataset(variant, n)
      PROVE  RunnerInv'
  BY <1>1, RunDatasetKeeps
<1>2. ASSUME NEW k \in DOMAIN run.task, TaskStep(k) PROVE RunnerInv'
  BY <1>2, EnterSemaphoreKeeps, InvestigationFindsCauseKeeps, EndKeeps DEF TaskStep
<1>3. CASE WriteReport
  BY <1>3, WriteReportKeeps
<1>4. CASE UNCHANGED vars
  <2>1. /\ run' = run /\ finished' = finished /\ reports' = reports
        /\ selected' = selected /\ runs' = runs
    BY <1>4 DEF vars
  <2>2. InsideNow' = InsideNow
    BY <2>1 DEF InsideNow, InPipeline
  <2> QED BY <2>1, <2>2 DEF RunnerInv, RunTyped, FinishedOnce, SoundReports,
             PermitsHeld, IdleWithoutTasks, SelectionKept
<1> QED BY <1>1, <1>2, <1>3, <1>4 DEF Next, RunStep

LEMMA RunnerInvariant == Spec => []RunnerInv
  BY RunnerInit, RunnerNext, PTL DEF Spec

-----------------------------------------------------------------------------
(* What two reports of the same cases agree on. *)

\* What every score of a case says alike, also that of a case that raised.
Fits(d, result) ==
    /\ result.id = d.id /\ result.tags = d.tags
    /\ result.root # {} <=> RootApplies(d)
    /\ result.plan # {} <=> d.actions # {}
    /\ result.customer # {} <=> d.customer
    /\ result.approval # {} <=> d.approval # {}

LEMMA ScoresFit ==
    \A k : \A result \in Scores(k) : Fits(Dataset[k], result)
<1>1. ASSUME NEW d, NEW s, NEW b
      PROVE  Fits(d, ScoreCase(d, s, b))
  BY DEF Fits, ScoreCase
<1>2. ASSUME NEW d, NEW b
      PROVE  Fits(d, ScoreErrorCase(d, b))
  BY DEF Fits, ScoreErrorCase, FailedIf
<1> QED BY <1>1, <1>2 DEF Scores

LEMMA SoundCases ==
    ASSUME NEW report, Sound(report)
    PROVE  \E n \in Nat :
              /\ DOMAIN report.cases = 1..n /\ Len(report.cases) = n
              /\ 1..n \subseteq DOMAIN Dataset
              /\ \A k \in 1..n : Fits(Dataset[k], report.cases[k])
<1> DEFINE n == Len(report.cases)
<1>1. n \in Nat /\ DOMAIN report.cases = 1..n /\ n <= Len(Dataset)
  BY DEF Sound
<1>2. DOMAIN Dataset = 1..Len(Dataset) /\ Len(Dataset) \in Nat
  BY SelectedCases
<1>3. \A k \in 1..n : Fits(Dataset[k], report.cases[k])
  BY <1>1, ScoresFit DEF Sound
<1> HIDE DEF n
<1>4. 1..n \subseteq DOMAIN Dataset
  BY <1>1, <1>2
<1> QED BY <1>1, <1>3, <1>4 DEF n

LEMMA ReportSound ==
    ASSUME SoundReports, NEW variant \in Reported
    PROVE  Sound(Report(variant))
  BY DEF SoundReports, Reported, Report

\* The same ids, and so the same number of cases: ids are not repeated.
LEMMA SameCases ==
    ASSUME NEW left, NEW right, Sound(left), Sound(right), Comparable(left, right)
    PROVE  \E n \in Nat :
              /\ 1..n \subseteq DOMAIN Dataset
              /\ \A report \in {left, right} :
                    /\ DOMAIN report.cases = 1..n /\ Len(report.cases) = n
                    /\ \A k \in 1..n : Fits(Dataset[k], report.cases[k])
<1>1. PICK n \in Nat :
         /\ DOMAIN left.cases = 1..n /\ Len(left.cases) = n
         /\ 1..n \subseteq DOMAIN Dataset
         /\ \A k \in 1..n : Fits(Dataset[k], left.cases[k])
  BY SoundCases
<1>2. PICK m \in Nat :
         /\ DOMAIN right.cases = 1..m /\ Len(right.cases) = m
         /\ 1..m \subseteq DOMAIN Dataset
         /\ \A k \in 1..m : Fits(Dataset[k], right.cases[k])
  BY SoundCases
<1>3. /\ CaseIds(left) = {Dataset[k].id : k \in 1..n}
      /\ CaseIds(right) = {Dataset[k].id : k \in 1..m}
  BY <1>1, <1>2 DEF CaseIds, Fits
<1>4. {Dataset[k].id : k \in 1..n} = {Dataset[k].id : k \in 1..m}
  BY <1>3 DEF Comparable
<1>5. \A k \in 1..m : k \in 1..n
  <2> SUFFICES ASSUME NEW k \in 1..m PROVE k \in 1..n
    OBVIOUS
  <2>1. PICK j \in 1..n : Dataset[j].id = Dataset[k].id
    BY <1>4
  <2> QED BY <1>1, <1>2, <2>1, EvalRunnerAssumption
<1>6. \A k \in 1..n : k \in 1..m
  <2> SUFFICES ASSUME NEW k \in 1..n PROVE k \in 1..m
    OBVIOUS
  <2>1. PICK j \in 1..m : Dataset[j].id = Dataset[k].id
    BY <1>4
  <2> QED BY <1>1, <1>2, <2>1, EvalRunnerAssumption
<1>7. n = m
  <2>1. n <= m
    BY <1>6
  <2>2. m <= n
    BY <1>5
  <2> QED BY <2>1, <2>2
<1> QED BY <1>1, <1>2, <1>7

\* accuracy[metric].of counts the cases that the metric applies to.
LEMMA AccuracyOf ==
    ASSUME NEW report, Sound(report)
    PROVE  /\ report.accuracy["stage"].of = Len(report.cases)
           /\ \A metric \in {"root", "plan", "customer", "approval"} :
                 report.accuracy[metric].of =
                    Cardinality({k \in DOMAIN report.cases :
                                    report.cases[k][metric] # {}})
<1> DEFINE variant == report.variant
           results == report.cases
           accuracy == report.accuracy
<1>0. accuracy = BuildReport(variant, results).accuracy
  BY DEF Sound
<1> HIDE DEF variant, results
<1>1. accuracy = [stage    |-> [hits |-> Count(results, "stage"), of |-> Len(results)],
                  root     |-> OptionalAccuracy(results, "root"),
                  plan     |-> OptionalAccuracy(results, "plan"),
                  review   |-> OptionalAccuracy(results, "review"),
                  customer |-> OptionalAccuracy(results, "customer"),
                  approval |-> OptionalAccuracy(results, "approval")]
  BY <1>0 DEF BuildReport
<1> HIDE DEF accuracy
<1>2. /\ accuracy["stage"].of = Len(results)
      /\ \A metric \in {"root", "plan", "customer", "approval"} :
            accuracy[metric] = OptionalAccuracy(results, metric)
  BY <1>1
<1>3. \A metric : OptionalAccuracy(results, metric).of =
                     Cardinality({k \in DOMAIN results : results[k][metric] # {}})
  BY DEF OptionalAccuracy
<1> QED BY <1>2, <1>3 DEF accuracy, results

LEMMA EqualDenominators ==
    ASSUME NEW left, NEW right, Sound(left), Sound(right), Comparable(left, right),
           NEW metric \in {"stage", "root", "plan", "customer", "approval"}
    PROVE  left.accuracy[metric].of = right.accuracy[metric].of
<1>1. PICK n \in Nat :
         /\ 1..n \subseteq DOMAIN Dataset
         /\ \A report \in {left, right} :
               /\ DOMAIN report.cases = 1..n /\ Len(report.cases) = n
               /\ \A k \in 1..n : Fits(Dataset[k], report.cases[k])
  BY SameCases
<1> DEFINE Counted(report) == {k \in DOMAIN report.cases : report.cases[k][metric] # {}}
<1>2. ASSUME NEW report, Sound(report)
      PROVE  /\ report.accuracy["stage"].of = Len(report.cases)
             /\ metric # "stage" => report.accuracy[metric].of = Cardinality(Counted(report))
  <2>1. report.accuracy["stage"].of = Len(report.cases)
    BY <1>2, AccuracyOf
  <2>2. ASSUME metric # "stage"
        PROVE  report.accuracy[metric].of = Cardinality(Counted(report))
    <3>1. metric \in {"root", "plan", "customer", "approval"}
      BY <2>2
    <3> QED BY <1>2, <3>1, AccuracyOf
  <2> QED BY <2>1, <2>2
<1>3. CASE metric = "stage"
  BY <1>1, <1>2, <1>3
<1>4. CASE metric # "stage"
  <2>1. \A k \in 1..n : left.cases[k][metric] # {} <=> right.cases[k][metric] # {}
    BY <1>1, <1>4 DEF Fits
  <2>2. Counted(left) = Counted(right)
    BY <1>1, <2>1
  <2> HIDE DEF Counted
  <2> QED BY <1>2, <1>4, <2>2
<1> QED BY <1>3, <1>4

LEMMA EqualTagDenominators ==
    ASSUME NEW left, NEW right, Sound(left), Sound(right), Comparable(left, right),
           NEW tag \in DOMAIN TagComparison(left, right)
    PROVE  LET byTag == TagComparison(left, right)
           IN  {rate.of : rate \in byTag[tag][1]} = {rate.of : rate \in byTag[tag][2]}
<1>1. PICK n \in Nat :
         /\ 1..n \subseteq DOMAIN Dataset
         /\ \A report \in {left, right} :
               /\ DOMAIN report.cases = 1..n /\ Len(report.cases) = n
               /\ \A k \in 1..n : Fits(Dataset[k], report.cases[k])
  BY SameCases
<1> DEFINE Tagged == {k \in 1..n : tag \in Dataset[k].tags}
           Rates(report) == {report.tags[t] : t \in DOMAIN report.tags \cap {tag}}
<1>2. /\ tag \in DOMAIN left.tags \cup DOMAIN right.tags
      /\ TagComparison(left, right)[tag] = <<Rates(left), Rates(right)>>
  BY DEF TagComparison
<1>3. ASSUME NEW report \in {left, right}
      PROVE  /\ tag \in DOMAIN report.tags <=> Tagged # {}
             /\ tag \in DOMAIN report.tags => report.tags[tag].of = Cardinality(Tagged)
  <2>1. report.tags = TagRates(report.cases, "passed")
    <3>1. report.tags = BuildReport(report.variant, report.cases).tags
      BY <1>3 DEF Sound
    <3> QED BY <3>1 DEF BuildReport
  <2>2. \A k \in 1..n : report.cases[k].tags = Dataset[k].tags
    BY <1>1 DEF Fits
  <2>3. {k \in DOMAIN report.cases : tag \in report.cases[k].tags} = Tagged
    BY <1>1, <2>2
  <2>4. tag \in TagsOf(report.cases) <=> Tagged # {}
    BY <2>3 DEF TagsOf
  <2> HIDE DEF Tagged
  <2> QED BY <2>1, <2>3, <2>4 DEF TagRates
<1> HIDE DEF Tagged
<1>4. ASSUME NEW report \in {left, right}
      PROVE  {rate.of : rate \in Rates(report)} = {Cardinality(Tagged)}
  <2>1. Tagged # {}
    BY <1>2, <1>3
  <2>2. tag \in DOMAIN report.tags
    BY <1>3, <2>1
  <2>3. Rates(report) = {report.tags[tag]}
    BY <2>2
  <2> QED BY <1>3, <2>2, <2>3
<1>5. {rate.of : rate \in Rates(left)} = {rate.of : rate \in Rates(right)}
  BY <1>4
<1> HIDE DEF Rates
<1> QED BY <1>2, <1>5

-----------------------------------------------------------------------------
(* What one of two variants passed and the other did not. *)

LEMMA MappedCase ==
    ASSUME NEW report, NEW n \in Nat, 1..n \subseteq DOMAIN Dataset,
           DOMAIN report.cases = 1..n,
           \A k \in 1..n : Fits(Dataset[k], report.cases[k]),
           NEW k \in 1..n
    PROVE  CaseMap(report)[Dataset[k].id] = report.cases[k]
<1> DEFINE id == Dataset[k].id
           Last(j) == /\ report.cases[j].id = id
                      /\ \A i \in DOMAIN report.cases : report.cases[i].id = id => i <= j
<1>1. \A j \in 1..n : report.cases[j].id = id <=> j = k
  BY EvalRunnerAssumption DEF Fits
<1>2. \A j \in DOMAIN report.cases : Last(j) <=> j = k
  BY <1>1
<1>3. (CHOOSE j \in DOMAIN report.cases : Last(j)) = k
  BY <1>2
<1>4. id \in CaseIds(report)
  BY <1>1 DEF CaseIds
<1> QED BY <1>3, <1>4 DEF CaseMap

LEMMA OnlyPassesCounted ==
    ASSUME NEW left, NEW right, NEW metric, NEW n \in Nat,
           1..n \subseteq DOMAIN Dataset,
           \A report \in {left, right} :
              /\ DOMAIN report.cases = 1..n
              /\ \A k \in 1..n : Fits(Dataset[k], report.cases[k])
    PROVE  Cardinality(OnlyPasses(left, right, metric)) =
              Cardinality({k \in 1..n : left.cases[k][metric]}
                             \ {k \in 1..n : right.cases[k][metric]})
<1> DEFINE S == {k \in 1..n : left.cases[k][metric]}
                    \ {k \in 1..n : right.cases[k][metric]}
           T == OnlyPasses(left, right, metric)
           f == [k \in S |-> Dataset[k].id]
<1>1. \A k \in 1..n : /\ CaseMap(left)[Dataset[k].id] = left.cases[k]
                       /\ CaseMap(right)[Dataset[k].id] = right.cases[k]
  BY MappedCase
<1>2. CaseIds(left) = {Dataset[k].id : k \in 1..n}
  BY DEF CaseIds, Fits
<1>3. T = {id \in CaseIds(left) :
             CaseMap(left)[id][metric] /\ ~CaseMap(right)[id][metric]}
  BY DEF OnlyPasses
<1>4. \A k \in 1..n : k \in S <=> Dataset[k].id \in T
  BY <1>1, <1>2, <1>3
<1>5. \A id \in T : \E k \in 1..n : id = Dataset[k].id
  BY <1>2, <1>3
<1>6. S \in SUBSET (1..n)
  OBVIOUS
<1>7. IsFiniteSet(S)
  BY <1>6, UpTo, FS_Subset
<1> HIDE DEF S, T
<1>8. f \in [S -> T]
  BY <1>4, <1>6
<1>9. \A x, y \in S : f[x] = f[y] => x = y
  BY <1>6, EvalRunnerAssumption
<1>10. \A z \in T : \E x \in S : f[x] = z
  BY <1>4, <1>5
<1> HIDE DEF f
<1>11. Cardinality(T) = Cardinality(S)
  BY <1>7, <1>8, <1>9, <1>10, SameSize
<1> QED BY <1>11 DEF S, T

LEMMA DeltaAddsUp ==
    ASSUME NEW left, NEW right, Sound(left), Sound(right), Comparable(left, right),
           NEW metric
    PROVE  Count(left.cases, metric) - Count(right.cases, metric) =
              Cardinality(OnlyPasses(left, right, metric))
                 - Cardinality(OnlyPasses(right, left, metric))
<1>1. PICK n \in Nat :
         /\ 1..n \subseteq DOMAIN Dataset
         /\ \A report \in {left, right} :
               /\ DOMAIN report.cases = 1..n /\ Len(report.cases) = n
               /\ \A k \in 1..n : Fits(Dataset[k], report.cases[k])
  BY SameCases
<1> DEFINE S == {k \in 1..n : left.cases[k][metric]}
           T == {k \in 1..n : right.cases[k][metric]}
<1>2. Count(left.cases, metric) = Cardinality(S) /\ Count(right.cases, metric) = Cardinality(T)
  BY <1>1 DEF Count
<1>3. Cardinality(OnlyPasses(left, right, metric)) = Cardinality(S \ T)
  BY <1>1, OnlyPassesCounted
<1>4. Cardinality(OnlyPasses(right, left, metric)) = Cardinality(T \ S)
  BY <1>1, OnlyPassesCounted
<1>5. IsFiniteSet(S) /\ IsFiniteSet(T)
  <2>1. S \in SUBSET (1..n) /\ T \in SUBSET (1..n)
    OBVIOUS
  <2> HIDE DEF S, T
  <2> QED BY <2>1, UpTo, FS_Subset
<1> HIDE DEF S, T
<1>6. Cardinality(S) - Cardinality(T) = Cardinality(S \ T) - Cardinality(T \ S)
  BY <1>5, Differences
<1> QED BY <1>2, <1>3, <1>4, <1>6

-----------------------------------------------------------------------------

\* TypeOK: the semaphore never has more permits than it started with, nor
\* fewer than none, and no task is scored twice, however the cases end.
THEOREM TypeCorrect == Spec => []TypeOK
<1>1. RunnerInv => TypeOK
  <2> SUFFICES ASSUME RunnerInv PROVE TypeOK
    OBVIOUS
  <2>1. PICK n \in Selections \cup {0} :
           run \in [variant : Variants \cup {"none"}, task : [1..n -> TaskStates],
                    permits : Nat]
    BY DEF RunnerInv, RunTyped
  <2>2. n \in Nat /\ DOMAIN run.task = 1..n /\ run.task \in Seq(TaskStates)
    <3>1. n \in Nat
      BY SelectedCases
    <3> QED BY <2>1, <3>1
  <2>3. Len(run.task) = n
    BY <2>2
  <2>4. IsFiniteSet(InsideNow)
    <3>1. InsideNow \in SUBSET (1..n)
      BY <2>2 DEF InsideNow
    <3> QED BY <2>2, <3>1, UpTo, FS_Subset
  <2>5. run.permits \in 0..Concurrency
    <3>1. Cardinality(InsideNow) \in Nat /\ run.permits \in Nat
      BY <2>1, <2>4, FS_CardinalityType
    <3> QED BY <3>1, EvalRunnerAssumption DEF RunnerInv, PermitsHeld
  <2>6. run \in [variant : Variants \cup {"none"},
                 task : UNION {[1..i -> TaskStates] : i \in Selections \cup {0}},
                 permits : 0..Concurrency]
    BY <2>1, <2>5
  <2>7. Len(finished) <= Len(run.task)
    <3> DEFINE Entries == [index : 1..n, result : AnyScore]
    <3>1. finished \in Seq(Entries)
      BY <2>2 DEF RunnerInv, FinishedOnce
    <3>2. \A j \in 1..Len(finished) : finished[j] \in Entries
      <4> HIDE DEF Entries
      <4> QED BY <3>1
    <3>3. PICK m \in Nat : m = Len(finished) /\ DOMAIN finished = 1..m
      BY <3>1
    <3> DEFINE f == [j \in 1..m |-> finished[j].index]
    <3>4. f \in [1..m -> 1..n]
      BY <3>2, <3>3
    <3>5. \A i, j \in 1..m : f[i] = f[j] => i = j
      BY <3>3 DEF RunnerInv, FinishedOnce
    <3> HIDE DEF f
    <3>6. f \in Injection(1..m, 1..n)
      BY <3>4, <3>5 DEF Injection, IsInjective
    <3>7. Cardinality(1..m) <= Cardinality(1..n)
      BY <2>2, <3>6, UpTo, FS_Injection
    <3> QED BY <2>2, <2>3, <3>3, <3>7, UpTo
  <2>8. \A j \in DOMAIN finished : finished[j].result.id = Dataset[finished[j].index].id
    BY ScoresFit DEF RunnerInv, FinishedOnce, Fits
  <2> QED BY <2>6, <2>7, <2>8
          DEF RunnerInv, SoundReports, SelectionKept, TypeOK, TaskStates
<1> QED BY <1>1, RunnerInvariant, PTL

AtMostConcurrency == Cardinality(InsideNow) <= Concurrency

\* runner.py's semaphore: no more than --concurrency cases are investigated
\* or planned at a time, also when some of them raise.
THEOREM ConcurrencyIsKept == Spec => []AtMostConcurrency
<1>1. RunnerInv => AtMostConcurrency
  <2> SUFFICES ASSUME RunnerInv PROVE AtMostConcurrency
    OBVIOUS
  <2>1. PICK n \in Selections \cup {0} :
           /\ run.task \in [1..n -> TaskStates] /\ run.permits \in Nat
           /\ n \in Nat
    BY SelectedCases DEF RunnerInv, RunTyped
  <2>2. InsideNow \in SUBSET (1..n)
    BY <2>1 DEF InsideNow
  <2>3. Cardinality(InsideNow) \in Nat
    BY <2>1, <2>2, UpTo, FS_Subset, FS_CardinalityType
  <2> QED BY <2>1, <2>3, EvalRunnerAssumption
          DEF RunnerInv, PermitsHeld, AtMostConcurrency
<1> QED BY <1>1, RunnerInvariant, PTL

\* ResultsInOrder: for every data set, selection and concurrency, and in
\* whatever order the tasks end or raise, a report has as many results as its
\* run had cases to evaluate, and the k-th of them is of the k-th case.
THEOREM OrderedResults == Spec => []ResultsInOrder
<1>1. RunnerInv => ResultsInOrder
  <2> SUFFICES ASSUME RunnerInv, NEW variant \in Reported
               PROVE  [k \in DOMAIN Report(variant).cases |-> Report(variant).cases[k].id]
                         = [k \in 1..selected.report[variant] |-> Dataset[k].id]
    BY DEF ResultsInOrder
  <2>1. Sound(Report(variant))
    BY ReportSound DEF RunnerInv
  <2>2. Len(Report(variant).cases) = selected.report[variant]
    <3>1. variant \in Variants /\ Report(variant) \in reports[variant]
      BY DEF Reported, Report
    <3> QED BY <3>1 DEF RunnerInv, SelectionKept
  <2>3. PICK n \in Nat :
           /\ DOMAIN Report(variant).cases = 1..n /\ Len(Report(variant).cases) = n
           /\ \A k \in 1..n : Fits(Dataset[k], Report(variant).cases[k])
    BY <2>1, SoundCases
  <2> QED BY <2>2, <2>3 DEF Fits
<1> QED BY <1>1, RunnerInvariant, PTL

\* SameDenominators: the accuracies and tag rates of two comparable reports
\* are out of the same numbers of cases, whatever raised in either run.
THEOREM EqualBases == Spec => []SameDenominators
<1>1. RunnerInv => SameDenominators
  <2> SUFFICES ASSUME RunnerInv, NEW pair \in Pairs
               PROVE  LET left == Report(pair[1])
                          right == Report(pair[2])
                          byTag == TagComparison(left, right)
                      IN  /\ \A metric \in {"stage", "root", "plan", "customer", "approval"} :
                                left.accuracy[metric].of = right.accuracy[metric].of
                          /\ \A tag \in DOMAIN byTag :
                                {rate.of : rate \in byTag[tag][1]}
                                   = {rate.of : rate \in byTag[tag][2]}
    BY DEF SameDenominators
  <2>1. /\ Sound(Report(pair[1])) /\ Sound(Report(pair[2]))
        /\ Comparable(Report(pair[1]), Report(pair[2]))
    BY ReportSound DEF RunnerInv, Pairs
  <2>2. \A metric \in {"stage", "root", "plan", "customer", "approval"} :
          Report(pair[1]).accuracy[metric].of = Report(pair[2]).accuracy[metric].of
    BY <2>1, EqualDenominators
  <2> DEFINE byTag == TagComparison(Report(pair[1]), Report(pair[2]))
  <2>3. \A tag \in DOMAIN byTag :
          {rate.of : rate \in byTag[tag][1]} = {rate.of : rate \in byTag[tag][2]}
    BY <2>1, EqualTagDenominators
  <2> HIDE DEF byTag
  <2> QED BY <2>2, <2>3 DEF byTag
<1> QED BY <1>1, RunnerInvariant, PTL

\* ComparisonAddsUp: the difference of two pass counts is the number of cases
\* that only the one variant passed less that of those only the other passed.
THEOREM DeltasAddUp == Spec => []ComparisonAddsUp
<1>1. RunnerInv => ComparisonAddsUp
  <2> SUFFICES ASSUME RunnerInv, NEW pair \in Pairs
               PROVE  LET paired == PairedComparison(Report(pair[1]), Report(pair[2]))
                      IN  /\ paired.delta =
                                Cardinality(paired.leftOnly) - Cardinality(paired.rightOnly)
                          /\ paired.strictDelta =
                                Cardinality(paired.leftOnlyStrict)
                                   - Cardinality(paired.rightOnlyStrict)
    BY DEF ComparisonAddsUp
  <2> DEFINE left == Report(pair[1])
             right == Report(pair[2])
  <2>1. Sound(left) /\ Sound(right) /\ Comparable(left, right)
    BY ReportSound DEF RunnerInv, Pairs
  <2> HIDE DEF left, right
  <2>2. ASSUME NEW report, Sound(report)
        PROVE  /\ report.passed = Count(report.cases, "passed")
               /\ report.strict = Count(report.cases, "strict")
    <3>1. /\ report.passed = BuildReport(report.variant, report.cases).passed
          /\ report.strict = BuildReport(report.variant, report.cases).strict
      BY <2>2 DEF Sound
    <3> QED BY <3>1 DEF BuildReport
  <2>3. /\ left.passed - right.passed =
              Cardinality(OnlyPasses(left, right, "passed"))
                 - Cardinality(OnlyPasses(right, left, "passed"))
        /\ left.strict - right.strict =
              Cardinality(OnlyPasses(left, right, "strict"))
                 - Cardinality(OnlyPasses(right, left, "strict"))
    BY <2>1, <2>2, DeltaAddsUp
  <2> QED BY <2>3 DEF PairedComparison, left, right
<1> QED BY <1>1, RunnerInvariant, PTL
=============================================================================
