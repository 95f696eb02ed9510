--------------------------- MODULE AgentRun_proofs ---------------------------
(* Machine-checked proofs about AgentRun, for every set of calls and every  *)
(* value of the limits.                                                     *)
EXTENDS AgentRunProps, SequenceTheorems, TLAPS

-----------------------------------------------------------------------------
(* The invariant: the guardrail's three fields tell enough of the history   *)
(* of the calls that were let through.                                      *)

\* last and repeats describe the end of the history.
TailRemembered ==
    LET n == Len(executed)
    IN  /\ n = 0 => last = NoCall /\ repeats = 0
        /\ n > 0 => last = executed[n]
        /\ n > 1 /\ repeats = 0 => executed[n] # executed[n - 1]

RunInv ==
    /\ TypeOK
    /\ BudgetKept
    /\ LoopsAreBroken
    /\ TailRemembered

LEMMA RunInit == Init => RunInv
<1> SUFFICES ASSUME Init PROVE RunInv
  OBVIOUS
<1>1. Len(tasks) = 0 /\ Len(executed) = 0
  BY DEF Init
<1>2. TypeOK
  BY <1>1, AgentRunAssumption DEF Init, TypeOK
<1> QED BY <1>1, <1>2, AgentRunAssumption
        DEF Init, RunInv, BudgetKept, LoopsAreBroken, TailRemembered

\* What says nothing of the calls let through.
LEMMA GuardrailUntouched ==
    ASSUME RunInv, UNCHANGED <<guardrail, executed>>, TypeOK'
    PROVE  RunInv'
  BY DEF RunInv, guardrail, BudgetKept, LoopsAreBroken, TailRemembered

LEMMA TaskType ==
    ASSUME RunInv, NEW k \in DOMAIN tasks
    PROVE  /\ tasks[k] \in Tasks /\ tasks[k].call \in ToolCalls
           /\ \A p \in {"asked", "running", "refused", "ended"} :
                 Goto(k, p) => tasks' \in Seq(Tasks) /\ Len(tasks') = Len(tasks)
<1>1. tasks \in Seq(Tasks) /\ tasks[k] \in Tasks
  BY DEF RunInv, TypeOK
<1>2. ASSUME NEW p \in {"asked", "running", "refused", "ended"}, Goto(k, p)
      PROVE  tasks' \in Seq(Tasks) /\ Len(tasks') = Len(tasks)
  <2> DEFINE task == [tasks[k] EXCEPT !.pc = p]
  <2>1. task \in Tasks
    BY <1>1 DEF Tasks
  <2>2. tasks' = [tasks EXCEPT ![k] = task]
    BY <1>2 DEF Goto
  <2> HIDE DEF task
  <2> QED BY <1>1, <2>1, <2>2
<1> QED BY <1>1, <1>2 DEF Tasks

LEMMA BatchType ==
    ASSUME RunInv, AskForTools
    PROVE  tasks' \in Seq(Tasks) /\ Len(tasks') <= MaxBatch
<1>1. PICK batch \in Batches :
         tasks' = [k \in DOMAIN batch |-> [call |-> batch[k], pc |-> "asked"]]
  BY DEF AskForTools
<1>2. PICK n \in 1..MaxBatch : batch \in [1..n -> ToolCalls]
  BY <1>1 DEF Batches
<1>3. n \in Nat /\ n <= MaxBatch
  BY <1>2, AgentRunAssumption
<1>4. tasks' \in [1..n -> Tasks]
  BY <1>1, <1>2 DEF Tasks
<1>5. tasks' \in Seq(Tasks)
  BY <1>3, <1>4, SeqDef
<1>6. Len(tasks') = n
  BY <1>3, <1>4, <1>5, LenProperties
<1> QED BY <1>3, <1>5, <1>6

LEMMA ModelType ==
    ASSUME RunInv, NEW agent, CallModel(agent)
    PROVE  llmCalls' \in 0..MaxLlmCalls
  BY AgentRunAssumption DEF CallModel, RunInv, TypeOK

\* The one step that lets a call through.
LEMMA AllowKeeps ==
    ASSUME RunInv, NEW k \in DOMAIN tasks, Allow(k)
    PROVE  RunInv'
<1> DEFINE call == tasks[k].call
           n == Len(executed)
<1>1. /\ call \in ReadCalls /\ call # NoCall /\ calls < MaxToolCalls
      /\ calls' = calls + 1 /\ last' = call
      /\ repeats' = RepeatCount(call) /\ RepeatCount(call) < 2
      /\ executed' = Append(executed, call)
      /\ Goto(k, "running") /\ UNCHANGED <<pc, llmCalls, result>>
  <2>1. RepeatCount(call) \in Nat
    BY DEF RunInv, TypeOK, RepeatCount
  <2> QED BY <2>1, AgentRunAssumption, TaskType
          DEF Allow, Refusable, ToolCalls, RunInv, TypeOK
<1>2. /\ executed \in Seq(ToolCalls) /\ n \in Nat /\ call \in ToolCalls
      /\ calls = n /\ repeats \in 0..1 /\ MaxToolCalls \in Nat
  BY <1>1, AgentRunAssumption DEF RunInv, TypeOK, BudgetKept, ToolCalls
<1> HIDE DEF call
<1>3. /\ executed' \in Seq(ToolCalls) /\ Len(executed') = n + 1
      /\ executed'[n + 1] = call
      /\ \A i \in 1..n : executed'[i] = executed[i]
  BY <1>1, <1>2
<1>4. repeats' = IF call = last THEN repeats + 1 ELSE 0
  BY <1>1 DEF RepeatCount
<1>5. TypeOK'
  <2>1. repeats' \in 0..1
    BY <1>1, <1>2, <1>4
  <2>2. tasks' \in Seq(Tasks) /\ Len(tasks') = Len(tasks)
    BY <1>1, TaskType
  <2> QED BY <1>1, <1>2, <1>3, <2>1, <2>2 DEF RunInv, TypeOK
<1>6. BudgetKept'
  BY <1>1, <1>2, <1>3 DEF RunInv, BudgetKept
<1>7. TailRemembered'
  <2>1. n > 0 => last = executed[n]
    BY DEF RunInv, TailRemembered
  <2>2. n + 1 > 1 /\ repeats' = 0 => executed'[n + 1] # executed'[n]
    BY <1>2, <1>3, <1>4, <2>1
  <2> QED BY <1>1, <1>2, <1>3, <2>2 DEF TailRemembered
<1>8. LoopsAreBroken'
  <2> SUFFICES ASSUME NEW i \in 3..(n + 1),
                      executed'[i] = executed'[i - 1], executed'[i] = executed'[i - 2]
               PROVE  FALSE
    BY <1>3 DEF LoopsAreBroken
  <2>1. CASE i <= n
    <3>1. i \in 3..n /\ i - 1 \in 1..n /\ i - 2 \in 1..n /\ i \in 1..n
      BY <1>2, <2>1
    <3> QED BY <1>3, <3>1 DEF RunInv, LoopsAreBroken
  <2>2. CASE i = n + 1
    <3>1. n > 1 /\ n \in 1..n /\ n - 1 \in 1..n
      BY <1>2, <2>2
    <3>2. executed[n] = call /\ executed[n - 1] = call
      <4>1. i - 1 = n /\ i - 2 = n - 1
        BY <1>2, <2>2
      <4>2. executed'[n] = call /\ executed'[n - 1] = call
        BY <1>3, <2>2, <4>1
      <4> QED BY <1>3, <3>1, <4>2
    <3>3. call = last
      BY <3>1, <3>2 DEF RunInv, TailRemembered
    <3>4. repeats = 0
      BY <1>1, <1>2, <1>4, <3>3
    <3> QED BY <3>1, <3>2, <3>4 DEF RunInv, TailRemembered
  <2> QED BY <1>2, <2>1, <2>2
<1> QED BY <1>5, <1>6, <1>7, <1>8 DEF RunInv

LEMMA RunStep == RunInv /\ [Next]_vars => RunInv'
<1> SUFFICES ASSUME RunInv, [Next]_vars PROVE RunInv'
  OBVIOUS
<1> USE DEF RunInv, TypeOK, guardrail
<1>1. CASE Delegate
  <2>1. TypeOK'
    BY <1>1, ModelType DEF Delegate
  <2> QED BY <1>1, <2>1, GuardrailUntouched DEF Delegate
<1>2. CASE Acknowledge
  <2>1. TypeOK'
    BY <1>2, ModelType DEF Acknowledge
  <2> QED BY <1>2, <2>1, GuardrailUntouched DEF Acknowledge
<1>3. CASE Answer
  <2>1. TypeOK'
    BY <1>3, ModelType DEF Answer
  <2> QED BY <1>3, <2>1, GuardrailUntouched DEF Answer
<1>4. CASE AskForTools
  <2>1. TypeOK'
    BY <1>4, ModelType, BatchType DEF AskForTools
  <2> QED BY <1>4, <2>1, GuardrailUntouched DEF AskForTools
<1>5. CASE ModelRaises
  <2>1. TypeOK'
    BY <1>5 DEF ModelRaises
  <2> QED BY <1>5, <2>1, GuardrailUntouched DEF ModelRaises
<1>6. CASE BatchEnded
  <2>1. TypeOK'
    <3>1. << >> \in Seq(Tasks) /\ Len(<< >>) = 0
      OBVIOUS
    <3> QED BY <1>6, <3>1, AgentRunAssumption DEF BatchEnded
  <2> QED BY <1>6, <2>1, GuardrailUntouched DEF BatchEnded
<1>7. ASSUME NEW k \in DOMAIN tasks, TaskStep(k)
      PROVE  RunInv'
  <2>1. CASE Refuse(k) \/ ToolEnded(k) \/ ToolRaises(k)
    <3>1. tasks' \in Seq(Tasks) /\ Len(tasks') = Len(tasks)
      BY <2>1, TaskType DEF Refuse, ToolEnded, ToolRaises
    <3>2. TypeOK'
      BY <2>1, <3>1 DEF Refuse, ToolEnded, ToolRaises
    <3> QED BY <2>1, <3>2, GuardrailUntouched DEF Refuse, ToolEnded, ToolRaises
  <2>2. CASE Allow(k)
    BY <2>2, AllowKeeps
  <2> QED BY <1>7, <2>1, <2>2 DEF TaskStep
<1>8. CASE UNCHANGED vars
  <2>1. TypeOK'
    BY <1>8 DEF vars
  <2> QED BY <1>8, <2>1, GuardrailUntouched DEF vars
<1> QED BY <1>1, <1>2, <1>3, <1>4, <1>5, <1>6, <1>7, <1>8 DEF Next

LEMMA RunInvariant == Spec => []RunInv
  BY RunInit, RunStep, PTL DEF Spec

-----------------------------------------------------------------------------

\* AgentRun.TypeOK: the counters of the guardrail and of the run's model calls
\* stay within their bounds however the calls of a response are scheduled.
THEOREM TypeCorrect == Spec => []TypeOK
<1>1. RunInv => TypeOK
  BY DEF RunInv
<1> QED BY RunInvariant, <1>1, PTL

\* BudgetKept: for every limit and every size of a response, the guardrail
\* lets through no more calls than investigator_max_tool_calls, none of them
\* of another tool than the READ tools, and counts each of them once.
THEOREM BudgetIsKept == Spec => []BudgetKept
<1>1. RunInv => BudgetKept
  BY DEF RunInv
<1> QED BY RunInvariant, <1>1, PTL

\* LoopsAreBroken: two fields of session state are enough to see that no call
\* is made three times in a row, whatever was refused in between.
THEOREM RepeatsAreBroken == Spec => []LoopsAreBroken
<1>1. RunInv => LoopsAreBroken
  BY DEF RunInv
<1> QED BY RunInvariant, <1>1, PTL
=============================================================================
