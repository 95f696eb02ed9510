------------------------------ MODULE AgentRun ------------------------------
(***************************************************************************)
(* One run of the case manager and its investigator (backend/app/agents):  *)
(* run_agent_with_state, the InvestigatorToolGuardrail before every tool   *)
(* call and after_investigator_tool after it, over one session state that  *)
(* all of them share.  The agent framework and the models are external: a  *)
(* model may ask for several tool calls in one response; the framework     *)
(* runs them as concurrent tasks, calls the guardrail without an await,    *)
(* and the after-callback also for a call the guardrail refused.           *)
(***************************************************************************)
EXTENDS Naturals, Sequences

CONSTANTS
    ReadCalls,      \* the calls (tool and arguments) of INVESTIGATOR_READ_TOOLS
    OtherCalls,     \* calls of any other tool
    NoCall,
    MaxToolCalls,   \* settings.investigator_max_tool_calls
    MaxLlmCalls,    \* settings.investigation_max_llm_calls
    MaxBatch        \* bound: tool calls in one response

ASSUME AgentRunAssumption ==
    /\ ReadCalls \cap OtherCalls = {}
    /\ NoCall \notin ReadCalls \cup OtherCalls
    /\ {MaxToolCalls, MaxLlmCalls, MaxBatch} \subseteq Nat \ {0}

ToolCalls == ReadCalls \cup OtherCalls

Tasks == [call : ToolCalls, pc : {"asked", "running", "refused", "ended"}]

VARIABLES
    pc,         \* who is at work, or how the run ended
    tasks,      \* the tool calls of the investigator's last response
    llmCalls,   \* model calls so far
    calls,      \* session state: investigator_tool_calls
    last,       \* investigator_last_tool_signature
    repeats,    \* investigator_repeat_count
    result,     \* investigation_result: whether the investigator has answered
    executed    \* history: the calls that reached the MCP server

guardrail == <<calls, last, repeats>>
vars == <<pc, tasks, llmCalls, guardrail, result, executed>>

TypeOK ==
    /\ pc \in {"case_manager", "investigator", "tools", "answered", "raised"}
    /\ tasks \in Seq(Tasks) /\ Len(tasks) <= MaxBatch
    /\ llmCalls \in 0..MaxLlmCalls
    /\ calls \in Nat
    /\ last \in ToolCalls \cup {NoCall}
    /\ repeats \in 0..1
    /\ result \in {"missing", "given"}
    /\ executed \in Seq(ToolCalls)

Init ==
    /\ pc = "case_manager"
    /\ tasks = << >>
    /\ llmCalls = 0
    /\ calls = 0 /\ last = NoCall /\ repeats = 0
    /\ result = "missing"
    /\ executed = << >>

-----------------------------------------------------------------------------
(* Model calls *)

\* Mutant: the model calls are not counted.
CallModelUncounted(agent) ==
    /\ pc = agent
    /\ llmCalls < MaxLlmCalls
    /\ UNCHANGED llmCalls

\* RunConfig.max_llm_calls
CallModel(agent) ==
    /\ pc = agent
    /\ llmCalls < MaxLlmCalls
    /\ llmCalls' = llmCalls + 1

Delegate ==
    /\ CallModel("case_manager")
    /\ pc' = "investigator"
    /\ UNCHANGED <<tasks, guardrail, result, executed>>

\* The manager's final response; _parse_investigation_result raises when the
\* investigator never answered.
Acknowledge ==
    /\ CallModel("case_manager")
    /\ pc' = IF result = "given" THEN "answered" ELSE "raised"
    /\ UNCHANGED <<tasks, guardrail, result, executed>>

\* The guardrail and the metrics let set_model_response through uncounted.
Answer ==
    /\ CallModel("investigator")
    /\ result' = "given"
    /\ pc' = "case_manager"
    /\ UNCHANGED <<tasks, guardrail, executed>>

Batches == UNION {[1..n -> ToolCalls] : n \in 1..MaxBatch}

AskForTools ==
    /\ CallModel("investigator")
    /\ \E batch \in Batches :
          tasks' = [k \in DOMAIN batch |-> [call |-> batch[k], pc |-> "asked"]]
    /\ pc' = "tools"
    /\ UNCHANGED <<guardrail, result, executed>>

\* A model call fails, or is one too many.
ModelRaises ==
    /\ pc \in {"case_manager", "investigator"}
    /\ pc' = "raised"
    /\ UNCHANGED <<tasks, llmCalls, guardrail, result, executed>>

-----------------------------------------------------------------------------
(* InvestigatorToolGuardrail.__call__ *)

Goto(k, p) == tasks' = [tasks EXCEPT ![k].pc = p]

RepeatCount(call) == IF call = last THEN repeats + 1 ELSE 0

\* Mutant: the limit is tested one call late.
RefusableLate(call) ==
    \/ call \notin ReadCalls
    \/ calls > MaxToolCalls
    \/ RepeatCount(call) >= 2

\* Mutant: one identical call more is tolerated.
RefusableFourth(call) ==
    \/ call \notin ReadCalls
    \/ calls >= MaxToolCalls
    \/ RepeatCount(call) >= 3

\* TOOL_NOT_ALLOWED, TOOL_CALL_LIMIT_REACHED, REPEATED_TOOL_CALL_BLOCKED
Refusable(call) ==
    \/ call \notin ReadCalls
    \/ calls >= MaxToolCalls
    \/ RepeatCount(call) >= 2

Refuse(k) ==
    /\ pc = "tools" /\ tasks[k].pc = "asked"
    /\ Refusable(tasks[k].call)
    /\ Goto(k, "refused")
    /\ UNCHANGED <<pc, llmCalls, guardrail, result, executed>>

\* Mutant: a call that is let through starts the count of repeats again.
AllowAfresh(k) ==
    LET call == tasks[k].call
    IN  /\ pc = "tools" /\ tasks[k].pc = "asked"
        /\ ~Refusable(call)
        /\ Goto(k, "running")
        /\ calls' = calls + 1
        /\ last' = call
        /\ repeats' = 0
        /\ executed' = Append(executed, call)
        /\ UNCHANGED <<pc, llmCalls, result>>

Allow(k) ==
    LET call == tasks[k].call
    IN  /\ pc = "tools" /\ tasks[k].pc = "asked"
        /\ ~Refusable(call)
        /\ Goto(k, "running")
        /\ calls' = calls + 1
        /\ last' = call
        /\ repeats' = RepeatCount(call)
        /\ executed' = Append(executed, call)
        /\ UNCHANGED <<pc, llmCalls, result>>

\* after_investigator_tool; what it measures, nothing reads.
ToolEnded(k) ==
    /\ pc = "tools" /\ tasks[k].pc \in {"running", "refused"}
    /\ Goto(k, "ended")
    /\ UNCHANGED <<pc, llmCalls, guardrail, result, executed>>

\* An MCP call that raises ends the run.
ToolRaises(k) ==
    /\ pc = "tools" /\ tasks[k].pc = "running"
    /\ pc' = "raised"
    /\ UNCHANGED <<tasks, llmCalls, guardrail, result, executed>>

BatchEnded ==
    /\ pc = "tools"
    /\ \A k \in DOMAIN tasks : tasks[k].pc = "ended"
    /\ pc' = "investigator"
    /\ tasks' = << >>
    /\ UNCHANGED <<llmCalls, guardrail, result, executed>>

TaskStep(k) == Refuse(k) \/ Allow(k) \/ ToolEnded(k) \/ ToolRaises(k)

Next ==
    \/ Delegate \/ Acknowledge \/ Answer \/ AskForTools \/ ModelRaises
    \/ \E k \in DOMAIN tasks : TaskStep(k)
    \/ BatchEnded

Spec == Init /\ [][Next]_vars

\* The framework goes on as long as the models and the tools answer or raise.
FairSpec == Spec /\ WF_vars(Next)
=============================================================================
