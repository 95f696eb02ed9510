---------------------------- MODULE AgentRunProps ----------------------------
(* What the guardrail promises of an investigation: properties of AgentRun. *)
EXTENDS AgentRun

\* However the calls of a response overlap and however often the manager
\* delegates, no more than investigator_max_tool_calls reach the enterprise
\* tools, only READ tools do, and the count that the case's row will get as
\* its tool_calls is what did.
BudgetKept ==
    /\ calls = Len(executed)
    /\ Len(executed) <= MaxToolCalls
    /\ \A k \in 1..Len(executed) : executed[k] \in ReadCalls

\* investigator.py:209-213: a third consecutive identical request never
\* reaches a tool, also when refused calls came between or the run of equal
\* calls is spread over several responses.
LoopsAreBroken ==
    \A k \in 3..Len(executed) :
        ~(executed[k] = executed[k - 1] /\ executed[k] = executed[k - 2])

\* A model that only repeats refused calls, or delegates without an end, is
\* stopped: every run answers or raises.
RunEnds == <>(pc \in {"answered", "raised"})
=============================================================================
