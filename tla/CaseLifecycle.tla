--------------------------- MODULE CaseLifecycle ----------------------------
(***************************************************************************)
(* The abstract life of a case: what the stages of CaseStage promise, with *)
(* no handlers, snapshots or failures.  A case is diagnosed, planned and   *)
(* reviewed with a bounded number of revisions, decided by a human,        *)
(* carried out action by action, verified and closed; a closed case stays  *)
(* closed.  The detailed modules implement it while the requests for a     *)
(* case come one at a time.                                                *)
(***************************************************************************)
EXTENDS Naturals, Sequences

CONSTANTS Cases, Plans, MaxRevisions

VARIABLES
    stage,
    plan,           \* << >> until one is proposed
    revisions,      \* times the reviewer sent the plan back
    done            \* actions of the plan carried out

lifecycle == <<stage, plan, revisions, done>>

Init ==
    /\ stage \in [Cases -> {"NEW", "AWAITING_APPROVAL"}]
    /\ plan \in [Cases -> Plans \cup {<< >>}]
    /\ \A c \in Cases : stage[c] = "NEW" <=> plan[c] = << >>
    /\ revisions = [c \in Cases |-> 0]
    /\ done = [c \in Cases |-> 0]

Enter(c, from, to) ==
    /\ stage[c] \in from
    /\ \E next \in to : stage' = [stage EXCEPT ![c] = next]

Investigate(c) ==
    /\ \/ Enter(c, {"NEW"}, {"INVESTIGATING"})
       \/ Enter(c, {"INVESTIGATING"}, {"PLANNING", "ESCALATED", "FAILED"})
    /\ UNCHANGED <<plan, revisions, done>>

Propose(c) ==
    /\ Enter(c, {"PLANNING"}, {"REVIEW"})
    /\ \E p \in Plans : plan' = [plan EXCEPT ![c] = p]
    /\ UNCHANGED <<revisions, done>>

Revise(c) ==
    /\ Enter(c, {"REVIEW"}, {"PLANNING"})
    /\ revisions[c] < MaxRevisions
    /\ revisions' = [revisions EXCEPT ![c] = @ + 1]
    /\ UNCHANGED <<plan, done>>

\* Only a reviewed plan is put before the operator, and only the operator
\* lets it be carried out.
Settle(c) ==
    /\ \/ Enter(c, {"PLANNING"}, {"ESCALATED"})
       \/ Enter(c, {"REVIEW"}, {"AWAITING_APPROVAL", "ESCALATED"})
       \/ Enter(c, {"AWAITING_APPROVAL"}, {"EXECUTING", "ESCALATED"})
    /\ UNCHANGED <<plan, revisions, done>>

Perform(c) ==
    /\ stage[c] = "EXECUTING"
    /\ done[c] < Len(plan[c])
    /\ done' = [done EXCEPT ![c] = @ + 1]
    /\ UNCHANGED <<stage, plan, revisions>>

\* The whole plan is carried out before it is verified.
Conclude(c) ==
    /\ \/ Enter(c, {"EXECUTING"}, {"FAILED"})
       \/ done[c] = Len(plan[c]) /\ Enter(c, {"EXECUTING"}, {"VERIFYING"})
       \/ Enter(c, {"VERIFYING"}, {"RESOLVED", "FAILED"})
    /\ UNCHANGED <<plan, revisions, done>>

Next ==
    \E c \in Cases :
        \/ Investigate(c) \/ Propose(c) \/ Revise(c)
        \/ Settle(c) \/ Perform(c) \/ Conclude(c)

Spec == Init /\ [][Next]_lifecycle
=============================================================================
