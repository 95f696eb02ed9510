------------------------- MODULE CaseExecutionProps -------------------------
(* What the execution of a case promises: properties of CaseExecution. *)
EXTENDS CaseExecution

\* A human approved this action for this case; and a hold may go only when
\* an earlier match of the same plan has made its invoice PAID.
ApprovedFor(c, a) == \E plan \in approved[c] : \E k \in 1..Len(plan) : plan[k] = a

PaidFirst(c, a) ==
    \E plan \in approved[c] : \E k \in 1..Len(plan) :
        /\ plan[k] = a
        /\ \E j \in EarlierMatches(plan, k) : invoice[plan[j].invoice] = "PAID"

\* Whatever requests overlap, crash or fail, the enterprise systems are only
\* changed by actions of a plan a human approved for that very case
\* (validate_execution_authorization, the digest check).
OnlyApprovedEffects == \A e \in applied : ApprovedFor(e.case, e.action)

\* A billing hold is lifted only when an invoice matched earlier in the
\* approved plan is PAID (_verify_paid_invoice_before_hold_removal), also
\* when the tool runs on after its executor died or gave up.
HoldLiftedOnlyAfterPayment ==
    \A e \in applied : IsHoldRemoval(e.action) => PaidFirst(e.case, e.action)

\* The CRM account is restored only for a case whose hold removal reached
\* billing (the two writes of the remove_account_hold tool).
RestoredOnlyAfterHoldRemoval ==
    \A e \in applied : e.system = "crm" => [e EXCEPT !.system = "billing"] \in applied

\* A RESOLVED case is one whose customer really is restored, whatever the
\* snapshot the verifier saved was: the account is ACTIVE, no hold is left
\* and every invoice it recorded as matched is PAID.
ResolvedMeansRestored ==
    \A c \in Cases : row[c].stage = "RESOLVED" =>
        /\ account[CustomerOf[c]] = "ACTIVE"
        /\ hold[CustomerOf[c]] # "ACTIVE"
        /\ Matched(row[c]) # {}
        /\ \A k \in Matched(row[c]) :
              invoice[row[c].executed[k].action.invoice] = "PAID"

\* An action recorded as SUCCESS did reach every system it writes to: lost
\* and stale saves may drop records, never invent them.
SuccessWasApplied ==
    \A c \in Cases : \A k \in 1..Len(row[c].executed) :
        LET x == row[c].executed[k]
            reached(system) ==
                [case |-> c, action |-> x.action, system |-> system] \in applied
        IN  x.status = "SUCCESS" =>
                reached("billing") /\ (IsHoldRemoval(x.action) => reached("crm"))

\* The executed actions line up with the plan, position by position, however
\* many executors append to them from stale snapshots.
ExecutedFollowsPlan ==
    \A c \in Cases :
        /\ Len(row[c].executed) <= Len(row[c].plan)
        /\ \A k \in 1..Len(row[c].executed) :
              row[c].executed[k].action = row[c].plan[k]

Successes(rw) == {k \in 1..Len(rw.executed) : rw.executed[k].status = "SUCCESS"}

Lifecycle == INSTANCE CaseLifecycle WITH
    stage        <- [c \in Cases |-> row[c].stage],
    plan         <- [c \in Cases |-> row[c].plan],
    revisions    <- [c \in Cases |-> row[c].revisions],
    done         <- [c \in Cases |-> Cardinality(Successes(row[c]))],
    MaxRevisions <- 0

\* With one request at a time, and whatever crashes and failed calls, a case
\* lives as CaseLifecycle says: terminal stages are final, and verification
\* is reached only with every action of the plan carried out once.
FollowsLifecycle == Lifecycle!Spec

\* RESOLVED, ESCALATED and FAILED are final (TERMINAL_CASE_STAGES).
TerminalStagesAreFinal ==
    [][\A c \in Cases : row[c].stage \in TerminalStages =>
                            row'[c].stage = row[c].stage]_vars

\* No write tool is called for a case that is not EXECUTING: not after the
\* case failed, was escalated or went on to verification.
WritesStartWhileExecuting ==
    [][\A s \in Requests :
          call'[s] # call[s] /\ call'[s].pc = "billing"
            /\ call'[s].action \in PlannedActions
          => row'[call'[s].case].stage = "EXECUTING"]_vars

\* Every request is answered.
RequestsFinish == \A s \in Requests : s \in Live ~> s \notin Live

\* An execution of a valid plan leaves EXECUTING, unless something failed.
ExecutionSettles ==
    \A s \in Requests, c \in Cases :
        (/\ req[s].pc = "open" /\ req[s].case = c
         /\ \A k \in 1..Len(req[s].plan) : req[s].plan[k].evidence = "known")
          ~> (row[c].stage # "EXECUTING" \/ faults > 0)
=============================================================================
