------------------------- MODULE DataReadinessProps -------------------------
(* What the readiness report promises: properties of DataReadiness. *)
EXTENDS DataReadiness

Complete == report.pc = "done" /\ report.account # "None" /\ report.hold # "None"

ConflictWarned == "CRM_BILLING_STATUS_CONFLICT" \in report.warnings

InConflict(moment) == moment \in {<<"ACTIVE", TRUE>>, <<"SUSPENDED", FALSE>>}

\* The account and the hold of a complete report were true together at some
\* moment, although they are read by two requests between which an executor
\* may lift the hold and restore the account: the account is read first, and
\* the tool writes it last (data_readiness.py:219-237, 333-354 against
\* server.py:375-399).
SnapshotWasReal ==
    Complete => <<report.account, report.hold = "ACTIVE">> \in moments

\* A conflict of the two systems that lasted for all of the assessment is
\* reported, and none is reported when there never was one; a remediation
\* that stopped half way leaves an inactive hold and a suspended account.
ConflictsAreReported ==
    Complete => /\ (\A moment \in moments : InConflict(moment)) => ConflictWarned
                /\ ConflictWarned => \E moment \in moments : InConflict(moment)

\* Every assessment ends, however its requests are answered.
AssessmentEnds == report.pc = "customer" ~> report.pc = "done"
=============================================================================
