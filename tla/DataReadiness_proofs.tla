------------------------- MODULE DataReadiness_proofs -------------------------
(* Proofs about DataReadiness: what a complete report says was true once.   *)
EXTENDS DataReadinessProps, TLAPS

-----------------------------------------------------------------------------
(* The tools write billing first: an account is restored only when its hold *)
(* has gone, and a hold that has gone does not come back.  So while a hold  *)
(* is there its account stands still, and if the hold goes after the        *)
(* account was read, the account is still what was read: the pair that the  *)
(* report may yet end with has been observed before the hold is read.       *)

Assessing == report.pc \notin {"idle", "done"}

Tasks == {"idle", "billing", "crm"} \cup Replies

\* A report has the fields of a report.
Shaped(r) ==
    r = [pc |-> r.pc, case |-> r.case, todo |-> r.todo, account |-> r.account,
         hold |-> r.hold, invoices |-> r.invoices, warnings |-> r.warnings]

TypeInv ==
    /\ hold \in [Customers -> HoldStates]
    /\ account \in [Customers -> AccountStatuses]
    /\ call \in [Requests -> [pc : Tasks, case : Cases,
                              action : PlannedActions \cup Reads \cup {NoAction}]]
    /\ report.case \in Cases /\ Shaped(report)

\* A tool that has still to restore the account has removed the hold.
BillingFirst ==
    \A s \in Requests :
        call[s].pc = "crm" => hold[CustomerOf[call[s].case]] # "ACTIVE"

\* What has been read fits the point that the assessment has reached.
InOrder ==
    /\ report.pc \in {"idle", "customer", "account"} => report.account = "None"
    /\ report.pc \in {"idle", "customer", "account", "invoices", "hold"} =>
          report.hold = "None" /\ ~ConflictWarned
    /\ report.pc = "end" => ~ConflictWarned
    /\ Complete => (ConflictWarned <=> StatusConflict)

\* The account that was read, with the hold as it is now.
Pending ==
    report.pc \in {"invoices", "hold"} /\ report.account # "None" =>
        /\ <<report.account, hold[TheCustomer] = "ACTIVE">> \in moments
        /\ hold[TheCustomer] = "ACTIVE" => report.account = account[TheCustomer]

\* Both were read.
Seen ==
    report.pc \in {"end", "done"} /\ report.account # "None" /\ report.hold # "None" =>
        <<report.account, report.hold = "ACTIVE">> \in moments

\* While the report is made, what is true now has been observed.
Observed == Assessing => Moment \in moments

ReadInv ==
    /\ TypeInv
    /\ BillingFirst
    /\ InOrder
    /\ Pending
    /\ Seen
    /\ Observed

LEMMA ReadInit == Init => ReadInv
<1> SUFFICES ASSUME Init PROVE ReadInv
  OBVIOUS
<1>1. SomeCase \in Cases
  BY DomainAssumption DEF SomeCase
<1>2. report.pc = "idle" /\ report.case = SomeCase
      /\ report.account = "None" /\ report.hold = "None" /\ Shaped(report)
      /\ report.warnings \in {{}, {"NO_INVOICE_REFERENCE"}}
  BY DEF Init, NewReport, Shaped
<1>3. TypeInv
  <2>1. \A x \in Seeds : x.hold \in [Customers -> HoldStates]
                         /\ x.account \in [Customers -> AccountStatuses]
    BY EnterpriseAssumption DEF Worlds
  <2>2. hold \in [Customers -> HoldStates] /\ account \in [Customers -> AccountStatuses]
    BY <2>1 DEF Init, EnterpriseInit
  <2> QED BY <1>1, <1>2, <2>2 DEF Init, McpInit, TypeInv, Tasks
<1>4. BillingFirst
  BY DEF Init, McpInit, BillingFirst
<1>5. InOrder
  BY <1>2 DEF InOrder, ConflictWarned, Complete
<1> QED BY <1>2, <1>3, <1>4, <1>5 DEF ReadInv, Pending, Seen, Observed, Assessing

-----------------------------------------------------------------------------
(* The environment. *)

\* No hold comes back, and an account is written only where there is none.
Onward ==
    /\ \A x \in Customers : hold[x] # "ACTIVE" => hold'[x] # "ACTIVE"
    /\ \A x \in Customers : hold[x] = "ACTIVE" => account'[x] = account[x]

LEMMA ToolOnward ==
    ASSUME TypeInv, BillingFirst, NEW s \in Requests, ToolStep(s), report' = report
    PROVE  TypeInv' /\ BillingFirst' /\ Onward
<1> DEFINE t == call[s]
           cust == CustomerOf[call[s].case]
<1>1. t \in [pc : Tasks, case : Cases,
             action : PlannedActions \cup Reads \cup {NoAction}]
      /\ cust \in Customers
      /\ \A q \in Requests : CustomerOf[call[q].case] \in Customers
  BY DomainAssumption DEF TypeInv
<1>2. \E r \in Tasks : call' = [call EXCEPT ![s].pc = r]
                       /\ (r = "crm" => hold'[cust] # "ACTIVE")
  <2>1. CASE MatchPayment(s)
    BY <2>1 DEF MatchPayment, Refused, Reply, Tasks, Replies
  <2>2. CASE RemoveAccountHold(s)
    <3>1. CASE Reply(s, "error")
      BY <3>1 DEF Reply, Tasks, Replies
    <3>2. CASE Reply(s, "crm") /\ BillingRemoveAccountHold(cust)
      <4>1. hold'[cust] # "ACTIVE"
        BY <1>1, <3>2 DEF BillingRemoveAccountHold, TypeInv
      <4> QED BY <3>2, <4>1 DEF Reply, Tasks
    <3>3. Reply(s, "error") \/ (Reply(s, "crm") /\ BillingRemoveAccountHold(cust))
      <4>1. PICK works \in BOOLEAN :
               \/ /\ BillingRemoveAccountHold(cust)
                  /\ Reply(s, IF works THEN "crm" ELSE "error")
               \/ Reply(s, "error")
        BY <2>2 DEF RemoveAccountHold, Refused
      <4>2. CASE works
        BY <4>1, <4>2
      <4>3. CASE ~works
        BY <4>1, <4>3
      <4> QED BY <4>2, <4>3
    <3> QED BY <3>1, <3>2, <3>3
  <2>3. CASE RestoreAccount(s)
    BY <2>3 DEF RestoreAccount, Refused, Reply, Tasks, Replies
  <2>4. CASE LookupInvoice(s)
    <3>1. PICK r : Reply(s, r) /\ r \in {"error", "paid", "unpaid"}
      BY <2>4, Zenon DEF LookupInvoice
    <3> QED BY <3>1 DEF Reply, Tasks, Replies
  <2> QED BY <2>1, <2>2, <2>3, <2>4 DEF ToolStep
<1>3. \/ UNCHANGED <<hold, account>>
      \/ /\ hold[cust] = "ACTIVE" /\ hold' = [hold EXCEPT ![cust] = "INACTIVE"]
         /\ account' = account
      \/ /\ t.pc = "crm" /\ account' = [account EXCEPT ![cust] = "ACTIVE"]
         /\ hold' = hold
  BY DEF ToolStep, MatchPayment, RemoveAccountHold, RestoreAccount, LookupInvoice,
         Refused, BillingMatchPayment, BillingRemoveAccountHold, CrmRestoreAccount,
         world
<1>4. TypeInv'
  BY <1>1, <1>2, <1>3 DEF TypeInv, HoldStates, AccountStatuses
<1>5. Onward
  BY <1>1, <1>3 DEF Onward, TypeInv, BillingFirst
<1>6. BillingFirst'
  BY <1>1, <1>2, <1>5 DEF BillingFirst, Onward, TypeInv
<1> QED BY <1>4, <1>5, <1>6

LEMMA OthersOnward ==
    ASSUME TypeInv, BillingFirst, NEW s \in Requests, OtherCase(s)
    PROVE  TypeInv' /\ BillingFirst' /\ Onward /\ report' = report
<1>1. CASE ToolStep(s) /\ UNCHANGED report
  BY <1>1, ToolOnward
<1>2. CASE ~(ToolStep(s) /\ UNCHANGED report)
  <2>1. PICK c \in Cases, plan \in Plans : \E k \in 1..Len(plan) :
            call' = [call EXCEPT ![s] = [pc |-> "billing", case |-> c,
                                         action |-> plan[k]]]
    BY <1>2 DEF OtherCase
  <2>2. PICK k \in 1..Len(plan) :
            call' = [call EXCEPT ![s] = [pc |-> "billing", case |-> c,
                                         action |-> plan[k]]]
    BY <2>1
  <2>3. plan[k] \in PlannedActions
    BY <2>2, DomainAssumption
  <2>4. UNCHANGED <<world, report>>
    BY <1>2 DEF OtherCase
  <2> QED BY <2>2, <2>3, <2>4 DEF TypeInv, Tasks, BillingFirst, Onward, world
<1> QED BY <1>1, <1>2

-----------------------------------------------------------------------------
(* Steps. *)

\* Observe records the present while an assessment is under way, and forgets
\* nothing until the next one starts.
LEMMA Observing ==
    ASSUME Observe
    PROVE  /\ Observed'
           /\ Assessing \/ ~Assessing' => moments \subseteq moments'
  BY DEF Observe, Observed, Assessing

\* The environment moves: what is pending stays so, since a hold that goes is
\* observed with the account that was read.
LEMMA OthersStep ==
    ASSUME ReadInv, NEW s \in Requests, OtherCase(s), Observe
    PROVE  ReadInv'
<1>1. TypeInv' /\ BillingFirst' /\ Onward /\ report' = report
  BY OthersOnward DEF ReadInv
<1>2. Observed' /\ moments \subseteq moments'
  BY <1>1, Observing DEF Assessing
<1>3. InOrder' /\ Seen'
  BY <1>1, <1>2 DEF ReadInv, InOrder, Seen, Complete, ConflictWarned, StatusConflict
<1>4. Pending'
  <2> SUFFICES ASSUME report.pc \in {"invoices", "hold"}, report.account # "None"
      PROVE  /\ <<report.account, hold'[TheCustomer] = "ACTIVE">> \in moments'
             /\ hold'[TheCustomer] = "ACTIVE" =>
                   report.account = account'[TheCustomer]
    BY <1>1 DEF Pending, TheCustomer
  <2>1. /\ <<report.account, hold[TheCustomer] = "ACTIVE">> \in moments
        /\ hold[TheCustomer] = "ACTIVE" => report.account = account[TheCustomer]
    BY DEF ReadInv, Pending
  <2>2. TheCustomer \in Customers
    BY DomainAssumption DEF TheCustomer, ReadInv, TypeInv
  <2>3. CASE hold[TheCustomer] = "ACTIVE"
    <3>1. report.account = account'[TheCustomer]
      BY <1>1, <2>1, <2>2, <2>3 DEF Onward
    <3>2. <<account'[TheCustomer], hold'[TheCustomer] = "ACTIVE">> \in moments'
      BY <1>1, <1>2 DEF Observed, Assessing, Moment, TheCustomer
    <3> QED BY <3>1, <3>2
  <2>4. CASE hold[TheCustomer] # "ACTIVE"
    <3>1. hold'[TheCustomer] # "ACTIVE"
      BY <1>1, <2>2, <2>4 DEF Onward
    <3>2. (hold'[TheCustomer] = "ACTIVE") = (hold[TheCustomer] = "ACTIVE")
      BY <3>1, <2>4
    <3> QED BY <1>2, <2>1, <3>1, <3>2
  <2> QED BY <2>3, <2>4
<1> QED BY <1>1, <1>2, <1>3, <1>4 DEF ReadInv

\* The assessment itself changes neither system.
LEMMA OwnTypes ==
    ASSUME ReadInv, UNCHANGED <<world, call>>, report'.case \in Cases,
           Shaped(report')
    PROVE  TypeInv' /\ BillingFirst'
  BY DEF ReadInv, TypeInv, BillingFirst, world

LEMMA StartStep ==
    ASSUME ReadInv, StartAssessment, Observe
    PROVE  ReadInv'
<1>1. PICK c \in Cases : report' = NewReport(c)
  BY DEF StartAssessment
<1>2. /\ report'.pc = "customer" /\ report'.case = c
      /\ report'.account = "None" /\ report'.hold = "None" /\ Shaped(report')
      /\ report'.warnings \in {{}, {"NO_INVOICE_REFERENCE"}}
  BY <1>1 DEF NewReport, Shaped
<1>3. TypeInv' /\ BillingFirst'
  BY <1>2, OwnTypes DEF StartAssessment, mcpVars
<1>4. InOrder' /\ Pending' /\ Seen'
  BY <1>2 DEF InOrder, Pending, Seen, ConflictWarned, Complete
<1> QED BY <1>3, <1>4, Observing DEF ReadInv

-----------------------------------------------------------------------------
(* The requests of an assessment.  What one of them may do to the report,   *)
(* field by field.                                                          *)

\* The report ends with, or goes on to, one of the points, with one more
\* warning at most that is not the conflict of the two systems.
Onto(points) ==
    /\ report'.pc \in points
    /\ report'.case = report.case /\ Shaped(report')
    /\ ConflictWarned' <=> ConflictWarned

Kept == report'.account = report.account /\ report'.hold = report.hold

LEMMA CustomerAsked ==
    ASSUME TypeInv, ReadCustomer
    PROVE  report.pc = "customer" /\ Onto({"account", "done"}) /\ Kept
<1> DEFINE on == [report EXCEPT !.pc = "account"]
           off == [report EXCEPT !.pc = "done"]
           warned == Warn(off, "CRM_LOOKUP_FAILED")
<1>1. report.pc = "customer" /\ (report' = on \/ report' = warned)
  BY DEF ReadCustomer, Ask, Order
<1>2. Shaped(on) /\ on.pc = "account" /\ on.case = report.case
      /\ on.account = report.account /\ on.hold = report.hold
      /\ on.warnings = report.warnings
  BY DEF TypeInv, Shaped
<1>3. Shaped(off) /\ off.pc = "done" /\ off.case = report.case
      /\ off.account = report.account /\ off.hold = report.hold
      /\ off.warnings = report.warnings
  BY DEF TypeInv, Shaped
<1> HIDE DEF on, off
<1>4. Shaped(warned) /\ warned.pc = off.pc /\ warned.case = off.case
      /\ warned.account = off.account /\ warned.hold = off.hold
      /\ warned.warnings = off.warnings \cup {"CRM_LOOKUP_FAILED"}
  BY <1>3 DEF Shaped, Warn
<1> HIDE DEF warned
<1> QED BY <1>1, <1>2, <1>3, <1>4 DEF Onto, Kept, ConflictWarned

LEMMA AccountAsked ==
    ASSUME TypeInv, ReadAccount
    PROVE  /\ report.pc = "account" /\ Onto({"invoices", "done"})
           /\ report'.hold = report.hold
           /\ report'.account \in {report.account, account[TheCustomer]}
<1> DEFINE on == [report EXCEPT !.pc = "invoices"]
           off == [report EXCEPT !.pc = "done"]
           ended == Warn(off, "MISSING_BILLING_ID")
           after == IF TheCustomer \in Mapped THEN on ELSE ended
           answered == [after EXCEPT !.account = account[TheCustomer]]
           failed == Warn(after, "CRM_LOOKUP_FAILED")
<1>1. report.pc = "account" /\ (report' = answered \/ report' = failed)
  BY DEF ReadAccount, Ask, Order
<1>2. Shaped(on) /\ on.pc = "invoices" /\ on.case = report.case
      /\ on.account = report.account /\ on.hold = report.hold
      /\ on.warnings = report.warnings
  BY DEF TypeInv, Shaped
<1>3. Shaped(off) /\ off.pc = "done" /\ off.case = report.case
      /\ off.account = report.account /\ off.hold = report.hold
      /\ off.warnings = report.warnings
  BY DEF TypeInv, Shaped
<1> HIDE DEF on, off
<1>4. Shaped(ended) /\ ended.pc = off.pc /\ ended.case = off.case
      /\ ended.account = off.account /\ ended.hold = off.hold
      /\ ended.warnings = off.warnings \cup {"MISSING_BILLING_ID"}
  BY <1>3 DEF Shaped, Warn
<1> HIDE DEF ended
<1>5. Shaped(after) /\ after.pc \in {"invoices", "done"} /\ after.case = report.case
      /\ after.account = report.account /\ after.hold = report.hold
      /\ ("CRM_BILLING_STATUS_CONFLICT" \in after.warnings <=> ConflictWarned)
  BY <1>2, <1>3, <1>4 DEF ConflictWarned
<1> HIDE DEF after
<1>6. Shaped(answered) /\ answered.pc = after.pc /\ answered.case = after.case
      /\ answered.account = account[TheCustomer] /\ answered.hold = after.hold
      /\ answered.warnings = after.warnings
  BY <1>5 DEF Shaped, Warn
<1>7. Shaped(failed) /\ failed.pc = after.pc /\ failed.case = after.case
      /\ failed.account = after.account /\ failed.hold = after.hold
      /\ failed.warnings = after.warnings \cup {"CRM_LOOKUP_FAILED"}
  BY <1>5 DEF Shaped, Warn
<1> HIDE DEF answered, failed
<1> QED BY <1>1, <1>5, <1>6, <1>7 DEF Onto, ConflictWarned

LEMMA InvoiceAsked ==
    ASSUME TypeInv, ReadInvoice
    PROVE  report.pc = "invoices" /\ Onto({"invoices"}) /\ Kept
<1> DEFINE i == Head(report.todo)
           rest == Tail(report.todo)
           next == [report EXCEPT !.todo = rest]
           found == [next EXCEPT !.invoices = @ \cup {<<i, invoice[i]>>}]
<1>1. /\ report.pc = "invoices"
      /\ report' \in {found, Warn(next, "CUSTOMER_INVOICE_MISMATCH"),
                      Warn(next, "INVOICE_LOOKUP_FAILED")}
  BY DEF ReadInvoice, Ask, RefusedAs
<1> HIDE DEF rest
<1>2. Shaped(next) /\ next.pc = report.pc /\ next.case = report.case
      /\ next.account = report.account /\ next.hold = report.hold
      /\ next.warnings = report.warnings
  BY DEF TypeInv, Shaped
<1> HIDE DEF next
<1>3. Shaped(found) /\ found.pc = next.pc /\ found.case = next.case
      /\ found.account = next.account /\ found.hold = next.hold
      /\ found.warnings = next.warnings
  BY <1>2 DEF Shaped, Warn
<1>4. \A code : LET n == Warn(next, code)
                IN  Shaped(n) /\ n.pc = next.pc /\ n.case = next.case
                    /\ n.account = next.account /\ n.hold = next.hold
                    /\ n.warnings = next.warnings \cup {code}
  BY <1>2 DEF Shaped, Warn
<1> HIDE DEF found
<1> QED BY <1>1, <1>2, <1>3, <1>4 DEF Onto, Kept, ConflictWarned

LEMMA HoldAsked ==
    ASSUME TypeInv, ReadHold
    PROVE  /\ report.pc = "hold" /\ Onto({"end"})
           /\ report'.account = report.account
           /\ report'.hold \in {report.hold, hold[TheCustomer]}
<1> DEFINE on == [report EXCEPT !.pc = "end"]
           answered == [on EXCEPT !.hold = hold[TheCustomer]]
           failed == Warn(on, "BILLING_HOLD_LOOKUP_FAILED")
<1>1. /\ report.pc = "hold"
      /\ \/ report' = [report EXCEPT !.pc = "end", !.hold = hold[TheCustomer]]
         \/ report' = failed
  BY DEF ReadHold, Ask, Order
<1>2. Shaped(on) /\ on.pc = "end" /\ on.case = report.case
      /\ on.account = report.account /\ on.hold = report.hold
      /\ on.warnings = report.warnings
  BY DEF TypeInv, Shaped
<1>3. [report EXCEPT !.pc = "end", !.hold = hold[TheCustomer]] = answered
  BY DEF TypeInv, Shaped
<1>4. report' \in {answered, failed}
  BY <1>1, <1>3
<1> HIDE DEF on
<1>5. Shaped(answered) /\ answered.pc = on.pc /\ answered.case = on.case
      /\ answered.account = on.account /\ answered.hold = hold[TheCustomer]
      /\ answered.warnings = on.warnings
  BY <1>2 DEF Shaped, Warn
<1>6. Shaped(failed) /\ failed.pc = on.pc /\ failed.case = on.case
      /\ failed.account = on.account /\ failed.hold = on.hold
      /\ failed.warnings = on.warnings \cup {"BILLING_HOLD_LOOKUP_FAILED"}
  BY <1>2 DEF Shaped, Warn
<1> HIDE DEF answered, failed
<1> QED BY <1>1, <1>2, <1>4, <1>5, <1>6 DEF Onto, ConflictWarned

-----------------------------------------------------------------------------
(* The steps of the assessment preserve the invariant. *)

\* Every request leaves the two systems alone and the case as it is.
LEMMA AssessmentTypes ==
    ASSUME ReadInv, AssessmentStep, report'.case = report.case, Shaped(report')
    PROVE  TypeInv' /\ BillingFirst' /\ UNCHANGED <<world, call>>
<1>1. UNCHANGED <<world, call>>
  BY DEF AssessmentStep, ReadCustomer, ReadAccount, ReadInvoice, InvoicesRead,
         ReadHold, ReportReady, Ask, mcpVars
<1> QED BY <1>1, OwnTypes DEF ReadInv, TypeInv

LEMMA ReportStep ==
    ASSUME ReadInv, AssessmentStep, Observe
    PROVE  ReadInv'
<1> USE DEF ReadInv
<1>1. CASE ReadCustomer
  <2>1. report.pc = "customer" /\ Onto({"account", "done"}) /\ Kept
    BY <1>1, CustomerAsked
  <2>2. TypeInv' /\ BillingFirst'
    BY <1>1, <2>1, AssessmentTypes DEF AssessmentStep, Onto
  <2>3. InOrder' /\ Pending' /\ Seen'
    BY <2>1 DEF Onto, Kept, InOrder, Pending, Seen, Complete
  <2> QED BY <2>2, <2>3, Observing
<1>2. CASE ReadAccount
  <2>1. /\ report.pc = "account" /\ Onto({"invoices", "done"})
        /\ report'.hold = report.hold
        /\ report'.account \in {report.account, account[TheCustomer]}
    BY <1>2, AccountAsked
  <2>2. TypeInv' /\ BillingFirst' /\ UNCHANGED <<hold, account>>
    BY <1>2, <2>1, AssessmentTypes DEF AssessmentStep, Onto, world
  <2>3. Observed'
    BY Observing
  <2>4. InOrder' /\ Seen'
    BY <2>1 DEF Onto, InOrder, Seen, Complete
  <2>5. Pending'
    BY <2>1, <2>2, <2>3 DEF Onto, InOrder, Pending, Observed, Assessing, Moment,
                            TheCustomer
  <2> QED BY <2>2, <2>3, <2>4, <2>5
<1>3. CASE ReadInvoice \/ InvoicesRead
  <2>1. report.pc = "invoices" /\ Onto({"invoices", "hold"}) /\ Kept
    <3>1. CASE ReadInvoice
      BY <3>1, InvoiceAsked DEF Onto
    <3>2. CASE InvoicesRead
      BY <3>2 DEF Shaped, InvoicesRead, Order, Onto, Kept, ConflictWarned, TypeInv
    <3> QED BY <1>3, <3>1, <3>2
  <2>2. TypeInv' /\ BillingFirst' /\ UNCHANGED <<hold, account>>
    BY <1>3, <2>1, AssessmentTypes DEF AssessmentStep, Onto, world
  <2>3. Observed' /\ moments \subseteq moments'
    BY <2>1, Observing DEF Assessing
  <2>4. InOrder' /\ Seen'
    BY <2>1 DEF Onto, Kept, InOrder, Seen, Complete
  <2>5. Pending'
    BY <2>1, <2>2, <2>3 DEF Onto, Kept, Pending, TheCustomer
  <2> QED BY <2>2, <2>3, <2>4, <2>5
<1>4. CASE ReadHold
  <2>1. /\ report.pc = "hold" /\ Onto({"end"})
        /\ report'.account = report.account
        /\ report'.hold \in {report.hold, hold[TheCustomer]}
    BY <1>4, HoldAsked
  <2>2. TypeInv' /\ BillingFirst'
    BY <1>4, <2>1, AssessmentTypes DEF AssessmentStep, Onto
  <2>3. Observed' /\ moments \subseteq moments'
    BY <2>1, Observing DEF Assessing
  <2>4. InOrder' /\ Pending'
    BY <2>1 DEF Onto, InOrder, Pending, Complete
  <2>5. Seen'
    BY <2>1, <2>3 DEF Onto, InOrder, Pending, Seen
  <2> QED BY <2>2, <2>3, <2>4, <2>5
<1>5. CASE ReportReady
  <2> DEFINE ready == [report EXCEPT !.pc = "done"]
             warned == Warn(ready, "CRM_BILLING_STATUS_CONFLICT")
  <2>1. report.pc = "end" /\ report' = (IF StatusConflict THEN warned ELSE ready)
    BY <1>5 DEF ReportReady
  <2>2. Shaped(ready) /\ ready.pc = "done" /\ ready.case = report.case
        /\ ready.account = report.account /\ ready.hold = report.hold
        /\ ready.warnings = report.warnings
    BY DEF TypeInv, Shaped
  <2> HIDE DEF ready
  <2>3. Shaped(warned) /\ warned.pc = ready.pc /\ warned.case = ready.case
        /\ warned.account = ready.account /\ warned.hold = ready.hold
        /\ warned.warnings = ready.warnings \cup {"CRM_BILLING_STATUS_CONFLICT"}
    BY <2>2 DEF Shaped, Warn
  <2> HIDE DEF warned
  <2>4. /\ report'.pc = "done" /\ report'.case = report.case /\ Kept
        /\ Shaped(report')
        /\ ConflictWarned' <=> ConflictWarned \/ StatusConflict
    BY <2>1, <2>2, <2>3 DEF Kept, ConflictWarned
  <2>5. TypeInv' /\ BillingFirst'
    BY <1>5, <2>4, AssessmentTypes DEF AssessmentStep
  <2>6. Observed' /\ moments \subseteq moments'
    BY <2>4, Observing DEF Assessing
  <2>7. StatusConflict' <=> StatusConflict
    BY <2>4 DEF StatusConflict, Kept
  <2>8. InOrder' /\ Pending'
    BY <2>1, <2>4, <2>7 DEF InOrder, Pending, Complete
  <2>9. Seen'
    BY <2>1, <2>4, <2>6 DEF Kept, Seen
  <2> QED BY <2>5, <2>6, <2>8, <2>9
<1> QED BY <1>1, <1>2, <1>3, <1>4, <1>5 DEF AssessmentStep

LEMMA ReadStep ==
    ASSUME ReadInv, [Next]_vars
    PROVE  ReadInv'
<1>1. CASE Next
  BY <1>1, StartStep, ReportStep, OthersStep DEF Next
<1>2. CASE UNCHANGED vars
  BY <1>2 DEF vars, world, mcpVars, ReadInv, TypeInv, BillingFirst, InOrder,
              Pending, Seen, Observed, Assessing, Complete, ConflictWarned,
              StatusConflict, Moment, TheCustomer
<1> QED BY <1>1, <1>2

LEMMA ReadInvariant == Spec => []ReadInv
  BY ReadInit, ReadStep, PTL DEF Spec

-----------------------------------------------------------------------------

\* SnapshotWasReal: for any number of tool calls of other cases, of customers
\* and of failures, account and hold of a complete report were true together.
THEOREM SnapshotsWereReal == Spec => []SnapshotWasReal
<1>1. ReadInv => SnapshotWasReal
  BY DEF ReadInv, Seen, SnapshotWasReal, Complete
<1> QED BY ReadInvariant, <1>1, PTL

\* ConflictsAreReported: a conflict that lasted is warned of, and a warning is
\* about a conflict that was there, though the two reads are apart.
THEOREM ConflictsReported == Spec => []ConflictsAreReported
<1>1. ASSUME ReadInv, Complete
      PROVE  /\ (\A moment \in moments : InConflict(moment)) => ConflictWarned
             /\ ConflictWarned => \E moment \in moments : InConflict(moment)
  <2> DEFINE snapshot == <<report.account, report.hold = "ACTIVE">>
  <2>1. snapshot \in moments /\ (ConflictWarned <=> StatusConflict)
    BY <1>1 DEF ReadInv, Seen, InOrder, Complete
  <2>2. InConflict(snapshot) <=> StatusConflict
    <3>1. CASE report.hold = "ACTIVE"
      <4>1. snapshot = <<report.account, TRUE>>
        BY <3>1
      <4> QED BY <3>1, <4>1 DEF InConflict, StatusConflict
    <3>2. CASE report.hold # "ACTIVE"
      <4>1. snapshot = <<report.account, FALSE>>
        BY <3>2
      <4> QED BY <3>2, <4>1 DEF InConflict, StatusConflict
    <3> QED BY <3>1, <3>2
  <2> HIDE DEF snapshot
  <2> QED BY <2>1, <2>2
<1>2. ReadInv => ConflictsAreReported
  BY <1>1 DEF ConflictsAreReported
<1> QED BY ReadInvariant, <1>2, PTL
=============================================================================
