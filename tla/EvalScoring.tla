----------------------------- MODULE EvalScoring -----------------------------
(***************************************************************************)
(* How the evaluations count (backend/app/evals: scoring.py, report.py and *)
(* compare.py): one case's score, a run's report, the comparison of two.   *)
(* A metric that may be None is a set with at most one member; a rate is   *)
(* kept as what it counts and out of how many, so nothing is rounded.      *)
(***************************************************************************)
EXTENDS Integers, Sequences, FiniteSets, TLC

NoPlan == << >>

\* EvalCase with its ground truth.  groups: how many keyword groups there are.
EvalCases(Ids, Tags, Tools) ==
    [id : Ids, tags : SUBSET Tags, stage : {"AWAITING_APPROVAL", "ESCALATED"},
     groups : 0..2, actions : {{}} \cup {{plan} : plan \in Seq(Tools)},
     customer : BOOLEAN, approval : SUBSET BOOLEAN, verdict : SUBSET {"APPROVE"}]

\* What is scored of the row that the pipeline leaves.  matched: the keyword
\* groups found in its root cause; customer: every argument names the case's.
FinalStates(Tools) ==
    [stage : {"AWAITING_APPROVAL", "ESCALATED"}, matched : 0..2,
     plan : Seq(Tools), customer : BOOLEAN,
     verdict : SUBSET {"APPROVE", "REVISE", "REJECT"}, latency : Nat]

RequiresApproval(plan) == IF plan = NoPlan THEN {} ELSE {TRUE}

RootApplies(d) == d.stage # "ESCALATED" /\ d.groups > 0

ScoreCase(d, s, evaluateReview) ==
    LET stage    == s.stage = d.stage
        root     == IF RootApplies(d) THEN {s.matched = d.groups} ELSE {}
        plan     == {s.plan = actions : actions \in d.actions}
        customer == IF d.customer THEN {s.plan # NoPlan /\ s.customer} ELSE {}
        approval == {RequiresApproval(s.plan) = {b} : b \in d.approval}
        review   == IF evaluateReview THEN {s.verdict = {v} : v \in d.verdict} ELSE {}
        checks   == {stage} \cup plan \cup customer \cup approval
    IN  [id |-> d.id, tags |-> d.tags, error |-> FALSE, latency |-> s.latency,
         passed |-> FALSE \notin checks,
         strict |-> FALSE \notin checks \cup root,
         stage |-> stage, root |-> root, plan |-> plan, customer |-> customer,
         approval |-> approval, review |-> review]

FailedIf(applies) == IF applies THEN {FALSE} ELSE {}

\* Mutant: the wording counts for escalations too once a case has raised.
ScoreErrorAlways(d, evaluateReview) ==
    [id |-> d.id, tags |-> d.tags, error |-> TRUE, latency |-> 0,
     passed |-> FALSE, strict |-> FALSE, stage |-> FALSE,
     root |-> FailedIf(d.groups > 0), plan |-> FailedIf(d.actions # {}),
     customer |-> FailedIf(d.customer), approval |-> FailedIf(d.approval # {}),
     review |-> FailedIf(evaluateReview /\ d.verdict # {})]

ScoreErrorCase(d, evaluateReview) ==
    [id |-> d.id, tags |-> d.tags, error |-> TRUE, latency |-> 0,
     passed |-> FALSE, strict |-> FALSE, stage |-> FALSE,
     root |-> FailedIf(RootApplies(d)), plan |-> FailedIf(d.actions # {}),
     customer |-> FailedIf(d.customer), approval |-> FailedIf(d.approval # {}),
     review |-> FailedIf(evaluateReview /\ d.verdict # {})]

-----------------------------------------------------------------------------
(* report.py *)

\* flag, metric: a field of the results.
Count(results, flag) == Cardinality({k \in DOMAIN results : results[k][flag]})

OptionalAccuracy(results, metric) ==
    [hits |-> Cardinality({k \in DOMAIN results : results[k][metric] = {TRUE}}),
     of   |-> Cardinality({k \in DOMAIN results : results[k][metric] # {}})]

\* A percentile, times 100: interpolated between the two nearest ranks.
Percentile(values, percent) ==
    LET ordered  == SortSeq(values, LAMBDA a, b : a < b)
        position == percent * (Len(values) - 1)
        lower    == 1 + position \div 100
        upper    == IF lower < Len(values) THEN lower + 1 ELSE Len(values)
        fraction == position % 100
    IN  IF values = << >> THEN 0
        ELSE ordered[lower] * (100 - fraction) + ordered[upper] * fraction

Latencies(results) == [k \in DOMAIN results |-> results[k].latency]

TagsOf(results) == UNION {results[k].tags : k \in DOMAIN results}

TagRates(results, flag) ==
    [tag \in TagsOf(results) |->
        LET tagged == {k \in DOMAIN results : tag \in results[k].tags}
        IN  [hits |-> Cardinality({k \in tagged : results[k][flag]}),
             of   |-> Cardinality(tagged)]]

BuildReport(variant, results) ==
    [variant |-> variant, cases |-> results,
     passed |-> Count(results, "passed"),
     strict |-> Count(results, "strict"),
     accuracy |->
        [stage    |-> [hits |-> Count(results, "stage"), of |-> Len(results)],
         root     |-> OptionalAccuracy(results, "root"),
         plan     |-> OptionalAccuracy(results, "plan"),
         review   |-> OptionalAccuracy(results, "review"),
         customer |-> OptionalAccuracy(results, "customer"),
         approval |-> OptionalAccuracy(results, "approval")],
     p50 |-> Percentile(Latencies(results), 50),
     p95 |-> Percentile(Latencies(results), 95),
     tags |-> TagRates(results, "passed"),
     strictTags |-> TagRates(results, "strict"),
     errors |-> Count(results, "error")]

-----------------------------------------------------------------------------
(* compare.py *)

CaseIds(report) == {report.cases[k].id : k \in DOMAIN report.cases}

\* _case_map: of two results of one id the last one counts.
CaseMap(report) ==
    [id \in CaseIds(report) |->
        report.cases[CHOOSE k \in DOMAIN report.cases :
                        /\ report.cases[k].id = id
                        /\ \A j \in DOMAIN report.cases :
                              report.cases[j].id = id => j <= k]]

\* _validate_reports, on reports of one dataset version.
Comparable(left, right) == CaseIds(left) = CaseIds(right)

\* Mutant: the other variant is held to the strict metric.
OnlyLooselyPasses(left, right, metric) ==
    {id \in CaseIds(left) :
        CaseMap(left)[id][metric] /\ ~CaseMap(right)[id].strict}

\* The cases that only the left variant passed; metric: "passed" or "strict".
OnlyPasses(left, right, metric) ==
    {id \in CaseIds(left) :
        CaseMap(left)[id][metric] /\ ~CaseMap(right)[id][metric]}

\* The deltas are differences of pass rates, times the number of cases.
PairedComparison(left, right) ==
    [delta |-> left.passed - right.passed,
     strictDelta |-> left.strict - right.strict,
     leftOnly |-> OnlyPasses(left, right, "passed"),
     rightOnly |-> OnlyPasses(right, left, "passed"),
     leftOnlyStrict |-> OnlyPasses(left, right, "strict"),
     rightOnlyStrict |-> OnlyPasses(right, left, "strict")]

\* A tag that only one report has is None for the other.
TagComparison(left, right) ==
    LET rate(report, tag) == {report.tags[t] : t \in DOMAIN report.tags \cap {tag}}
    IN  [tag \in DOMAIN left.tags \cup DOMAIN right.tags |->
            <<rate(left, tag), rate(right, tag)>>]
=============================================================================
