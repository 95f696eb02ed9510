--------------------------- MODULE EvalRunnerProps ---------------------------
(* What the evaluation's numbers promise: properties of EvalRunner. *)
EXTENDS EvalRunner

Report(variant) == CHOOSE report \in reports[variant] : TRUE

Reported == {variant \in Variants : reports[variant] # {}}

Pairs == {pair \in Reported \X Reported :
             Comparable(Report(pair[1]), Report(pair[2]))}

\* A report holds a result of every case that its run was to evaluate, no case
\* twice and none else, in the dataset's order, whatever cases raised and in
\* whatever order the tasks ended (runner.py:191-229).
ResultsInOrder ==
    \A variant \in Reported :
        LET cases == Report(variant).cases
        IN  [k \in DOMAIN cases |-> cases[k].id]
               = [k \in 1..selected.report[variant] |-> Dataset[k].id]

\* Two variants' accuracies and tag rates, the review's apart, are averages
\* over the same cases: a case that raised counts as wrong in every metric
\* that it would have counted in (scoring.py:53-272 against 275-363).
SameDenominators ==
    \A pair \in Pairs :
        LET left == Report(pair[1])
            right == Report(pair[2])
            byTag == TagComparison(left, right)
        IN  /\ \A metric \in {"stage", "root", "plan", "customer", "approval"} :
                  left.accuracy[metric].of = right.accuracy[metric].of
            /\ \A tag \in DOMAIN byTag :
                  {rate.of : rate \in byTag[tag][1]} = {rate.of : rate \in byTag[tag][2]}

\* A difference of pass rates is what the lists of cases that only one of the
\* two variants passed account for (compare.py:221-316).
ComparisonAddsUp ==
    \A pair \in Pairs :
        LET paired == PairedComparison(Report(pair[1]), Report(pair[2]))
        IN  /\ paired.delta = Cardinality(paired.leftOnly) - Cardinality(paired.rightOnly)
            /\ paired.strictDelta =
                  Cardinality(paired.leftOnlyStrict) - Cardinality(paired.rightOnlyStrict)

\* Every run comes to its report, cases that raise included.
RunsEnd == run.variant # "none" ~> run.variant = "none"
=============================================================================
