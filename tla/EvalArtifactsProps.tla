------------------------- MODULE EvalArtifactsProps -------------------------
(* What the evaluation files promise: properties of EvalArtifacts. *)
EXTENDS EvalArtifacts

\* A report in a variant's place, unless --output put it there, holds all the
\* cases of the dataset version that it names, although the dataset file may
\* have changed during the run and smaller runs write reports too (runner.py:232-258,
\* 308-327).
ReportsAreFull ==
    \A v \in Variants :
        LET report == files[v].report
        IN  files[v].state = "whole" /\ ~report.explicit =>
                report.cases = CasesOf[report.version]

\* A comparison made with the current scoring is one of three reports of the
\* same dataset version and cases, although runs may replace them while they
\* are read one after the other (compare.py:81-110, 503-520).
ComparisonIsPaired ==
    comparison.state = "whole" /\ comparison.scoring = Current =>
        \A v, w \in Variants :
            LET left == comparison.reports[v]
                right == comparison.reports[w]
            IN  /\ left.scoring = Current
                /\ left.version = right.version /\ left.cases = right.cases

\* Once a run has put its report into multi_agent.json, a load that begins
\* afterwards does not read the fallback's file, though a later run may be
\* rewriting the report or may have been killed over it; and once that holds of
\* all three variants, no report of the former scoring makes the request fail
\* (evaluations.py:35-68, 83-96; runner.py:308-345).
FallbackGivesWay ==
    /\ "multi_agent" \in page.taken => page.from["multi_agent"] # "multi_agent_v1"
    /\ page.taken = Variants => page.pc # "invalid"
=============================================================================
