--------------------------- MODULE MCEvalArtifacts ---------------------------
(* Two versions of a dataset: the later one has a case more. *)
EXTENDS EvalArtifactsProps, TLC

CONSTANTS v1, v2, e1, e2, x1, x2

MCVersions == {v1, v2}
MCCasesOf == (v1 :> {e1}) @@ (v2 :> {e1, e2})

\* The slots of the runner are alike.
MCSymmetry == Permutations({x1, x2})
=============================================================================
