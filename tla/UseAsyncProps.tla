---------------------------- MODULE UseAsyncProps ----------------------------
(* What a page shows once it has loaded: properties of UseAsync. *)
EXTENDS UseAsync

\* Once the effect of a render has run and nothing is loading, what is shown
\* is the outcome of the latest load, however late the answers to earlier ones
\* come (useAsync.ts:26-42).
SettledIsCurrent ==
    latest = rendered /\ ~loading => data = latest \/ error = latest

\* Loading ends.
LoadingEnds == loading ~> ~loading
=============================================================================
