------------------------------- MODULE UseAsync -------------------------------
(***************************************************************************)
(* The hook through which every page of the dashboard loads its data       *)
(* (frontend/src/hooks/useAsync.ts).  A render with other dependencies, or *)
(* a reload, is followed by the effect: the cleanup of the former one, and *)
(* a new load.  The answers to loads come back in any order.               *)
(***************************************************************************)
EXTENDS Naturals

CONSTANT MaxRenders     \* bound: loads of one mounted component

ASSUME UseAsyncAssumption == MaxRenders \in Nat \ {0}

Loads == 1..MaxRenders

VARIABLES
    load,       \* each load, and whether its effect has been cleaned up
    latest,     \* the load of the latest effect
    rendered,   \* the load that the latest render asks for
    data,       \* the load whose answer is shown, 0 for null
    error,      \* the load whose failure is shown, 0 for null
    loading

hookVars == <<load, latest, rendered, data, error, loading>>

\* The first render; its effect has not run yet.
HookInit ==
    /\ load = [n \in Loads |-> [pc |-> "none", cancelled |-> FALSE]]
    /\ latest = 0 /\ rendered = 1
    /\ data = 0 /\ error = 0
    /\ loading = TRUE

\* Other dependencies, or reload().
Render ==
    /\ rendered < MaxRenders
    /\ rendered' = rendered + 1
    /\ UNCHANGED <<load, latest, data, error, loading>>

\* Mutant: there is no cleanup.
EffectWithoutCleanup ==
    /\ latest < rendered
    /\ latest' = rendered
    /\ load' = [load EXCEPT ![rendered].pc = "asked"]
    /\ loading' = TRUE
    /\ error' = 0
    /\ UNCHANGED <<rendered, data>>

Effect ==
    /\ latest < rendered
    /\ latest' = rendered
    /\ load' = [n \in Loads |->
                   IF n = rendered THEN [pc |-> "asked", cancelled |-> FALSE]
                   ELSE [load[n] EXCEPT !.cancelled = @ \/ n = latest]]
    /\ loading' = TRUE
    /\ error' = 0
    /\ UNCHANGED <<rendered, data>>

Settle(n) ==
    /\ load[n].pc = "asked"
    /\ load' = [load EXCEPT ![n].pc = "settled"]
    /\ UNCHANGED <<latest, rendered, loading>>

\* .then
Resolve(n) ==
    /\ Settle(n)
    /\ data' = IF load[n].cancelled THEN data ELSE n
    /\ UNCHANGED error

\* .catch
Reject(n) ==
    /\ Settle(n)
    /\ error' = IF load[n].cancelled THEN error ELSE n
    /\ data' = IF load[n].cancelled THEN data ELSE 0

\* Mutant: the load that ends last ends the loading.
FinallyWhenLast(n) ==
    /\ load[n].pc = "settled"
    /\ load' = [load EXCEPT ![n].pc = "over"]
    /\ loading' = (\E m \in Loads : load[m].pc \in {"none", "asked"})
    /\ UNCHANGED <<latest, rendered, data, error>>

\* .finally
Finally(n) ==
    /\ load[n].pc = "settled"
    /\ load' = [load EXCEPT ![n].pc = "over"]
    /\ loading' = (loading /\ load[n].cancelled)
    /\ UNCHANGED <<latest, rendered, data, error>>

LoadStep(n) == Resolve(n) \/ Reject(n) \/ Finally(n)

HookNext == Render \/ Effect \/ \E n \in Loads : LoadStep(n)

HookSpec == HookInit /\ [][HookNext]_hookVars

\* React runs effects, and the API answers or the browser gives up.
FairHookSpec ==
    /\ HookSpec
    /\ WF_hookVars(Effect)
    /\ \A n \in Loads : WF_hookVars(LoadStep(n))
=============================================================================
