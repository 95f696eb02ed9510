--------------------------- MODULE MCCasePlanning ---------------------------
(* Small instances of CasePlanning: two plans to choose from. *)
EXTENDS CasePlanningProps

CONSTANTS acme, i1, p1, none, case1, r1, r2

MCCustomerOf == [c \in Cases |-> acme]

MatchOf(evidence) == [tool |-> "match_payment", payment |-> p1, invoice |-> i1,
                      evidence |-> evidence]
MCPlans == {<<MatchOf("known")>>, <<MatchOf("unknown")>>}
=============================================================================
