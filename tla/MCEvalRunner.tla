---------------------------- MODULE MCEvalRunner ----------------------------
(* A small dataset: two cases to remedy and one to escalate, as the bundled
   dataset has them. *)
EXTENDS EvalRunnerProps

MCTools == {"match_payment", "remove_account_hold"}

Remedy == [stage |-> "AWAITING_APPROVAL", groups |-> 2, customer |-> TRUE,
           approval |-> {TRUE}, verdict |-> {"APPROVE"}]
MCDataset == <<
    [id |-> 1, tags |-> {"t1"}, actions |-> {<<"match_payment">>}] @@ Remedy,
    [id |-> 2, tags |-> {"t2"}, stage |-> "ESCALATED", groups |-> 1,
     actions |-> {}, customer |-> FALSE, approval |-> {}, verdict |-> {}],
    [id |-> 3, tags |-> {"t1", "t2"}, actions |-> {<<"remove_account_hold">>}] @@ Remedy>>

Left(stage, matched, plan, verdict, latency) ==
    [stage |-> stage, matched |-> matched, plan |-> plan, customer |-> TRUE,
     verdict |-> verdict, latency |-> latency]

Escalated == Left("ESCALATED", 0, << >>, {}, 1)
MCFinalStatesOf ==
    [multi_agent  |-> {Escalated,
                       Left("AWAITING_APPROVAL", 2, <<"match_payment">>, {"APPROVE"}, 3)},
     single_agent |-> {Escalated, Left("AWAITING_APPROVAL", 1, <<"match_payment">>, {}, 2)},
     no_reviewer  |-> {Escalated,
                       Left("AWAITING_APPROVAL", 2, <<"remove_account_hold">>, {}, 2)}]
=============================================================================
