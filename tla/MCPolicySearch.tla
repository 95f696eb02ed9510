--------------------------- MODULE MCPolicySearch ---------------------------
(* Small instances of PolicySearch: a policy and a contract of either customer. *)
EXTENDS PolicySearchProps, TLC

CONSTANTS policy, contractA, contractB, acme, globex, everyone, x1, x2, r1, r2, s1, s2

MCCustomerOfDocument ==
    (policy :> everyone) @@ (contractA :> acme) @@ (contractB :> globex)

Gemini(model, dimensions) == [model |-> model, dimensions |-> dimensions]

MCEmbeddings == {Gemini("one", 2), Gemini("two", 2), Gemini("one", 3)}
=============================================================================
