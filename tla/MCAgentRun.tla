----------------------------- MODULE MCAgentRun -----------------------------
(* Small instances of AgentRun: two READ calls and a WRITE call to choose from. *)
EXTENDS AgentRunProps

CONSTANTS getInvoice, getHold, matchPayment, none
=============================================================================
