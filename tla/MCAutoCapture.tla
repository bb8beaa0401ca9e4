--------------------------- MODULE MCAutoCapture ---------------------------
(***************************************************************************)
(* Small instances of AutoCapture: two sessions of one agent.              *)
(***************************************************************************)
EXTENDS AutoCapture, TLC

CONSTANTS a1, s1, s2, plan, news, trade

MCAgentOf == [s \in Sessions |-> a1]
=============================================================================
