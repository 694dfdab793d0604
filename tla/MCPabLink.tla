----------------------------- MODULE MCPabLink ------------------------------
(***************************************************************************)
(* PabLink for TLC, together with the assumption its proofs rest on        *)
(* (LifetimeAssumption), which TLC then evaluates on the constants of      *)
(* MCPabLink.cfg: seven packets over six numbers and a window of three, so *)
(* that the numbers wrap while duplicates of the lap before are about.     *)
(***************************************************************************)
EXTENDS PabLinkProofs
=============================================================================
