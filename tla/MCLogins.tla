------------------------------- MODULE MCLogins -------------------------------
(* Instances of CopilotExchange, and with it of TokenManager, for TLC.        *)
EXTENDS CopilotExchange

CONSTANTS c1, c2
=============================================================================
