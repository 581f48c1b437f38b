--------------------------- MODULE MCNetTerminal ---------------------------
(* NetTerminal on a small instance: two connection numbers, which are used *)
(* again, and two remote terminals.                                        *)
EXTENDS NetTerminal

MCCids == {1, 2}
MCPeers == {1, 2}
=============================================================================
