------------------------------ MODULE MCParserApp ------------------------------
(* Values of the constants of ParserApp for TLC.                           *)
EXTENDS ParserApp, TLC

CONSTANTS c1, c2, site, p1, p2

MCSourceOf == (p1 :> site) @@ (p2 :> site)
==============================================================================
