--------------------------- MODULE MCResultSpool ---------------------------
(* Instances of ResultSpool for TLC.                                        *)
EXTENDS ResultSpool

CONSTANTS h1, h2
=============================================================================
