---------------------------- MODULE MCImportJob ----------------------------
(* Small instances of ImportJob for TLC. *)
EXTENDS ImportJob

CONSTANTS k1, k2, a1, a2, b1, sa, sb

\* A key twice; the graph has room for one object.
MCFile == <<k1, k1, k2>>

\* The first two rows are too large for the gateway together.
MCRowBytes == <<2, 2, 1>>

MCScenarioKeys == [sc \in Scenarios |-> IF sc = sa THEN <<a1, Refused, a2>> ELSE <<b1>>]
=============================================================================
