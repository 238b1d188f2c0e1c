----------------------------- MODULE MCManager -----------------------------
(* TLC instances of Manager: the records found at start.                   *)
EXTENDS Manager, TLC

CONSTANTS p1, p2

\* The id of a record that the first start generates.
OneRestored == 1 :> p1
\* The id of a record that no start of the instance generates.
LateRestored == (MaxStarts + 1) :> p1
=============================================================================
