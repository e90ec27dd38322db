----------------------------- MODULE MCFilings -----------------------------
(***************************************************************************)
(* Small instances of FilingPipeline: an annual report and its amended     *)
(* copy, a scan published under the same name.                             *)
(***************************************************************************)
EXTENDS FilingPipeline

CONSTANTS report, amended, broken

MCName == [f \in Filings |-> IF f = broken THEN "rapport" ELSE "etats"]

=============================================================================
