---------------------------- MODULE MCFindings ----------------------------
(* An instance of Findings for TLC: a vulnerable dependency of a test      *)
(* fixture, which trivy cannot grade.                                      *)
EXTENDS Findings, TLC

CONSTANT f1

TheScanners == f1 :> "trivy"
TheLabels == f1 :> "UNKNOWN"

Symmetry == Permutations(Projects)
=============================================================================
