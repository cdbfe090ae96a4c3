------------------------------ MODULE MCIssues ------------------------------
(* Instances of Issues for TLC.                                            *)
EXTENDS Issues
=============================================================================
