----------------------------- MODULE MCProjects -----------------------------
(* Instances of Projects for TLC.                                          *)
EXTENDS Projects
=============================================================================
