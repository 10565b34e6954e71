-------------------------- MODULE MC_PrintWorkflow --------------------------
(* Small instances of PrintWorkflow: the constants of the .cfg files are all *)
(* they need.                                                                *)
EXTENDS PrintWorkflow
=============================================================================
