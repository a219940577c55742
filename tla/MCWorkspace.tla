---------------------------- MODULE MCWorkspace ----------------------------
(* Workspace on the files of PhpTexts.                                     *)
EXTENDS Workspace, PhpTexts
=============================================================================
