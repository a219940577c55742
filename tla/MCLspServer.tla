---------------------------- MODULE MCLspServer ----------------------------
(***************************************************************************)
(* The server with an editor that has a document or two and two texts for  *)
(* each of them.                                                           *)
(***************************************************************************)
EXTENDS LspServer
=============================================================================
