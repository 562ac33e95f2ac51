------------------------------ MODULE MCWriter ------------------------------
(***************************************************************************)
(* The writer on a screen of three rows and three columns.                 *)
(***************************************************************************)
EXTENDS Writer
=============================================================================
