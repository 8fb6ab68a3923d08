---------------------------- MODULE MCTableFile -----------------------------
(***************************************************************************)
(* Two sessions, one scanner and a file of up to four lines.               *)
(***************************************************************************)
EXTENDS TableFile
=============================================================================
