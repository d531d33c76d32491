---------------------------- MODULE MCBioMemory ----------------------------
(***************************************************************************)
(* Small memories for TLC.                                                 *)
(***************************************************************************)
EXTENDS BioMemory
=============================================================================
