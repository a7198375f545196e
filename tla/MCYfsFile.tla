------------------------------ MODULE MCYfsFile ------------------------------
(* Small instances of YfsFile.                                             *)
EXTENDS YfsFile
=============================================================================
