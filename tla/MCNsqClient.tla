---------------------------- MODULE MCNsqClient -----------------------------
(* Instances of NsqClient for TLC.                                         *)
EXTENDS NsqClient
=============================================================================
