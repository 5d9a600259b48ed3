----------------------------- MODULE MCRamSync ------------------------------
(* Instances of RamSync for TLC. *)
EXTENDS RamSync

=============================================================================
