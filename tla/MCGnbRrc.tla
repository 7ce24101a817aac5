------------------------------ MODULE MCGnbRrc ------------------------------
(***************************************************************************)
(* Instances of GnbRrc for TLC.  gNBs and UEs are integers, as device      *)
(* identifiers are in the code.                                            *)
(***************************************************************************)
EXTENDS GnbRrc

MCOneCellAssociation == [u \in UEs |-> 1]     \* every UE starts at gNB 1
=============================================================================
