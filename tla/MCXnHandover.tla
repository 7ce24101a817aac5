---------------------------- MODULE MCXnHandover ----------------------------
(***************************************************************************)
(* Instances of XnHandover for TLC: gNBs 1 and 2 have the same interface   *)
(* number, gNB 3 another; UE 12 starts at gNB 2, other UEs at gNB 1.       *)
(***************************************************************************)
EXTENDS XnHandover

MCHome == [u \in UEs |-> IF u = 12 THEN 2 ELSE 1]
MCgnbIF == [g \in Gnbs |-> IF g = 3 THEN 6 ELSE 5]
=============================================================================
