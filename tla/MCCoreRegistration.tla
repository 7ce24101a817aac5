------------------------- MODULE MCCoreRegistration -------------------------
(***************************************************************************)
(* Instances of CoreRegistration for TLC: UEs 11 and 12 share gNB 1, UE 13 *)
(* is connected to gNB 2.                                                  *)
(***************************************************************************)
EXTENDS CoreRegistration

MCSelectedCell == [u \in UEs |-> IF u = 13 THEN 2 ELSE 1]
=============================================================================
