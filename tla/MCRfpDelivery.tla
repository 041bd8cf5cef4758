---------------------------- MODULE MCRfpDelivery ----------------------------
(***************************************************************************)
(* Instances of RfpDelivery for TLC.                                       *)
(***************************************************************************)
EXTENDS RfpDelivery, TLC

CONSTANTS i1, i2, s1, s2

OneSource  == [i \in Items |-> s1]
TwoSources == i1 :> s1 @@ i2 :> s2
=============================================================================
