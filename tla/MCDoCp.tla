-------------------------------- MODULE MCDoCp --------------------------------
(* Instances of DoCp for TLC.                                               *)
EXTENDS DoCp

AllKinds == PairKinds

=============================================================================
