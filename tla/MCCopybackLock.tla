--------------------------- MODULE MCCopybackLock ----------------------------
(* Instances of CopybackLock for TLC.                      *)
EXTENDS CopybackLock

(* The first daemon's clock is one second ahead of the others.              *)
FirstAhead == [d \in Daemons |-> IF d = 1 THEN 1 ELSE 0]

InStep == [d \in Daemons |-> 0]

=============================================================================
