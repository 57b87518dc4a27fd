----------------------------- MODULE MCStageOut ------------------------------
(* Instances of StageOut for TLC.                                           *)
EXTENDS StageOut, TLC

MoveTwo == [pairs |-> 2, existing |-> {}, options |-> 0, moving |-> TRUE]

MoveOne == [pairs |-> 1, existing |-> {}, options |-> 0, moving |-> TRUE]

(* The second of two destinations is there: it is copied to directly.       *)
CopyMixed == [pairs |-> 2, existing |-> {2}, options |-> 0, moving |-> FALSE]

(* ifdh cp --force=... src dest *)
CopyWithOption == [pairs |-> 1, existing |-> {}, options |-> 1, moving |-> FALSE]

(* Every destination is there: nothing goes through the stage area.         *)
CopyOver == [pairs |-> 1, existing |-> {1}, options |-> 0, moving |-> FALSE]

(* Clients are interchangeable: every constant treats them alike.           *)
ClientSymmetry == Permutations(Clients)

SafeCalls == {MoveTwo, CopyMixed}

LiveCalls == {MoveTwo, MoveOne}

OverwriteCalls == {CopyOver}

(* With these QueuedMeansReady is violated: the first pair is skipped.     *)
OptionCalls == {CopyWithOption}

HandoffCalls == {MoveOne}

=============================================================================
