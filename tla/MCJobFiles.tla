------------------------------ MODULE MCJobFiles ------------------------------
(* Instances of JobFiles for TLC.                                           *)
EXTENDS JobFiles

CONSTANTS p1, p2, o1, o2

At(d, b) == [dir |-> d, base |-> b]

TwoFiles == o1 :> At("d", "x") @@ o2 :> At("d", "y")

(* Two directories, and the same last component.                            *)
SameBase == o1 :> At("d", "x") @@ o2 :> At("e", "x")

Set(pl, c1, n1, c2, n2, h, f) ==
    [place |-> pl, calls |-> p1 :> c1 @@ p2 :> c2, most |-> p1 :> n1 @@ p2 :> n2,
     hash |-> h, faults |-> f]

AllSettings ==
    {Set(TwoFiles, {"add", "unique", "copy", "cleanup"}, 5, {"copy"}, 2, TRUE, {}),
     Set(SameBase, {"fetch", "add", "unique", "copy"}, 5, {"cleanup", "copy"}, 2, FALSE, {}),
     Set(TwoFiles, {"fetch", "add", "substitute", "copy"}, 5, {"copy"}, 1, FALSE, {}),
     Set(SameBase, {"add", "copy"}, 3, {"add", "copy"}, 3, TRUE, {}),
     Set(TwoFiles, {"fetch", "add", "unique", "substitute"}, 5, {"copy", "cleanup"}, 2, FALSE, {}),
     Set(SameBase, {"add", "unique", "copy"}, 4, {"unique", "substitute"}, 2, FALSE, {}),
     Set(TwoFiles, {"add", "unique"}, 4, {"add", "copy"}, 3, FALSE, {"crash"}),
     Set(TwoFiles, {"add", "unique", "copy"}, 4, {"copy"}, 1, TRUE, {"mkdir", "crash"})}

=============================================================================
