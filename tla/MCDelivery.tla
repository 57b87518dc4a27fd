------------------------------ MODULE MCDelivery ------------------------------
(* Instances of Delivery for TLC.                                           *)
EXTENDS Delivery

(* A service that serves requests without a token, and right guesses.       *)
Set(s, c, t, f) ==
    [service |-> s, open |-> TRUE, timed |-> t, caller |-> c, guess |-> TRUE, faults |-> f]

(* A service that asks for a token; guesses that are wrong.                 *)
Closed(c, f) == [Set("dd", c, FALSE, f) EXCEPT !.open = FALSE]

Misnamed(f) == [Set("dd", "cli", FALSE, f) EXCEPT !.guess = FALSE]

AllSettings ==
    {Set("dd", "cli", FALSE, {"busy", "lost"}),
     Set("dd", "library", FALSE, {"busy", "lost"}),
     Set("dd", "library", FALSE, {"error", "slow"}),
     Set("dd", "library", TRUE, {"busy"}),
     Set("dd", "ahead", FALSE, {"busy"}),
     Set("dd", "cli", FALSE, {"refused", "timeout"}),
     Closed("library", {"lost"}),
     Misnamed({"busy"}),
     Set("sam", "cli", FALSE, {"busy", "wait"}),
     Set("sam", "library", FALSE, {"refused", "error", "lost"}),
     Set("sam", "library", FALSE, {"timeout", "slow"}),
     Set("sam", "ahead", FALSE, {"busy"})}

DataDispatcher == {Set("dd", "library", FALSE, {})}

=============================================================================
