------------------------------- MODULE MCAccess -------------------------------
(* Access with one or two processes and a session, for TLC.                  *)
EXTENDS Access, TLC

Files(run, tmp, job) == "run" :> run @@ "tmp" :> tmp @@ "job" :> job

Token(size, exp) == [size |-> size, exp |-> exp]

Garbage == Token(1000, Nothing)

Base == [tokens |-> TRUE, proxies |-> FALSE, forks |-> TRUE, given |-> Unset, ticket |-> 20,
         up |-> FALSE, token |-> Files(NoToken, NoToken, NoToken), procs |-> {"c1", "c2"},
         urls |-> <<>>, rotations |-> <<>>]

(* A file of a size between the two limits has a token that is not sent.     *)
TokenSettings ==
    {[Base EXCEPT !.token = Files(r, NoToken, NoToken), !.ticket = k] :
        r \in {NoToken, Token(1000, 2), Token(300, 5)}, k \in {0, 2}} \union
    {[Base EXCEPT !.token = Files(Token(1000, 2), Token(1000, 4), NoToken)]} \union
    {[Base EXCEPT !.token = Files(NoToken, NoToken, j), !.given = "job", !.ticket = 0] :
        j \in {NoToken, Token(1000, 1), Token(100, 5), Garbage}} \union
    {[Base EXCEPT !.forks = FALSE],
     [Base EXCEPT !.forks = FALSE, !.token = Files(Token(1000, 2), NoToken, NoToken)]}

Proxies ==
    {[Base EXCEPT !.proxies = TRUE, !.tokens = FALSE, !.ticket = 4]} \union
    {[Base EXCEPT !.proxies = TRUE, !.procs = {"c1"}]}

Served ==
    {[Base EXCEPT !.up = TRUE, !.procs = {"c1", "s"}, !.token = Files(r, NoToken, j), !.given = g, !.ticket = k] :
        r \in {NoToken, Token(1000, 4)}, j \in {NoToken, Token(1000, 3)}, g \in {Unset, "job"}, k \in {0, 20}}

(* Two rotations share the lookup, two the protocol.                         *)
Rotation(kind, proto, lookup, answer, defaults) ==
    [matches |-> {kind}, proto |-> proto, lookup |-> lookup, answer |-> answer, defaults |-> defaults]

Url(kind) == [kind |-> kind, door |-> "own"]

Doors ==
    {[Base EXCEPT !.procs = {"c1"}, !.urls = u, !.token = Files(Token(1000, 9), NoToken, NoToken),
                  !.rotations = <<Rotation("stken", "gsiftp", "info", {"d1", "d2"}, {"d1", "d3"}),
                                  Rotation("web", "https", "info", {"w1"}, {"w2"}),
                                  Rotation("cern", "gsiftp", "other", {}, {"e1", "e2"})>>] :
        u \in {<<Url("stken"), Url("web")>>, <<Url("cern"), Url("stken")>>, <<Url("local"), Url("stken")>>}}

(* Here the second rotation finds the doors of the first.                    *)
SharedDoors ==
    {[Base EXCEPT !.procs = {"c1"}, !.urls = <<Url("cern"), Url("stken")>>,
                  !.token = Files(Token(1000, 9), NoToken, NoToken),
                  !.rotations = <<Rotation("stken", "gsiftp", "info", {"d1"}, {"d2"}),
                                  Rotation("cern", "gsiftp", "info", {"d1"}, {"e1", "e2"})>>]}

MCSettings == TokenSettings \union Proxies \union Served \union Doors \union SharedDoors

=============================================================================
