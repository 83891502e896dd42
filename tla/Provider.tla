------------------------------ MODULE Provider ------------------------------
(***************************************************************************)
(* What a provider of tokens does with a refresh token: Keycloak for       *)
(* logins and Slack links (auth/oidc.go), GitHub (auth/github.go), the     *)
(* authorization server of an MCP server (mcp/oauth2.go).  Tokens are      *)
(* numbers, 0 stands for no token.                                         *)
(***************************************************************************)
EXTENDS Naturals

\* The least number that nobody keeps.
Unused(kept, most) == {n \in 1 .. most: n \notin kept /\ \A m \in 1 .. n - 1: m \in kept}

\* Of the accepted tokens those that nobody keeps are forgotten: they are
\* never presented again.
With(accepted, kept, n) == (accepted \cap kept) \cup {n}

\* An accepted token is kept or, by a provider that rotates them, replaced by
\* a new one and accepted no more.
Refreshed(accepted, token, kept, most, rotates) ==
    IF token \notin accepted THEN {}
    ELSE IF ~rotates THEN {[token |-> token, accepted |-> accepted]}
    ELSE {[token |-> n, accepted |-> With(accepted \ {token}, kept, n)]: n \in Unused(kept, most)}

\* A grant made anew stands beside those there are.
Granted(accepted, kept, most) ==
    {[token |-> n, accepted |-> With(accepted, kept, n)]: n \in Unused(kept, most)}
=============================================================================
