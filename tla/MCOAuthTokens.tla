--------------------------- MODULE MCOAuthTokens ---------------------------
(* Small instances of OAuthTokens for TLC. *)
EXTENDS OAuthTokens

CONSTANTS c1, c2
=============================================================================
