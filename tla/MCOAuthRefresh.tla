--------------------------- MODULE MCOAuthRefresh ---------------------------
(* OAuthRefresh for TLC: the constants are given in the configuration.     *)
EXTENDS OAuthRefresh
=============================================================================
