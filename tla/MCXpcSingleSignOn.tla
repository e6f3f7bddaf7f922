------------------------- MODULE MCXpcSingleSignOn -------------------------
(* A small instance of XpcSingleSignOn. *)
EXTENDS XpcSingleSignOn, TLC

CONSTANTS silent, interactive, mac, cp

TheRequests == {silent, interactive}
TheSilent == {silent}
TheProviders == {mac, cp}
=============================================================================
