------------------------ MODULE MCBrokerInteractive ------------------------
(***************************************************************************)
(* A small instance of BrokerInteractive for TLC: two requests, so that    *)
(* one can start while, or after, the other is in progress.                *)
(***************************************************************************)
EXTENDS BrokerInteractive

CONSTANTS r1, r2
=============================================================================
