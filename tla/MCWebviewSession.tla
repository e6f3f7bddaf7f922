-------------------------- MODULE MCWebviewSession --------------------------
(***************************************************************************)
(* Small instances of WebviewSession for TLC.  Three sessions: one that    *)
(* ends late, one it disturbs, and one that can start because of that.     *)
(***************************************************************************)
EXTENDS WebviewSession
=============================================================================
