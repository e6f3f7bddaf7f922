-------------------------- MODULE CompletionBlock --------------------------
(***************************************************************************)
(* What the caller of a request may rely on.  It hands over a completion   *)
(* block with the request; the block is called with one answer, once, and  *)
(* not before the request was made - or never, if the request is lost with *)
(* its process or its controller, and then not later either.               *)
(*                                                                         *)
(* BrokerInteractive, XpcSingleSignOn, WebviewSession and                  *)
(* SilentTokenRequest implement this module.  Which answer is right is     *)
(* said by their own properties.                                           *)
(***************************************************************************)
EXTENDS Naturals, Sequences

CONSTANTS
    Callers,    \* each makes one request
    Replies     \* what a block may be called with

VARIABLES
    standing,   \* standing[c] : how the request of c stands
    replies     \* replies[c] : what the block of c has been called with

vars == <<standing, replies>>

Init ==
    /\ standing = [c \in Callers |-> "new"]
    /\ replies = [c \in Callers |-> <<>>]

\* The request is made.
Ask(c) ==
    /\ standing[c] = "new"
    /\ standing' = [standing EXCEPT ![c] = "waiting"]
    /\ UNCHANGED replies

\* The block is called, at once or later.
Reply(c, x) ==
    /\ standing[c] \in {"new", "waiting"}
    /\ standing' = [standing EXCEPT ![c] = "answered"]
    /\ replies' = [replies EXCEPT ![c] = <<x>>]

\* The requests of S are lost, and their blocks with them.
Lose(S) ==
    /\ \A c \in S : standing[c] = "waiting"
    /\ standing' = [c \in Callers |-> IF c \in S THEN "lost" ELSE standing[c]]
    /\ UNCHANGED replies

Next ==
    \/ \E c \in Callers : Ask(c) \/ \E x \in Replies : Reply(c, x)
    \/ \E S \in SUBSET Callers : Lose(S)

Spec == Init /\ [][Next]_vars
=============================================================================
