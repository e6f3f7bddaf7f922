------------------------- MODULE MCAccountMetadata -------------------------
(***************************************************************************)
(* A small instance of AccountMetadata for TLC: the application's cache,   *)
(* which two threads use, and the broker response handler's.               *)
(***************************************************************************)
EXTENDS AccountMetadata, TLC

CONSTANTS t1, t2, t3

MCThreads == {t1, t2, t3}
MCCacheOf == t1 :> "app" @@ t2 :> "app" @@ t3 :> "broker"

\* No item; one account signed in and mapped, which is the principal account.
MCStored ==
    {[c \in Clients |-> NIL]}
        \cup {[c \in Clients |-> [NewItem EXCEPT !.meta[a] = [state |-> "in", mapped |-> TRUE],
                                                 !.principal = a]] : a \in Accounts}

Sym == {p @@ q : p \in Permutations(Accounts), q \in Permutations({t1, t2})}
=============================================================================
