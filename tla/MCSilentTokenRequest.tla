------------------------ MODULE MCSilentTokenRequest ------------------------
(***************************************************************************)
(* Small instances of SilentTokenRequest for TLC.  Clients "a" and "b" are *)
(* members of the family, "x" is not.                                      *)
(***************************************************************************)
EXTENDS SilentTokenRequest, TLC

MCMembers == {"a", "b"}

\* Nobody signed in; a alone; a and then b; a and x.
MCHistories ==
    {"a" :> 0 @@ "b" :> 0 @@ "x" :> 0, "a" :> 1 @@ "b" :> 0 @@ "x" :> 0,
     "a" :> 1 @@ "b" :> 2 @@ "x" :> 0, "a" :> 1 @@ "b" :> 0 @@ "x" :> 2}

\* No temporal property of this model tells the requests apart.
Sym == Permutations(Requests)
=============================================================================
