------------------------ MODULE MCAuthorityResolver -------------------------
(* AuthorityResolver with three hosts; a and b name the same cloud. *)
EXTENDS AuthorityResolver

CONSTANTS a, b, c

\* No metadata; the cloud of a and b; the same with c, for which the metadata
\* prefers no cache host.
Cloud1 == [networkHost |-> a, cacheHost |-> b, aliases |-> <<a, b>>]
Cloud2 == [networkHost |-> c, cacheHost |-> NIL, aliases |-> <<c>>]
MCMetadata == {<<>>, <<Cloud1>>, <<Cloud1, Cloud2>>}
=============================================================================
