------------------------------ MODULE LRUOrder ------------------------------
(***************************************************************************)
(* What MSIDLRUCache does, without nodes, links and signatures: the cached *)
(* keys from the most to the least recently used, the record of each, and  *)
(* the keys that dangle.  A key dangles when its record was evicted: the   *)
(* cache still maps it to a signature that has no node, and until the key  *)
(* is removed it can be neither read nor stored again.                     *)
(*                                                                         *)
(* LRUCache implements this module; Throttling uses it as its database.    *)
(***************************************************************************)
EXTENDS Integers, Sequences

CONSTANTS
    Keys,      \* the keys callers use
    Records,   \* the objects they store
    NIL,       \* nil
    CacheSize  \* the cacheSize of initWithCacheSize:

VARIABLES
    order,     \* the cached keys, most recently used first
    value,     \* key -> its record, NIL for a key that is not cached
    dangling,  \* keys mapped to a signature without a node
    reply      \* what the last operation returned

vars == <<order, value, dangling, reply>>

Cached(k) == k # NIL /\ value[k] # NIL
Mapped(k) == Cached(k) \/ k \in dangling

Succeed(obj) == reply' = [ok |-> TRUE, object |-> obj]
Fail         == reply' = [ok |-> FALSE, object |-> NIL]

\* The order without k, which is in it at most once.
At(k) == CHOOSE i \in DOMAIN order : order[i] = k
Without(k) ==
    IF \E i \in DOMAIN order : order[i] = k
      THEN [i \in 1..Len(order) - 1 |-> order[IF i < At(k) THEN i ELSE i + 1]]
      ELSE order
ToFront(k) == <<k>> \o Without(k)
Last       == order[Len(order)]
Full       == Len(order) >= CacheSize

Init ==
    /\ order = <<>>
    /\ value = [k \in Keys |-> NIL]
    /\ dangling = {}
    /\ reply = [ok |-> TRUE, object |-> NIL]

CanStore(k, r) == CacheSize > 0 /\ k # NIL /\ r # NIL

SetRejected(k, r) ==
    /\ ~ CanStore(k, r)
    /\ Fail
    /\ UNCHANGED <<order, value, dangling>>

SetMapped(k, r) ==
    /\ CanStore(k, r) /\ Cached(k)
    /\ order' = ToFront(k)
    /\ Succeed(NIL)
    /\ UNCHANGED <<value, dangling>>

SetDangling(k, r) ==
    /\ CanStore(k, r) /\ k \in dangling
    /\ Fail
    /\ UNCHANGED <<order, value, dangling>>

SetNew(k, r) ==
    /\ CanStore(k, r) /\ ~ Mapped(k)
    /\ IF Full
         THEN /\ order' = <<k>> \o Without(Last)
              /\ value' = [value EXCEPT ![Last] = NIL, ![k] = r]
              /\ dangling' = dangling \cup {Last}
         ELSE /\ order' = <<k>> \o order
              /\ value' = [value EXCEPT ![k] = r]
              /\ UNCHANGED dangling
    /\ Succeed(NIL)

RemoveMissing(k) ==
    /\ ~ Mapped(k)
    /\ Fail
    /\ UNCHANGED <<order, value, dangling>>

RemoveMapped(k) ==
    /\ Mapped(k)
    /\ order' = Without(k)
    /\ value' = [value EXCEPT ![k] = NIL]
    /\ dangling' = dangling \ {k}
    /\ IF Cached(k) THEN Succeed(NIL) ELSE Fail

GetMiss(k) ==
    /\ ~ Cached(k)
    /\ Fail
    /\ UNCHANGED <<order, value, dangling>>

GetHit(k) ==
    /\ Cached(k)
    /\ order' = ToFront(k)
    /\ Succeed(value[k])
    /\ UNCHANGED <<value, dangling>>

RemoveAll ==
    /\ order' = <<>>
    /\ value' = [k \in Keys |-> NIL]
    /\ dangling' = {}
    /\ IF order # <<>> /\ dangling = {} THEN Succeed(NIL) ELSE Fail

SetObject(k, r) ==
    SetRejected(k, r) \/ SetMapped(k, r) \/ SetDangling(k, r) \/ SetNew(k, r)
RemoveObject(k) == RemoveMissing(k) \/ RemoveMapped(k)
GetObject(k)    == GetMiss(k) \/ GetHit(k)

Next ==
    \/ \E k \in Keys \cup {NIL}, r \in Records \cup {NIL} : SetObject(k, r)
    \/ \E k \in Keys \cup {NIL} : RemoveObject(k) \/ GetObject(k)
    \/ RemoveAll

Spec == Init /\ [][Next]_vars
=============================================================================
