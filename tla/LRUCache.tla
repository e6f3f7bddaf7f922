------------------------------ MODULE LRUCache ------------------------------
(***************************************************************************)
(* MSIDLRUCache, the store of the throttling database: a doubly linked     *)
(* list of nodes kept in a dictionary by signature (`container'), between  *)
(* a dummy head and a dummy tail, and a dictionary from the caller's keys  *)
(* to signatures (`keySignatureMap').                                      *)
(*                                                                         *)
(* Every public operation runs inside one dispatch_barrier_sync on the     *)
(* cache's queue, so an operation is one action.  A signature is drawn at  *)
(* random among 62^8 strings; the model draws one that is not in use.      *)
(*                                                                         *)
(* An operator whose comment begins with "Deviation" is not part of the    *)
(* model: it says how a likely mistake in the code would read, and is used *)
(* to see that the properties tell the two apart.                          *)
(***************************************************************************)
EXTENDS Integers, FiniteSets

CONSTANTS
    Keys,        \* the keys callers use (request thumbprints)
    Records,     \* the objects they store
    Signatures,  \* the values mapKeyToSignature may draw
    HEAD, TAIL,  \* HEAD_SIGNATURE, TAIL_SIGNATURE
    NIL,         \* nil, and an absent dictionary entry
    CacheSize,   \* the cacheSize of initWithCacheSize:
    MaxCount     \* bound on the sum of the statistics counters

Addresses == Signatures \cup {HEAD, TAIL}

Node == [prev   : Addresses \cup {NIL},
         next   : Addresses \cup {NIL},
         record : Records \cup {NIL}]

ASSUME LRUAssumption ==
    /\ CacheSize \in Nat
    /\ MaxCount \in Nat
    /\ IsFiniteSet(Signatures)
    /\ HEAD # TAIL /\ HEAD \notin Signatures /\ TAIL \notin Signatures
    /\ NIL \notin Addresses /\ NIL \notin Keys /\ NIL \notin Records
    /\ NIL \notin Node

VARIABLES
    container,        \* signature -> node, NIL where there is no entry
    keySignatureMap,  \* key -> signature, NIL where there is no entry
    count,            \* the four statistics counters
    reply             \* what the last operation returned

vars == <<container, keySignatureMap, count, reply>>

-----------------------------------------------------------------------------
Live == {a \in Addresses : container[a] # NIL}

NumCacheRecords == Cardinality(Live) - 2

\* A lookup of nil finds nothing.
Mapped(k) == k # NIL /\ keySignatureMap[k] # NIL

\* A key is cached when its signature leads to a node.
Cached(k) == Mapped(k) /\ container[keySignatureMap[k]] # NIL

InUse(s) == container[s] # NIL \/ \E k \in Keys : keySignatureMap[k] = s

Budget == count.update + count.eviction + count.add + count.remove < MaxCount

Succeed(obj) == reply' = [ok |-> TRUE, object |-> obj]
Fail         == reply' = [ok |-> FALSE, object |-> NIL]

-----------------------------------------------------------------------------
\* Deviation: the successor keeps its link to the removed node.
UnlinkOneWay(c, s) == [c EXCEPT ![c[s].prev] = [@ EXCEPT !.next = c[s].next],
                                ![s] = NIL]

\* removeObjectForKeyImpl on a signature that has a node.
Unlink(c, s) ==
    [c EXCEPT ![c[s].prev] = [@ EXCEPT !.next = c[s].next],
              ![c[s].next] = [@ EXCEPT !.prev = c[s].prev],
              ![s] = NIL]

\* addToFrontImpl.
PushFront(c, s, r) ==
    [c EXCEPT ![c[HEAD].next] = [@ EXCEPT !.prev = s],
              ![s] = [prev |-> HEAD, next |-> c[HEAD].next, record |-> r],
              ![HEAD] = [@ EXCEPT !.next = s]]

\* The part of objectForKeyImpl that changes state: unlink, push to the front.
Touch(s) == PushFront(Unlink(container, s), s, container[s].record)

\* Deviation: the other end of the list.
MostRecent == container[HEAD].next

LeastRecent == container[TAIL].prev

Init ==
    /\ container =
         [a \in Addresses |->
            IF a = HEAD THEN [prev |-> NIL, next |-> TAIL, record |-> NIL]
            ELSE IF a = TAIL THEN [prev |-> HEAD, next |-> NIL, record |-> NIL]
            ELSE NIL]
    /\ keySignatureMap = [k \in Keys |-> NIL]
    /\ count = [update |-> 0, eviction |-> 0, add |-> 0, remove |-> 0]
    /\ reply = [ok |-> TRUE, object |-> NIL]

-----------------------------------------------------------------------------
(* setObject:forKey:error: *)

CanStore(k, r) == CacheSize > 0 /\ k # NIL /\ r # NIL

SetRejected(k, r) ==
    /\ ~ CanStore(k, r)
    /\ Fail
    /\ UNCHANGED <<container, keySignatureMap, count>>

\* The key has a signature: its node is moved to the front, and the record
\* passed in is not used.
SetMapped(k, r) ==
    /\ CanStore(k, r) /\ Cached(k)
    /\ Budget
    /\ container' = Touch(keySignatureMap[k])
    /\ count' = [count EXCEPT !.update = @ + 1]
    /\ Succeed(NIL)
    /\ UNCHANGED keySignatureMap

\* The key has a signature whose node was evicted: objectForKeyImpl fails.
SetDangling(k, r) ==
    /\ CanStore(k, r) /\ Mapped(k) /\ ~ Cached(k)
    /\ Fail
    /\ UNCHANGED <<container, keySignatureMap, count>>

\* An eviction unlinks the node and leaves its key in keySignatureMap.
SetNew(k, r) ==
    /\ CanStore(k, r) /\ ~ Mapped(k)
    /\ Budget
    /\ LET full == NumCacheRecords >= CacheSize
           c == IF full THEN Unlink(container, LeastRecent) ELSE container
       IN \E s \in {t \in Signatures : ~ InUse(t)} :
            /\ container' = PushFront(c, s, r)
            /\ keySignatureMap' = [keySignatureMap EXCEPT ![k] = s]
            /\ count' = [count EXCEPT !.eviction = IF full THEN @ + 1 ELSE @,
                                      !.add = @ + 1]
    /\ Succeed(NIL)

-----------------------------------------------------------------------------
(* removeObjectForKey:error: *)

RemoveMissing(k) ==
    /\ ~ Mapped(k)
    /\ Fail
    /\ UNCHANGED <<container, keySignatureMap, count>>

RemoveMapped(k) ==
    /\ Mapped(k)
    /\ Budget
    /\ keySignatureMap' = [keySignatureMap EXCEPT ![k] = NIL]
    /\ count' = [count EXCEPT !.remove = @ + 1]
    /\ IF Cached(k)
         THEN container' = Unlink(container, keySignatureMap[k]) /\ Succeed(NIL)
         ELSE Fail /\ UNCHANGED container

-----------------------------------------------------------------------------
(* objectForKey:error: *)

GetMiss(k) ==
    /\ ~ Cached(k)
    /\ Fail
    /\ UNCHANGED <<container, keySignatureMap, count>>

GetHit(k) ==
    /\ Cached(k)
    /\ Budget
    /\ container' = Touch(keySignatureMap[k])
    /\ count' = [count EXCEPT !.update = @ + 1]
    /\ Succeed(container[keySignatureMap[k]].record)
    /\ UNCHANGED keySignatureMap

-----------------------------------------------------------------------------
\* removeAllObjects: removes key after key; a dangling key makes it report
\* failure, and so does an empty cache.
RemoveAll ==
    /\ container' =
         [a \in Addresses |->
            IF a = HEAD THEN [container[HEAD] EXCEPT !.next = TAIL]
            ELSE IF a = TAIL THEN [container[TAIL] EXCEPT !.prev = HEAD]
            ELSE NIL]
    /\ keySignatureMap' = [k \in Keys |-> NIL]
    /\ count' = [update |-> 0, eviction |-> 0, add |-> 0, remove |-> 0]
    /\ IF (\E k \in Keys : Mapped(k)) /\ (\A k \in Keys : Mapped(k) => Cached(k))
         THEN Succeed(NIL)
         ELSE Fail

SetObject(k, r) ==
    SetRejected(k, r) \/ SetMapped(k, r) \/ SetDangling(k, r) \/ SetNew(k, r)
RemoveObject(k) == RemoveMissing(k) \/ RemoveMapped(k)
GetObject(k)    == GetMiss(k) \/ GetHit(k)

Next ==
    \/ \E k \in Keys \cup {NIL}, r \in Records \cup {NIL} : SetObject(k, r)
    \/ \E k \in Keys \cup {NIL} : RemoveObject(k) \/ GetObject(k)
    \/ RemoveAll

Spec == Init /\ [][Next]_vars

-----------------------------------------------------------------------------
TypeOK ==
    /\ container \in [Addresses -> Node \cup {NIL}]
    /\ keySignatureMap \in [Keys -> Signatures \cup {NIL}]
    /\ count \in [update : Nat, eviction : Nat, add : Nat, remove : Nat]
    /\ reply \in [ok : BOOLEAN, object : Records \cup {NIL}]

\* Both directions of the list agree, and it is closed: the successor of every
\* node but the tail is a node whose predecessor it is, and conversely.
\* Unlink and PushFront each replace nodes one dictionary entry at a time.
LinksAgree ==
    /\ HEAD \in Live /\ TAIL \in Live
    /\ \A a \in Live \ {TAIL} :
          LET b == container[a].next
          IN b \in Live \ {HEAD} /\ container[b].prev = a
    /\ \A b \in Live \ {HEAD} :
          LET a == container[b].prev
          IN a \in Live \ {TAIL} /\ container[a].next = b

\* The same as one statement about the whole list: the entries of a dictionary
\* c are the n addresses f[1] = HEAD, ..., f[n] = TAIL, each linked to the next.
IsChain(c, n, f) ==
    /\ n >= 2
    /\ f \in [1..n -> Addresses]
    /\ f[1] = HEAD /\ f[n] = TAIL
    /\ \A i, j \in 1..n : f[i] = f[j] => i = j
    /\ \A a \in Addresses : c[a] # NIL <=> \E i \in 1..n : f[i] = a
    /\ \A i \in 1..n-1 : c[f[i]].next = f[i+1] /\ c[f[i+1]].prev = f[i]

\* Every node belongs to exactly one key and holds a record: no node is left
\* in the list that a caller could not reach, and no two keys share one.
OneKeyPerNode ==
    /\ \A s \in Live \ {HEAD, TAIL} :
          /\ container[s].record # NIL
          /\ \E k \in Keys : keySignatureMap[k] = s
    /\ \A j, k \in Keys :
          Mapped(j) /\ keySignatureMap[j] = keySignatureMap[k] => j = k

\* The cache never holds more records than its size: the check for a full
\* cache counts dictionary entries, of which two are dummies.
Bounded == NumCacheRecords <= CacheSize

-----------------------------------------------------------------------------
(***************************************************************************)
(* The keys in the order in which enumerateAndReturnAllObjects meets their *)
(* nodes: the links lead from the head over these nodes to the tail.       *)
(***************************************************************************)
CachedKeys == {k \in Keys : Cached(k)}

NodeAt(o, i) ==
    IF i = 0 THEN HEAD
    ELSE IF i \in 1..NumCacheRecords THEN keySignatureMap[o[i]] ELSE TAIL

Order ==
    CHOOSE o \in [1..NumCacheRecords -> CachedKeys] :
        \A i \in 0..NumCacheRecords : container[NodeAt(o, i)].next = NodeAt(o, i + 1)

Value    == [k \in Keys |-> IF Cached(k) THEN container[keySignatureMap[k]].record ELSE NIL]
Dangling == {k \in Keys : Mapped(k) /\ ~ Cached(k)}

Ordered == INSTANCE LRUOrder WITH order <- Order, value <- Value, dangling <- Dangling

\* The linked list, the signatures and the eviction at the tail together
\* behave as an order of keys (setObject:, removeObjectForKey:, objectForKey:,
\* removeAllObjects: all rewrite two or three nodes per step).
ImplementsOrder == Ordered!Spec

-----------------------------------------------------------------------------
\* Said of setObject:forKey:error: by MSIDLRUCache.h: "if LRU cache is full, it
\* will invalidate least recently used entry, and then add this new input object
\* mapped by input key".  Whatever happened to the key before, it is cached then.
StoredIsCached ==
    [][\A k \in Keys, r \in Records :
         SetObject(k, r) /\ CanStore(k, r) => Cached(k)']_vars
=============================================================================
