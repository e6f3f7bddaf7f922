--------------------------- MODULE LRUCacheProofs ---------------------------
(***************************************************************************)
(* Proofs about LRUCache for every set of keys, records and signatures and *)
(* every cache size.  That the two directions of the list agree is not     *)
(* inductive by itself: evicting container[TAIL].prev must not unlink the  *)
(* head, which holds because the nodes form a single chain from HEAD to    *)
(* TAIL (IsChain).  The chain is the strengthening, and LinksAgree,        *)
(* OneKeyPerNode and Bounded follow from it.                               *)
(*                                                                         *)
(* The chain also is what makes the list an order of keys: LRUCache        *)
(* implements LRUOrder (IsAnOrder).  Each operation is shown to leave a    *)
(* chain over the keys that LRUOrder says (Linked), and a chain has one    *)
(* order only (LinksDetermine).                                            *)
(***************************************************************************)
EXTENDS LRUCache, FiniteSetTheorems, SequenceTheorems, WellFoundedInduction, TLAPS

Dictionaries == [Addresses -> Node \cup {NIL}]

LiveIn(c) == {a \in Addresses : c[a] # NIL}

\* f without its j-th element.
Drop(n, f, j) == [i \in 1..n-1 |-> IF i < j THEN f[i] ELSE f[i+1]]

\* f with s after the head.
Insert(n, f, s) == [i \in 1..n+1 |-> IF i = 1 THEN HEAD
                                     ELSE IF i = 2 THEN s ELSE f[i-1]]

\* Removing an inner node of a chain leaves the chain without it, and touches
\* no record (removeObjectForKeyImpl).
LEMMA UnlinkChain ==
    ASSUME NEW c \in Dictionaries, NEW n \in Nat, NEW f, IsChain(c, n, f),
           NEW j \in 2..n-1
    PROVE  /\ Unlink(c, f[j]) \in Dictionaries
           /\ IsChain(Unlink(c, f[j]), n - 1, Drop(n, f, j))
           /\ LiveIn(Unlink(c, f[j])) = LiveIn(c) \ {f[j]}
           /\ \A a \in LiveIn(c) \ {f[j]} :
                 Unlink(c, f[j])[a].record = c[a].record
<1> DEFINE d == Unlink(c, f[j])
           g == Drop(n, f, j)
<1>1. /\ j \in 1..n /\ j-1 \in 1..n /\ j+1 \in 1..n
      /\ j-1 \in 1..n-1 /\ j \in 1..n-1
  OBVIOUS
<1>2. /\ f[j] \in Addresses /\ f[j-1] \in Addresses /\ f[j+1] \in Addresses
      /\ f[j] # f[j-1] /\ f[j] # f[j+1] /\ f[j-1] # f[j+1]
      /\ c[f[j]].prev = f[j-1] /\ c[f[j]].next = f[j+1]
  <2>1. c[f[j-1]].next = f[(j-1)+1] /\ c[f[(j-1)+1]].prev = f[j-1]
    BY <1>1 DEF IsChain
  <2>2. (j-1)+1 = j
    OBVIOUS
  <2>3. c[f[j]].next = f[j+1] /\ c[f[j+1]].prev = f[j]
    BY <1>1 DEF IsChain
  <2> QED
    BY <1>1, <2>1, <2>2, <2>3 DEF IsChain
<1>3. \A i \in 1..n : c[f[i]] \in Node
  BY DEF IsChain, Dictionaries
<1>4. d = [a \in Addresses |->
            IF a = f[j] THEN NIL
            ELSE IF a = f[j+1] THEN [c[a] EXCEPT !.prev = f[j-1]]
            ELSE IF a = f[j-1] THEN [c[a] EXCEPT !.next = f[j+1]]
            ELSE c[a]]
  BY <1>2 DEF Unlink, Dictionaries
<1>5. d \in Dictionaries
  BY <1>1, <1>2, <1>3, <1>4 DEF Dictionaries, Node
<1>6. LiveIn(d) = LiveIn(c) \ {f[j]}
  BY <1>1, <1>2, <1>3, <1>4, LRUAssumption DEF LiveIn, Node
<1>7. \A a \in LiveIn(c) \ {f[j]} : d[a].record = c[a].record
  BY <1>1, <1>2, <1>3, <1>4 DEF LiveIn, Node
<1>8. IsChain(d, n - 1, g)
  <2>1. n - 1 >= 2 /\ g \in [1..n-1 -> Addresses]
    BY DEF IsChain, Drop
  <2>2. g[1] = HEAD /\ g[n-1] = TAIL
    BY DEF IsChain, Drop
  <2>3. \A h, i \in 1..n-1 : g[h] = g[i] => h = i
    BY DEF IsChain, Drop
  <2>4. \A a \in Addresses : d[a] # NIL <=> \E i \in 1..n-1 : g[i] = a
    <3> SUFFICES ASSUME NEW a \in Addresses
                 PROVE  d[a] # NIL <=> \E i \in 1..n-1 : g[i] = a
      OBVIOUS
    <3>1. ASSUME d[a] # NIL PROVE \E i \in 1..n-1 : g[i] = a
      <4>1. a # f[j] /\ c[a] # NIL
        BY <3>1, <1>6 DEF LiveIn
      <4>2. PICK i \in 1..n : f[i] = a
        BY <4>1 DEF IsChain
      <4>3. CASE i < j
        BY <4>2, <4>3 DEF Drop
      <4>4. CASE i > j
        <5>1. i - 1 \in 1..n-1 /\ ~(i-1 < j) /\ (i-1)+1 = i
          BY <4>4
        <5> QED
          BY <4>2, <5>1 DEF Drop
      <4> QED
        BY <4>1, <4>2, <4>3, <4>4
    <3>2. ASSUME NEW i \in 1..n-1, g[i] = a PROVE d[a] # NIL
      <4>1. PICK h \in 1..n : h # j /\ a = f[h]
        BY <3>2 DEF Drop
      <4>2. c[a] # NIL /\ a # f[j]
        BY <4>1, <1>1 DEF IsChain
      <4> QED
        BY <4>2, <1>6 DEF LiveIn
    <3> QED
      BY <3>1, <3>2
  <2>5. ASSUME NEW i \in 1..n-2
        PROVE  d[g[i]].next = g[i+1] /\ d[g[i+1]].prev = g[i]
    <3>1. CASE i + 1 < j
      <4>1. g[i] = f[i] /\ g[i+1] = f[i+1] /\ i \in 1..n-1 /\ i+1 \in 1..n
        BY <3>1 DEF Drop
      <4>2. /\ f[i] # f[j] /\ f[i] # f[j-1] /\ f[i+1] # f[j] /\ f[i+1] # f[j+1]
            /\ f[i] # f[j+1]
        BY <4>1, <1>1, <3>1 DEF IsChain
      <4>3. c[f[i]].next = f[i+1] /\ c[f[i+1]].prev = f[i]
        BY <4>1 DEF IsChain
      <4>4. c[f[i]] \in Node /\ c[f[i+1]] \in Node
        BY <1>3, <4>1
      <4>5. f[i] \in Addresses /\ f[i+1] \in Addresses
        BY <4>1 DEF IsChain
      <4> QED
        BY <4>1, <4>2, <4>3, <4>4, <4>5, <1>2, <1>4 DEF Node
    <3>2. CASE i + 1 = j
      <4>1. g[i] = f[j-1] /\ g[i+1] = f[j+1]
        BY <3>2 DEF Drop
      <4>2. c[f[j-1]] \in Node /\ c[f[j+1]] \in Node
        BY <1>3, <1>1
      <4> QED
        BY <4>1, <4>2, <1>2, <1>4 DEF Node
    <3>3. CASE i + 1 > j
      <4>1. /\ g[i] = f[i+1] /\ g[i+1] = f[i+2]
            /\ i+1 \in 1..n-1 /\ i+2 \in 1..n /\ i+1 \in 1..n /\ (i+1)+1 = i+2
        BY <3>3 DEF Drop
      <4>2. /\ f[i+1] # f[j] /\ f[i+1] # f[j-1] /\ f[i+2] # f[j]
            /\ f[i+2] # f[j+1] /\ f[i+2] # f[j-1]
        BY <4>1, <1>1, <3>3 DEF IsChain
      <4>3. c[f[i+1]].next = f[i+2] /\ c[f[i+2]].prev = f[i+1]
        BY <4>1 DEF IsChain
      <4>4. c[f[i+1]] \in Node /\ c[f[i+2]] \in Node
        BY <1>3, <4>1
      <4>5. f[i+1] \in Addresses /\ f[i+2] \in Addresses
        BY <4>1 DEF IsChain
      <4> QED
        BY <4>1, <4>2, <4>3, <4>4, <4>5, <1>2, <1>4 DEF Node
    <3> QED
      BY <3>1, <3>2, <3>3
  <2> QED
    BY <2>1, <2>2, <2>3, <2>4, <2>5 DEF IsChain
<1> QED
  BY <1>5, <1>6, <1>7, <1>8

\* Adding a fresh node after the head of a chain makes a chain one longer
\* (addToFrontImpl).
LEMMA PushChain ==
    ASSUME NEW c \in Dictionaries, NEW n \in Nat, NEW f, IsChain(c, n, f),
           NEW s \in Signatures, c[s] = NIL, NEW r \in Records \cup {NIL}
    PROVE  /\ PushFront(c, s, r) \in Dictionaries
           /\ IsChain(PushFront(c, s, r), n + 1, Insert(n, f, s))
           /\ LiveIn(PushFront(c, s, r)) = LiveIn(c) \cup {s}
           /\ PushFront(c, s, r)[s].record = r
           /\ \A a \in LiveIn(c) : PushFront(c, s, r)[a].record = c[a].record
<1> DEFINE d == PushFront(c, s, r)
           g == Insert(n, f, s)
<1>1. /\ 1 \in 1..n /\ 2 \in 1..n /\ 1 \in 1..n-1 /\ n \in 1..n
      /\ f[1] = HEAD /\ f[2] \in Addresses /\ f[2] # HEAD
      /\ c[HEAD].next = f[2] /\ c[f[2]].prev = HEAD
  <2>1. 1 \in 1..n /\ 2 \in 1..n /\ 1 \in 1..n-1 /\ n \in 1..n
    BY DEF IsChain
  <2>2. c[f[1]].next = f[1+1] /\ c[f[1+1]].prev = f[1]
    BY <2>1 DEF IsChain
  <2> QED
    BY <2>1, <2>2 DEF IsChain
<1>2. /\ s \in Addresses /\ s # HEAD /\ s # f[2] /\ HEAD \in Addresses
      /\ \A i \in 1..n : f[i] # s
  BY <1>1, LRUAssumption DEF IsChain, Addresses
<1>3. \A i \in 1..n : c[f[i]] \in Node
  BY DEF IsChain, Dictionaries
<1>4. d = [a \in Addresses |->
            IF a = HEAD THEN [c[HEAD] EXCEPT !.next = s]
            ELSE IF a = s THEN [prev |-> HEAD, next |-> f[2], record |-> r]
            ELSE IF a = f[2] THEN [c[a] EXCEPT !.prev = s]
            ELSE c[a]]
  BY <1>1, <1>2 DEF PushFront, Dictionaries
<1>5. c[HEAD] \in Node /\ c[f[2]] \in Node
  BY <1>1, <1>3
<1>6. [prev |-> HEAD, next |-> f[2], record |-> r] \in Node
  BY <1>1, <1>2 DEF Node
<1>7. d \in Dictionaries
  BY <1>2, <1>4, <1>5, <1>6 DEF Dictionaries, Node
<1>8. LiveIn(d) = LiveIn(c) \cup {s}
  BY <1>1, <1>2, <1>4, <1>5, <1>6, LRUAssumption DEF LiveIn, Node
<1>9. d[s].record = r
  BY <1>2, <1>4
<1>10. \A a \in LiveIn(c) : d[a].record = c[a].record
  BY <1>1, <1>2, <1>4, <1>5 DEF LiveIn, Node
<1>11. IsChain(d, n + 1, g)
  <2>1. n + 1 >= 2 /\ g \in [1..n+1 -> Addresses]
    BY <1>2 DEF IsChain, Insert
  <2>2. g[1] = HEAD /\ g[n+1] = TAIL
    BY DEF IsChain, Insert
  <2>3. ASSUME NEW h \in 1..n+1, NEW i \in 1..n+1, g[h] = g[i] PROVE h = i
    <3>1. \A x \in 3..n+1 : g[x] = f[x-1] /\ x-1 \in 1..n /\ x-1 # 1
      BY DEF Insert
    <3>2. g[1] = f[1] /\ g[2] = s /\ h \in {1, 2} \cup (3..n+1) /\ i \in {1, 2} \cup (3..n+1)
      BY <1>1 DEF Insert
    <3> QED
      BY <2>3, <3>1, <3>2, <1>1, <1>2 DEF IsChain
  <2>4. \A a \in Addresses : d[a] # NIL <=> \E i \in 1..n+1 : g[i] = a
    <3> SUFFICES ASSUME NEW a \in Addresses
                 PROVE  d[a] # NIL <=> \E i \in 1..n+1 : g[i] = a
      OBVIOUS
    <3>1. d[a] # NIL <=> a = s \/ \E i \in 1..n : f[i] = a
      BY <1>8, <1>2 DEF LiveIn, IsChain
    <3>2. g[2] = s /\ g[1] = f[1] /\ 2 \in 1..n+1 /\ 1 \in 1..n+1
      BY <1>1 DEF Insert
    <3>3. \A i \in 2..n : g[i+1] = f[i] /\ i+1 \in 1..n+1
      BY DEF Insert
    <3>4. \A i \in 3..n+1 : g[i] = f[i-1] /\ i-1 \in 1..n
      BY DEF Insert
    <3>5. (1..n+1) = {1, 2} \cup (3..n+1) /\ (1..n) = {1} \cup (2..n)
      BY <1>1
    <3> QED
      BY <1>1, <3>1, <3>2, <3>3, <3>4, <3>5
  <2>5. ASSUME NEW i \in 1..n
        PROVE  d[g[i]].next = g[i+1] /\ d[g[i+1]].prev = g[i]
    <3>1. CASE i = 1
      BY <3>1, <1>1, <1>2, <1>4, <1>5 DEF Insert, Node
    <3>2. CASE i = 2
      <4>1. g[2] = s /\ g[3] = f[2]
        BY <3>2, <1>1 DEF Insert
      <4> QED
        BY <3>2, <4>1, <1>1, <1>2, <1>4, <1>5 DEF Node
    <3>3. CASE i > 2
      <4>1. /\ g[i] = f[i-1] /\ g[i+1] = f[i] /\ i-1 \in 1..n-1 /\ i \in 1..n
            /\ (i-1)+1 = i /\ i-1 \in 1..n
        BY <3>3 DEF Insert
      <4>2. f[i-1] # HEAD /\ f[i] # HEAD /\ f[i] # f[2]
        BY <3>3, <4>1, <1>1 DEF IsChain
      <4>3. c[f[i-1]].next = f[(i-1)+1] /\ c[f[(i-1)+1]].prev = f[i-1]
        BY <4>1 DEF IsChain
      <4>4. c[f[i-1]] \in Node /\ c[f[i]] \in Node
        BY <4>1, <1>3
      <4>5. f[i-1] \in Addresses /\ f[i] \in Addresses /\ f[i-1] # s /\ f[i] # s
        BY <4>1, <1>2 DEF IsChain
      <4> QED
        BY <4>1, <4>2, <4>3, <4>4, <4>5, <1>2, <1>4 DEF Node
    <3> QED
      BY <3>1, <3>2, <3>3
  <2> QED
    BY <2>1, <2>2, <2>3, <2>4, <2>5 DEF IsChain
<1> QED
  BY <1>7, <1>8, <1>9, <1>10, <1>11

-----------------------------------------------------------------------------
Chained == \E n \in Nat : \E f : IsChain(container, n, f)

\* The inductive invariant.
IInv == TypeOK /\ Chained /\ OneKeyPerNode /\ Bounded

\* A chain gives agreement of the two directions.
LEMMA ChainLinks == TypeOK /\ Chained => LinksAgree
<1> SUFFICES ASSUME TypeOK, NEW n \in Nat, NEW f, IsChain(container, n, f)
             PROVE  LinksAgree
  BY DEF Chained
<1>1. /\ 1 \in 1..n /\ n \in 1..n /\ f[1] = HEAD /\ f[n] = TAIL
      /\ \A i \in 1..n : f[i] \in Live
      /\ \A a \in Live : \E i \in 1..n : f[i] = a
  BY DEF IsChain, Live
<1>2. ASSUME NEW a \in Live \ {TAIL}
      PROVE  container[a].next \in Live \ {HEAD}
             /\ container[container[a].next].prev = a
  <2>1. PICK i \in 1..n : f[i] = a
    BY <1>1
  <2>2. i \in 1..n-1 /\ i+1 \in 1..n /\ i+1 # 1
    BY <1>1, <2>1, <1>2
  <2>3. f[i+1] # HEAD
    BY <2>2, <1>1 DEF IsChain
  <2> QED
    BY <1>1, <2>1, <2>2, <2>3 DEF IsChain
<1>3. ASSUME NEW b \in Live \ {HEAD}
      PROVE  container[b].prev \in Live \ {TAIL}
             /\ container[container[b].prev].next = b
  <2>1. PICK i \in 1..n : f[i] = b
    BY <1>1
  <2>2. i-1 \in 1..n-1 /\ (i-1)+1 = i /\ i-1 \in 1..n /\ i-1 # n
    BY <1>1, <2>1, <1>3
  <2>3. f[i-1] # TAIL
    BY <2>2, <1>1 DEF IsChain
  <2>4. container[f[i-1]].next = f[(i-1)+1] /\ container[f[(i-1)+1]].prev = f[i-1]
    BY <2>2 DEF IsChain
  <2> QED
    BY <1>1, <2>1, <2>2, <2>3, <2>4
<1> QED
  BY <1>1, <1>2, <1>3 DEF LinksAgree

\* A node with a signature lies strictly between HEAD and TAIL.
LEMMA InnerNode ==
    ASSUME NEW c, NEW n \in Nat, NEW f, IsChain(c, n, f),
           NEW s \in Signatures, c[s] # NIL
    PROVE  \E j \in 2..n-1 : f[j] = s
<1>1. s \in Addresses /\ s # HEAD /\ s # TAIL
  BY LRUAssumption DEF Addresses
<1>2. PICK j \in 1..n : f[j] = s
  BY <1>1 DEF IsChain
<1>3. j # 1 /\ j # n
  BY <1>1, <1>2 DEF IsChain
<1> QED
  BY <1>2, <1>3

\* The number of nodes is a number, which the full check needs
\* (numCacheRecords counts the dictionary's keys).
LEMMA LiveFinite ==
    /\ IsFiniteSet(Live) /\ Cardinality(Live) \in Nat
    /\ \A a : Cardinality(Live \ {a}) \in Nat
<1>1. IsFiniteSet(Addresses)
  <2>1. IsFiniteSet(Signatures \cup {HEAD})
    BY LRUAssumption, FS_AddElement
  <2>2. IsFiniteSet((Signatures \cup {HEAD}) \cup {TAIL})
    BY <2>1, FS_AddElement
  <2>3. Addresses = (Signatures \cup {HEAD}) \cup {TAIL}
    BY DEF Addresses
  <2> QED
    BY <2>2, <2>3
<1>2. IsFiniteSet(Live)
  BY <1>1, FS_Subset DEF Live
<1> QED
  BY <1>2, FS_CardinalityType, FS_RemoveElement

\* What objectForKeyImpl does to the dictionary: a chain of the same nodes with
\* the same records.
LEMMA TouchChain ==
    ASSUME TypeOK, Chained, NEW k \in Keys, Cached(k)
    PROVE  LET d == Touch(keySignatureMap[k])
           IN /\ d \in Dictionaries
              /\ \E n \in Nat : \E f : IsChain(d, n, f)
              /\ LiveIn(d) = Live
              /\ \A a \in Live : d[a].record = container[a].record
<1> DEFINE s == keySignatureMap[k]
           c == Unlink(container, s)
           r == container[s].record
<1>1. PICK n \in Nat : \E f : IsChain(container, n, f)
  BY DEF Chained
<1>2. PICK f : IsChain(container, n, f)
  BY <1>1
<1>3. container \in Dictionaries /\ s \in Signatures /\ s \in Addresses /\ s \in Live
  BY DEF TypeOK, Dictionaries, Cached, Mapped, Addresses, Live
<1>4. PICK j \in 2..n-1 : f[j] = s
  BY <1>2, <1>3, InnerNode DEF Live
<1>5. /\ c \in Dictionaries /\ IsChain(c, n - 1, Drop(n, f, j))
      /\ LiveIn(c) = LiveIn(container) \ {s}
      /\ \A a \in LiveIn(container) \ {s} : c[a].record = container[a].record
  BY <1>2, <1>3, <1>4, UnlinkChain
<1>6. container[s] \in Node
  BY <1>3 DEF Dictionaries, Live
<1>7. c[s] = NIL /\ r \in Records \cup {NIL} /\ n - 1 \in Nat
  BY <1>3, <1>5, <1>6 DEF LiveIn, Node
<1>8. /\ PushFront(c, s, r) \in Dictionaries
      /\ IsChain(PushFront(c, s, r), (n-1) + 1, Insert(n - 1, Drop(n, f, j), s))
      /\ LiveIn(PushFront(c, s, r)) = LiveIn(c) \cup {s}
      /\ PushFront(c, s, r)[s].record = r
      /\ \A a \in LiveIn(c) : PushFront(c, s, r)[a].record = c[a].record
  BY <1>3, <1>5, <1>7, PushChain
<1>9. (n-1) + 1 \in Nat /\ LiveIn(container) = Live
  BY DEF LiveIn, Live
<1> QED
  BY <1>3, <1>5, <1>8, <1>9 DEF Touch

\* A step that moves one node to the front preserves the invariant.
LEMMA TouchInv ==
    ASSUME IInv, NEW k \in Keys, Cached(k),
           container' = Touch(keySignatureMap[k]), UNCHANGED keySignatureMap,
           count' = [count EXCEPT !.update = @ + 1],
           reply' \in [ok : BOOLEAN, object : Records \cup {NIL}]
    PROVE  IInv'
<1>1. /\ container' \in Dictionaries
      /\ \E n \in Nat : \E f : IsChain(container', n, f)
      /\ LiveIn(container') = Live
      /\ \A a \in Live : container'[a].record = container[a].record
  BY TouchChain DEF IInv
<1>2. Live' = Live
  BY <1>1 DEF LiveIn, Live
<1>3. TypeOK'
  BY <1>1 DEF IInv, TypeOK, Dictionaries
<1>4. OneKeyPerNode'
  BY <1>1, <1>2 DEF IInv, OneKeyPerNode, Mapped
<1> QED
  BY <1>1, <1>2, <1>3, <1>4 DEF IInv, Chained, Bounded, NumCacheRecords

\* A chain of two nodes is the empty cache, so a full cache evicts a record and
\* never a dummy.
LEMMA EvictsInner ==
    ASSUME TypeOK, CacheSize > 0, NumCacheRecords >= CacheSize,
           NEW n \in Nat, NEW f, IsChain(container, n, f)
    PROVE  n - 1 \in 2..n-1 /\ LeastRecent = f[n-1]
<1>1. CASE n = 2
  <2>1. Live = {HEAD, TAIL}
    <3>1. \A i \in 1..n : i = 1 \/ i = n
      BY <1>1
    <3> QED
      BY <1>1, <3>1, LRUAssumption DEF IsChain, Live, Addresses
  <2>2. Cardinality({HEAD}) = 1 /\ IsFiniteSet({HEAD})
    BY FS_Singleton
  <2>3. Cardinality({HEAD} \cup {TAIL}) = Cardinality({HEAD}) + 1
    <3>1. TAIL \notin {HEAD}
      BY LRUAssumption
    <3> QED
      BY <2>2, <3>1, FS_AddElement
  <2>4. {HEAD} \cup {TAIL} = {HEAD, TAIL}
    OBVIOUS
  <2> QED
    BY <2>1, <2>2, <2>3, <2>4, LRUAssumption DEF NumCacheRecords
<1>2. n - 1 \in 1..n-1 /\ (n-1)+1 = n
  BY DEF IsChain
<1>3. container[f[(n-1)+1]].prev = f[n-1] /\ f[n] = TAIL /\ n >= 2
  BY <1>2 DEF IsChain
<1> QED
  BY <1>1, <1>2, <1>3 DEF LeastRecent

\* Storing a new key, with or without an eviction.
LEMMA SetNewInv ==
    ASSUME IInv, NEW k \in Keys, NEW r \in Records, SetNew(k, r)
    PROVE  IInv'
<1> DEFINE full == NumCacheRecords >= CacheSize
           c == IF full THEN Unlink(container, LeastRecent) ELSE container
<1>1. PICK s \in Signatures :
        /\ ~ InUse(s)
        /\ container' = PushFront(c, s, r)
        /\ keySignatureMap' = [keySignatureMap EXCEPT ![k] = s]
  BY DEF SetNew
<1>2. /\ CacheSize > 0 /\ keySignatureMap[k] = NIL
      /\ container \in Dictionaries
      /\ s \in Addresses /\ s # HEAD /\ s # TAIL /\ s # NIL
      /\ container[s] = NIL /\ \A j \in Keys : keySignatureMap[j] # s
  BY <1>1, LRUAssumption
     DEF SetNew, CanStore, Mapped, InUse, IInv, TypeOK, Dictionaries, Addresses
<1>3. PICK n \in Nat : \E f : IsChain(container, n, f)
  BY DEF IInv, Chained
<1>4. PICK f : IsChain(container, n, f)
  BY <1>3
\* The dictionary after the eviction, if there is one.
<1>5. /\ c \in Dictionaries /\ \E m \in Nat : \E g : IsChain(c, m, g)
      /\ LiveIn(c) \subseteq Live
      /\ \A a \in LiveIn(c) : c[a].record = container[a].record
      /\ full => LiveIn(c) = Live \ {LeastRecent} /\ LeastRecent \in Live
      /\ ~ full => LiveIn(c) = Live
  <2>1. CASE full
    <3>1. n - 1 \in 2..n-1 /\ LeastRecent = f[n-1]
      BY <1>2, <1>4, <2>1, EvictsInner DEF IInv
    <3>2. /\ Unlink(container, f[n-1]) \in Dictionaries
          /\ IsChain(Unlink(container, f[n-1]), n - 1, Drop(n, f, n-1))
          /\ LiveIn(Unlink(container, f[n-1])) = LiveIn(container) \ {f[n-1]}
          /\ \A a \in LiveIn(container) \ {f[n-1]} :
                Unlink(container, f[n-1])[a].record = container[a].record
      BY <1>2, <1>4, <3>1, UnlinkChain
    <3>3. f[n-1] \in Live /\ n - 1 \in Nat /\ LiveIn(container) = Live
      BY <3>1, <1>4 DEF IsChain, Live, LiveIn
    <3> QED
      BY <2>1, <3>1, <3>2, <3>3
  <2>2. CASE ~ full
    BY <1>2, <1>4, <2>2 DEF LiveIn, Live
  <2> QED
    BY <2>1, <2>2
<1>6. PICK m \in Nat : \E g : IsChain(c, m, g)
  BY <1>5
<1>7. PICK g : IsChain(c, m, g)
  BY <1>6
<1>8. c[s] = NIL
  BY <1>2, <1>5 DEF LiveIn, Live
<1>9. /\ container' \in Dictionaries
      /\ IsChain(container', m + 1, Insert(m, g, s))
      /\ LiveIn(container') = LiveIn(c) \cup {s}
      /\ container'[s].record = r
      /\ \A a \in LiveIn(c) : container'[a].record = c[a].record
  BY <1>1, <1>5, <1>7, <1>8, PushChain
<1>10. Live' = LiveIn(c) \cup {s} /\ m + 1 \in Nat /\ s \notin LiveIn(c)
  BY <1>8, <1>9 DEF Live, LiveIn
<1>11. TypeOK'
  <2>1. keySignatureMap' \in [Keys -> Signatures \cup {NIL}]
    BY <1>1 DEF IInv, TypeOK
  <2>2. count' \in [update : Nat, eviction : Nat, add : Nat, remove : Nat]
    <3>1. count' = [count EXCEPT !.eviction = IF full THEN @ + 1 ELSE @,
                                 !.add = @ + 1]
      BY DEF SetNew
    <3>2. count \in [update : Nat, eviction : Nat, add : Nat, remove : Nat]
      BY DEF IInv, TypeOK
    <3> DEFINE e == IF full THEN count.eviction + 1 ELSE count.eviction
    <3>3. count' = [update |-> count.update, eviction |-> e,
                    add |-> count.add + 1, remove |-> count.remove]
      BY <3>1, <3>2
    <3>4. e \in Nat
      BY <3>2
    <3> HIDE DEF full, c, e
    <3> QED
      BY <3>2, <3>3, <3>4
  <2>3. reply' \in [ok : BOOLEAN, object : Records \cup {NIL}]
    BY DEF SetNew, Succeed
  <2> QED
    BY <1>9, <2>1, <2>2, <2>3 DEF TypeOK, Dictionaries
<1>12. Chained'
  BY <1>9, <1>10 DEF Chained
<1>13. OneKeyPerNode'
  <2>1. ASSUME NEW a \in Live' \ {HEAD, TAIL}
        PROVE  container'[a].record # NIL /\ \E j \in Keys : keySignatureMap'[j] = a
    <3>1. CASE a = s
      BY <3>1, <1>1, <1>9, LRUAssumption DEF IInv, TypeOK
    <3>2. CASE a # s
      <4>1. a \in LiveIn(c) /\ a \in Live \ {HEAD, TAIL}
        BY <2>1, <3>2, <1>5, <1>10
      <4>2. PICK j \in Keys : keySignatureMap[j] = a
        BY <4>1 DEF IInv, OneKeyPerNode
      <4>3. a # NIL
        BY <4>1, LRUAssumption DEF Live
      <4>4. j # k
        BY <4>2, <4>3, <1>2
      <4>5. container'[a].record = container[a].record
        BY <4>1, <1>5, <1>9
      <4> QED
        BY <4>1, <4>2, <4>4, <4>5, <1>1 DEF IInv, OneKeyPerNode, TypeOK
    <3> QED
      BY <3>1, <3>2
  <2>2. ASSUME NEW i \in Keys, NEW j \in Keys, i # NIL /\ keySignatureMap'[i] # NIL,
               keySignatureMap'[i] = keySignatureMap'[j]
        PROVE  i = j
    BY <2>2, <1>1, <1>2 DEF IInv, OneKeyPerNode, Mapped, TypeOK
  <2> QED
    BY <2>1, <2>2 DEF OneKeyPerNode, Mapped
<1>14. Bounded'
  <2>1. IsFiniteSet(Live) /\ Cardinality(Live) \in Nat
    BY LiveFinite
  <2>2. CASE full
    <3>0. LiveIn(c) = Live \ {LeastRecent} /\ LeastRecent \in Live
      BY <2>2, <1>5
    <3> HIDE DEF full, c
    <3>1. IsFiniteSet(LiveIn(c)) /\ Cardinality(LiveIn(c)) = Cardinality(Live) - 1
      BY <2>1, <3>0, FS_RemoveElement
    <3>2. Cardinality(LiveIn(c) \cup {s}) = Cardinality(LiveIn(c)) + 1
      BY <3>1, <1>10, FS_AddElement
    <3>3. Cardinality(Live') = Cardinality(Live)
      BY <2>1, <3>1, <3>2, <1>10
    <3> QED
      BY <3>3 DEF Bounded, NumCacheRecords, IInv
  <2>3. CASE ~ full
    <3>1. LiveIn(c) = Live
      BY <2>3, <1>5
    <3>2. Live' = Live \cup {s} /\ s \notin Live
      BY <3>1, <1>10
    <3>3. Cardinality(Live \cup {s}) = Cardinality(Live) + 1
      BY <2>1, <3>2, FS_AddElement
    <3>4. Cardinality(Live') = Cardinality(Live) + 1
      BY <3>2, <3>3
    <3> QED
      BY <2>1, <2>3, <3>4, LRUAssumption DEF Bounded, NumCacheRecords
  <2> QED
    BY <2>2, <2>3
<1> QED
  BY <1>11, <1>12, <1>13, <1>14 DEF IInv

\* Removing a key: its node if it has one, and its entry in keySignatureMap.
LEMMA RemoveInv ==
    ASSUME IInv, NEW k \in Keys, RemoveMapped(k)
    PROVE  IInv'
<1> DEFINE s == keySignatureMap[k]
<1>1. /\ keySignatureMap' = [keySignatureMap EXCEPT ![k] = NIL]
      /\ count' = [count EXCEPT !.remove = @ + 1]
      /\ s \in Signatures /\ k # NIL
  BY DEF RemoveMapped, Mapped, IInv, TypeOK
<1>2. container \in Dictionaries
  BY DEF IInv, TypeOK, Dictionaries
\* No node of a removed key is left, the other nodes are as they were.
<1>3. /\ container' \in Dictionaries /\ Chained'
      /\ Live' = Live \ {s}
      /\ \A a \in Live' : container'[a].record = container[a].record
      /\ reply' \in [ok : BOOLEAN, object : Records \cup {NIL}]
  <2>1. CASE Cached(k)
    <3>1. PICK n \in Nat : \E f : IsChain(container, n, f)
      BY DEF IInv, Chained
    <3>2. PICK f : IsChain(container, n, f)
      BY <3>1
    <3>3. PICK j \in 2..n-1 : f[j] = s
      BY <1>1, <2>1, <3>2, InnerNode DEF Cached
    <3>4. /\ Unlink(container, f[j]) \in Dictionaries
          /\ IsChain(Unlink(container, f[j]), n - 1, Drop(n, f, j))
          /\ LiveIn(Unlink(container, f[j])) = LiveIn(container) \ {f[j]}
          /\ \A a \in LiveIn(container) \ {f[j]} :
                Unlink(container, f[j])[a].record = container[a].record
      BY <1>2, <3>2, UnlinkChain
    <3>5. container' = Unlink(container, f[j])
      BY <2>1, <3>3 DEF RemoveMapped
    <3>6. n - 1 \in Nat
      BY <3>2 DEF IsChain
    <3>7. reply' = [ok |-> TRUE, object |-> NIL]
      BY <2>1 DEF RemoveMapped, Succeed
    <3> QED
      BY <3>3, <3>4, <3>5, <3>6, <3>7 DEF Chained, LiveIn, Live
  <2>2. CASE ~ Cached(k)
    <3>1. container' = container /\ reply' = [ok |-> FALSE, object |-> NIL]
      BY <2>2 DEF RemoveMapped, Fail
    <3>2. s \notin Live
      BY <2>2 DEF RemoveMapped, Cached, Live
    <3> QED
      BY <1>2, <3>1, <3>2 DEF IInv, Chained, Live
  <2> QED
    BY <2>1, <2>2
<1>4. TypeOK'
  BY <1>1, <1>3 DEF IInv, TypeOK, Dictionaries
<1>5. OneKeyPerNode'
  <2>1. ASSUME NEW a \in Live' \ {HEAD, TAIL}
        PROVE  container'[a].record # NIL /\ \E j \in Keys : keySignatureMap'[j] = a
    <3>1. a \in Live \ {HEAD, TAIL} /\ a # s
      BY <1>3
    <3>2. PICK j \in Keys : keySignatureMap[j] = a
      BY <3>1 DEF IInv, OneKeyPerNode
    <3> QED
      BY <1>1, <1>3, <3>1, <3>2 DEF IInv, OneKeyPerNode, TypeOK
  <2>2. ASSUME NEW i \in Keys, NEW j \in Keys, i # NIL /\ keySignatureMap'[i] # NIL,
               keySignatureMap'[i] = keySignatureMap'[j]
        PROVE  i = j
    BY <2>2, <1>1 DEF IInv, OneKeyPerNode, Mapped, TypeOK
  <2> QED
    BY <2>1, <2>2 DEF OneKeyPerNode, Mapped
<1>6. Bounded'
  <2>1. Cardinality(Live') \in Nat /\ Cardinality(Live') <= Cardinality(Live)
    BY <1>3, LiveFinite, FS_Subset
  <2> QED
    BY <2>1, LiveFinite, LRUAssumption DEF IInv, Bounded, NumCacheRecords
<1> QED
  BY <1>3, <1>4, <1>5, <1>6 DEF IInv

\* The cache is empty when it is created and after removeAllObjects.
LEMMA EmptyInv ==
    ASSUME NEW c \in Dictionaries, NEW m,
           \A a \in Addresses : c[a] # NIL <=> a \in {HEAD, TAIL},
           c[HEAD].next = TAIL, c[TAIL].prev = HEAD,
           m = [k \in Keys |-> NIL]
    PROVE  /\ \E n \in Nat : \E f : IsChain(c, n, f)
           /\ Cardinality(LiveIn(c)) = 2
<1> DEFINE f == [i \in 1..2 |-> IF i = 1 THEN HEAD ELSE TAIL]
<1>1. HEAD \in Addresses /\ TAIL \in Addresses /\ HEAD # TAIL
  BY LRUAssumption DEF Addresses
<1>2. f \in [1..2 -> Addresses] /\ f[1] = HEAD /\ f[2] = TAIL
  BY <1>1
<1>3. 1..2 = {1, 2} /\ 1..2-1 = {1} /\ 2 \in Nat /\ 2 >= 2 /\ 1 + 1 = 2
  OBVIOUS
<1> HIDE DEF f
<1>4. IsChain(c, 2, f)
  BY <1>1, <1>2, <1>3 DEF IsChain
<1>5. LiveIn(c) = {HEAD} \cup {TAIL}
  BY <1>1 DEF LiveIn
<1>6. Cardinality({HEAD}) = 1 /\ IsFiniteSet({HEAD})
  BY FS_Singleton
<1>7. Cardinality({HEAD} \cup {TAIL}) = Cardinality({HEAD}) + 1
  <2>1. TAIL \notin {HEAD}
    BY <1>1
  <2> QED
    BY <1>6, <2>1, FS_AddElement
<1> QED
  BY <1>3, <1>4, <1>5, <1>6, <1>7

\* The cache initWithCacheSize: builds, two dummies linked to each other, satisfies
\* the invariant.
LEMMA InitInv == Init => IInv
<1> SUFFICES ASSUME Init PROVE IInv
  OBVIOUS
<1>1. HEAD \in Addresses /\ TAIL \in Addresses /\ HEAD # TAIL
  BY LRUAssumption DEF Addresses
<1>2. /\ [prev |-> NIL, next |-> TAIL, record |-> NIL] \in Node
      /\ [prev |-> HEAD, next |-> NIL, record |-> NIL] \in Node
  BY <1>1 DEF Node
<1>3. container \in Dictionaries
  BY <1>2 DEF Init, Dictionaries
<1>4. TypeOK
  BY <1>3 DEF Init, TypeOK, Dictionaries
<1>5. /\ \A a \in Addresses : container[a] # NIL <=> a \in {HEAD, TAIL}
      /\ container[HEAD].next = TAIL /\ container[TAIL].prev = HEAD
  BY <1>1, <1>2, LRUAssumption DEF Init
<1>6. Chained /\ Cardinality(Live) = 2
  BY <1>3, <1>5, EmptyInv DEF Chained, LiveIn, Live
<1>7. OneKeyPerNode
  BY <1>5 DEF Init, OneKeyPerNode, Mapped, Live
<1> QED
  BY <1>4, <1>6, <1>7, LRUAssumption DEF IInv, Bounded, NumCacheRecords

\* removeAllObjects leaves the cache as it was created.
LEMMA RemoveAllInv == IInv /\ RemoveAll => IInv'
<1> SUFFICES ASSUME IInv, RemoveAll PROVE IInv'
  OBVIOUS
<1>1. HEAD \in Addresses /\ TAIL \in Addresses /\ HEAD # TAIL
  BY LRUAssumption DEF Addresses
<1>2. container[HEAD] \in Node /\ container[TAIL] \in Node
  BY <1>1, ChainLinks DEF IInv, LinksAgree, TypeOK, Live
<1>3. /\ [container[HEAD] EXCEPT !.next = TAIL] \in Node
      /\ [container[TAIL] EXCEPT !.prev = HEAD] \in Node
  BY <1>1, <1>2 DEF Node
<1>4. container' \in Dictionaries
  BY <1>3 DEF RemoveAll, Dictionaries
<1>5. /\ \A a \in Addresses : container'[a] # NIL <=> a \in {HEAD, TAIL}
      /\ container'[HEAD].next = TAIL /\ container'[TAIL].prev = HEAD
  BY <1>1, <1>2, <1>3, LRUAssumption DEF RemoveAll, Node
<1>6. keySignatureMap' = [k \in Keys |-> NIL]
  BY DEF RemoveAll
<1>7. TypeOK'
  <2>1. count' \in [update : Nat, eviction : Nat, add : Nat, remove : Nat]
    BY DEF RemoveAll
  <2>2. reply' \in [ok : BOOLEAN, object : Records \cup {NIL}]
    <3>1. \/ reply' = [ok |-> TRUE, object |-> NIL]
          \/ reply' = [ok |-> FALSE, object |-> NIL]
      BY Zenon DEF RemoveAll, Succeed, Fail
    <3>2. CASE reply' = [ok |-> TRUE, object |-> NIL]
      BY <3>2
    <3>3. CASE reply' = [ok |-> FALSE, object |-> NIL]
      BY <3>3
    <3> QED
      BY <3>1, <3>2, <3>3
  <2> QED
    BY <1>4, <1>6, <2>1, <2>2 DEF TypeOK, Dictionaries
<1>8. Chained' /\ Cardinality(Live') = 2
  BY <1>4, <1>5, <1>6, EmptyInv DEF Chained, LiveIn, Live
<1>9. OneKeyPerNode'
  BY <1>5, <1>6 DEF OneKeyPerNode, Mapped, Live
<1> QED
  BY <1>7, <1>8, <1>9, LRUAssumption DEF IInv, Bounded, NumCacheRecords

-----------------------------------------------------------------------------
\* Every operation of the cache preserves the invariant: one step per operation.
LEMMA StepInv == IInv /\ [Next]_vars => IInv'
<1> SUFFICES ASSUME IInv, [Next]_vars PROVE IInv'
  OBVIOUS
\* Steps that change at most the reply.
<1>1. ASSUME UNCHANGED <<container, keySignatureMap, count>>,
             reply' \in [ok : BOOLEAN, object : Records \cup {NIL}]
      PROVE  IInv'
  BY <1>1 DEF IInv, TypeOK, Chained, OneKeyPerNode, Bounded, NumCacheRecords,
              Live, Mapped
<1>2. ASSUME NEW k \in Keys \cup {NIL}, NEW r \in Records \cup {NIL}, SetObject(k, r)
      PROVE  IInv'
  <2>1. CASE SetRejected(k, r)
    BY <1>1, <2>1 DEF SetRejected, Fail
  <2>2. CASE SetMapped(k, r)
    BY <2>2, TouchInv DEF SetMapped, CanStore, Succeed
  <2>3. CASE SetDangling(k, r)
    BY <1>1, <2>3 DEF SetDangling, Fail
  <2>4. CASE SetNew(k, r)
    BY <2>4, SetNewInv DEF SetNew, CanStore
  <2> QED
    BY <1>2, <2>1, <2>2, <2>3, <2>4 DEF SetObject
<1>3. ASSUME NEW k \in Keys \cup {NIL}, RemoveObject(k) PROVE IInv'
  <2>1. CASE RemoveMissing(k)
    BY <1>1, <2>1 DEF RemoveMissing, Fail
  <2>2. CASE RemoveMapped(k)
    BY <2>2, RemoveInv DEF RemoveMapped, Mapped
  <2> QED
    BY <1>3, <2>1, <2>2 DEF RemoveObject
<1>4. ASSUME NEW k \in Keys \cup {NIL}, GetObject(k) PROVE IInv'
  <2>1. CASE GetMiss(k)
    BY <1>1, <2>1 DEF GetMiss, Fail
  <2>2. CASE GetHit(k)
    <3>1. k \in Keys
      BY <2>2 DEF GetHit, Cached, Mapped
    <3>2. container[keySignatureMap[k]] \in Node
      BY <2>2, <3>1 DEF GetHit, Cached, Mapped, IInv, TypeOK, Addresses
    <3>3. reply' \in [ok : BOOLEAN, object : Records \cup {NIL}]
      BY <2>2, <3>2 DEF GetHit, Succeed, Node
    <3> QED
      BY <2>2, <3>1, <3>3, TouchInv DEF GetHit
  <2> QED
    BY <1>4, <2>1, <2>2 DEF GetObject
<1>5. CASE RemoveAll
  BY <1>5, RemoveAllInv
<1>6. CASE UNCHANGED vars
  BY <1>1, <1>6 DEF vars, IInv, TypeOK
<1> QED
  BY <1>2, <1>3, <1>4, <1>5, <1>6 DEF Next

\* The inductive invariant holds in every reachable state of the cache: whatever
\* the order of setObject:, removeObjectForKey:, objectForKey: and
\* removeAllObjects, the nodes are one chain, with one key to each.
THEOREM Invariance == Spec => []IInv
  BY InitInv, StepInv, PTL DEF Spec

\* Every field of the cache stays in its type whatever is stored, read and
\* removed (initWithCacheSize: and the four operations).
THEOREM TypeCorrect == Spec => []TypeOK
<1>1. IInv => TypeOK
  BY DEF IInv
<1> QED
  BY <1>1, Invariance, PTL

\* The links of the list agree in both directions and close on the dummies,
\* for any number of keys and any cache size (addToFrontImpl,
\* removeObjectForKeyImpl).
THEOREM LinksAlwaysAgree == Spec => []LinksAgree
<1>1. IInv => LinksAgree
  BY ChainLinks DEF IInv
<1> QED
  BY <1>1, Invariance, PTL

\* No node is lost in the list and no two keys share one (keySignatureMap and
\* container stay consistent).
THEOREM NodesHaveOneKey == Spec => []OneKeyPerNode
<1>1. IInv => OneKeyPerNode
  BY DEF IInv
<1> QED
  BY <1>1, Invariance, PTL

\* The cache never exceeds its size, including a size of zero
\* (setObject:forKey:error:).
THEOREM NeverOverfull == Spec => []Bounded
<1>1. IInv => Bounded
  BY DEF IInv
<1> QED
  BY <1>1, Invariance, PTL

-----------------------------------------------------------------------------
(***************************************************************************)
(* The refinement: the chain of nodes and the map of signatures together   *)
(* are an order o of N keys.  The chain determines the order, so whatever  *)
(* order a step can be shown to leave is the Order of the next state.      *)
(***************************************************************************)
Maps == [Keys -> Signatures \cup {NIL}]

\* No two keys share a signature.
Injective(m) == \A j, k \in Keys : m[j] = m[k] /\ m[j] # NIL => j = k

Nodes(N, m, o) ==
    [i \in 1..N+2 |-> IF i = 1 THEN HEAD ELSE IF i = N + 2 THEN TAIL ELSE m[o[i-1]]]

Linked(c, m, N, o) ==
    /\ N \in Nat /\ o \in [1..N -> Keys]
    /\ \A i \in 1..N : m[o[i]] \in Signatures
    /\ \A i, j \in 1..N : o[i] = o[j] => i = j
    /\ IsChain(c, N + 2, Nodes(N, m, o))

\* o without its j-th key, and with k before the first.
Cut(N, o, j)   == [i \in 1..N-1 |-> o[IF i < j THEN i ELSE i + 1]]
Front(N, o, k) == [i \in 1..N+1 |-> IF i = 1 THEN k ELSE o[i-1]]

LEMMA LinkedUnlink ==
    ASSUME NEW c \in Dictionaries, NEW m \in Maps, NEW N, NEW o, Linked(c, m, N, o),
           NEW j \in 1..N
    PROVE  /\ Unlink(c, m[o[j]]) \in Dictionaries
           /\ Linked(Unlink(c, m[o[j]]), m, N - 1, Cut(N, o, j))
           /\ LiveIn(Unlink(c, m[o[j]])) = LiveIn(c) \ {m[o[j]]}
           /\ \A a \in LiveIn(c) \ {m[o[j]]} : Unlink(c, m[o[j]])[a].record = c[a].record
<1> DEFINE f == Nodes(N, m, o)
           g == Cut(N, o, j)
<1>1. N \in Nat /\ N + 2 \in Nat /\ IsChain(c, N + 2, f) /\ j + 1 \in 2..(N+2)-1
  BY DEF Linked
<1>2. f[j+1] = m[o[j]]
  BY <1>1 DEF Nodes
<1>3. /\ Unlink(c, m[o[j]]) \in Dictionaries
      /\ IsChain(Unlink(c, m[o[j]]), (N + 2) - 1, Drop(N + 2, f, j + 1))
      /\ LiveIn(Unlink(c, m[o[j]])) = LiveIn(c) \ {m[o[j]]}
      /\ \A a \in LiveIn(c) \ {m[o[j]]} : Unlink(c, m[o[j]])[a].record = c[a].record
  <2> HIDE DEF f
  <2>. QED  BY <1>1, <1>2, UnlinkChain
<1>4. /\ N - 1 \in Nat /\ g \in [1..N-1 -> Keys]
      /\ \A i \in 1..N-1 : m[g[i]] \in Signatures
      /\ \A h, i \in 1..N-1 : g[h] = g[i] => h = i
  BY DEF Linked, Cut
<1>5. Drop(N + 2, f, j + 1) = Nodes(N - 1, m, g)
  <2>1. (N - 1) + 2 = (N + 2) - 1
    BY <1>1
  <2>2. ASSUME NEW i \in 1..(N+2)-1
        PROVE  (IF i < j + 1 THEN f[i] ELSE f[i+1])
               = IF i = 1 THEN HEAD ELSE IF i = (N - 1) + 2 THEN TAIL ELSE m[g[i-1]]
    <3>1. CASE i = 1
      BY <1>1, <3>1 DEF Nodes
    <3>2. CASE i = (N - 1) + 2
      BY <1>1, <3>2 DEF Nodes
    <3>3. CASE i # 1 /\ i # (N - 1) + 2
      <4>1. i - 1 \in 1..N-1 /\ i \in 1..N+2 /\ i + 1 \in 1..N+2 /\ i # N + 2 /\ i + 1 # N + 2
        BY <1>1, <3>3
      <4>2. g[i-1] = o[IF i - 1 < j THEN i - 1 ELSE (i - 1) + 1]
        BY <4>1 DEF Cut
      <4>3. f[i] = m[o[i-1]] /\ f[i+1] = m[o[(i+1)-1]]
        BY <1>1, <3>3, <4>1 DEF Nodes
      <4>. QED  BY <1>1, <3>3, <4>2, <4>3
    <3>. QED  BY <3>1, <3>2, <3>3
  <2>3. Drop(N + 2, f, j + 1) = [i \in 1..(N+2)-1 |-> IF i < j + 1 THEN f[i] ELSE f[i+1]]
    BY DEF Drop
  <2>4. Nodes(N - 1, m, g)
        = [i \in 1..(N+2)-1 |-> IF i = 1 THEN HEAD ELSE IF i = (N - 1) + 2 THEN TAIL ELSE m[g[i-1]]]
    BY <2>1 DEF Nodes
  <2> HIDE DEF f, g
  <2>. QED  BY <2>2, <2>3, <2>4
<1>6. (N + 2) - 1 = (N - 1) + 2
  BY <1>1
<1>. QED  BY <1>3, <1>4, <1>5, <1>6 DEF Linked

LEMMA LinkedPush ==
    ASSUME NEW c \in Dictionaries, NEW m \in Maps, NEW N, NEW o, Linked(c, m, N, o),
           NEW k \in Keys, m[k] \in Signatures, c[m[k]] = NIL, NEW r \in Records \cup {NIL}
    PROVE  /\ PushFront(c, m[k], r) \in Dictionaries
           /\ Linked(PushFront(c, m[k], r), m, N + 1, Front(N, o, k))
           /\ LiveIn(PushFront(c, m[k], r)) = LiveIn(c) \cup {m[k]}
           /\ PushFront(c, m[k], r)[m[k]].record = r
           /\ \A a \in LiveIn(c) : PushFront(c, m[k], r)[a].record = c[a].record
<1> DEFINE f == Nodes(N, m, o)
           g == Front(N, o, k)
<1>1. N \in Nat /\ N + 2 \in Nat /\ IsChain(c, N + 2, f)
  BY DEF Linked
<1>2. /\ PushFront(c, m[k], r) \in Dictionaries
      /\ IsChain(PushFront(c, m[k], r), (N + 2) + 1, Insert(N + 2, f, m[k]))
      /\ LiveIn(PushFront(c, m[k], r)) = LiveIn(c) \cup {m[k]}
      /\ PushFront(c, m[k], r)[m[k]].record = r
      /\ \A a \in LiveIn(c) : PushFront(c, m[k], r)[a].record = c[a].record
  <2> HIDE DEF f
  <2>. QED  BY <1>1, PushChain
<1>3. \A i \in 1..N : o[i] # k
  <2>1. SUFFICES ASSUME NEW i \in 1..N, o[i] = k PROVE FALSE
    OBVIOUS
  <2>2. f[i+1] = m[k] /\ i + 1 \in 1..N+2
    BY <1>1, <2>1 DEF Nodes
  <2>. QED  BY <1>1, <2>2, LRUAssumption DEF IsChain, Addresses
<1>4. /\ N + 1 \in Nat /\ g \in [1..N+1 -> Keys]
      /\ \A i \in 1..N+1 : m[g[i]] \in Signatures
  BY DEF Linked, Front
<1>5. ASSUME NEW h \in 1..N+1, NEW i \in 1..N+1, g[h] = g[i] PROVE h = i
  <2>1. g[1] = k /\ \A x \in 2..N+1 : g[x] = o[x-1] /\ x-1 \in 1..N
    BY <1>1 DEF Front
  <2>. QED  BY <1>1, <1>3, <1>5, <2>1 DEF Linked
<1>6. Insert(N + 2, f, m[k]) = Nodes(N + 1, m, g)
  <2>1. (N + 1) + 2 = (N + 2) + 1
    BY <1>1
  <2>2. ASSUME NEW i \in 1..(N+2)+1
        PROVE  (IF i = 1 THEN HEAD ELSE IF i = 2 THEN m[k] ELSE f[i-1])
               = IF i = 1 THEN HEAD ELSE IF i = (N + 1) + 2 THEN TAIL ELSE m[g[i-1]]
    <3>1. CASE i = 1
      BY <3>1
    <3>2. CASE i = (N + 1) + 2
      BY <1>1, <3>2 DEF Nodes
    <3>3. CASE i = 2
      BY <1>1, <3>3 DEF Front
    <3>4. CASE i # 1 /\ i # 2 /\ i # (N + 1) + 2
      <4>1. i - 1 \in 2..N+1 /\ i - 1 \in 1..N+2 /\ i - 1 # N + 2 /\ i - 1 # 1
        BY <1>1, <3>4
      <4>2. g[i-1] = o[(i-1)-1] /\ f[i-1] = m[o[(i-1)-1]]
        BY <1>1, <4>1 DEF Front, Nodes
      <4>. QED  BY <3>4, <4>2
    <3>. QED  BY <3>1, <3>2, <3>3, <3>4
  <2>. QED  BY <2>1, <2>2 DEF Insert, Nodes
<1>7. (N + 2) + 1 = (N + 1) + 2
  BY <1>1
<1>. QED  BY <1>2, <1>4, <1>5, <1>6, <1>7 DEF Linked

\* Only the signatures of the keys in the order matter.
LEMMA LinkedMap ==
    ASSUME NEW c, NEW m, NEW p, NEW N, NEW o, Linked(c, m, N, o),
           \A i \in 1..N : p[o[i]] = m[o[i]]
    PROVE  Linked(c, p, N, o)
<1>1. \A i \in 2..N+1 : i - 1 \in 1..N
  BY DEF Linked
<1>2. Nodes(N, p, o) = Nodes(N, m, o)
  <2>1. ASSUME NEW i \in 1..N+2, i # 1, i # N + 2 PROVE p[o[i-1]] = m[o[i-1]]
    BY <2>1 DEF Linked
  <2>. QED  BY <2>1 DEF Nodes
<1>. QED  BY <1>2 DEF Linked

\* The keys in the order are the cached ones.
LEMMA LinkedKeys ==
    ASSUME NEW c, NEW m \in Maps, Injective(m), NEW N, NEW o, Linked(c, m, N, o), NEW k \in Keys
    PROVE  m[k] # NIL /\ c[m[k]] # NIL <=> \E i \in 1..N : o[i] = k
<1> DEFINE f == Nodes(N, m, o)
<1>1. N \in Nat /\ IsChain(c, N + 2, f)
  BY DEF Linked
<1>2. ASSUME m[k] # NIL, c[m[k]] # NIL PROVE \E i \in 1..N : o[i] = k
  <2>1. m[k] \in Signatures
    BY <1>2 DEF Maps
  <2>2. PICK j \in 2..(N+2)-1 : f[j] = m[k]
    <3> HIDE DEF f
    <3>. QED  BY <1>1, <1>2, <2>1, InnerNode
  <2>3. j - 1 \in 1..N /\ m[o[j-1]] = m[k]
    BY <1>1, <2>2 DEF Nodes
  <2>. QED  BY <1>2, <2>3 DEF Injective, Linked
<1>3. ASSUME NEW i \in 1..N, o[i] = k PROVE m[k] # NIL /\ c[m[k]] # NIL
  <2>1. m[k] \in Signatures /\ f[i+1] = m[k] /\ i + 1 \in 1..N+2
    BY <1>1, <1>3 DEF Nodes, Linked
  <2>. QED  BY <1>1, <2>1, LRUAssumption DEF IsChain, Addresses
<1>. QED  BY <1>2, <1>3

LEMMA LinkedCount ==
    ASSUME NEW c \in Dictionaries, NEW m, NEW N, NEW o, Linked(c, m, N, o)
    PROVE  Cardinality(LiveIn(c)) - 2 = N
<1> DEFINE f == Nodes(N, m, o)
           n == N + 2
<1>1. N \in Nat /\ n \in Nat /\ IsChain(c, n, f)
  BY DEF Linked
<1>2. ExistsBijection(1..n, LiveIn(c))
  <2> HIDE DEF f, n
  <2>1. f \in [1..n -> LiveIn(c)]
    BY <1>1 DEF IsChain, LiveIn
  <2>2. \A a, b \in 1..n : f[a] = f[b] => a = b
    BY <1>1 DEF IsChain
  <2>3. \A a \in LiveIn(c) : \E i \in 1..n : f[i] = a
    BY <1>1 DEF IsChain, LiveIn
  <2>4. f \in Injection(1..n, LiveIn(c))
    BY <2>1, <2>2 DEF Injection, IsInjective
  <2>5. f \in Surjection(1..n, LiveIn(c))
    BY <2>1, <2>3 DEF Surjection
  <2>. QED  BY <2>4, <2>5 DEF Bijection, ExistsBijection
<1>3. Cardinality(LiveIn(c)) = n
  <2> HIDE DEF n
  <2>. QED  BY <1>1, <1>2, FS_CountingElements
<1>. QED  BY <1>1, <1>3

\* The place in the chain of N inner nodes, as NodeAt has it.
Place(N, m, o, i) ==
    IF i = 0 THEN HEAD ELSE IF i \in 1..N THEN m[o[i]] ELSE TAIL

Leads(c, m, N, o) ==
    \A i \in 0..N : c[Place(N, m, o, i)].next = Place(N, m, o, i + 1)

OrderIn(c, m) ==
    CHOOSE o \in [1..Cardinality(LiveIn(c)) - 2 -> {k \in Keys : m[k] # NIL /\ c[m[k]] # NIL}] :
        Leads(c, m, Cardinality(LiveIn(c)) - 2, o)

LEMMA LinkedLeads ==
    ASSUME NEW c, NEW m, NEW N, NEW o, Linked(c, m, N, o)
    PROVE  Leads(c, m, N, o)
<1> DEFINE f == Nodes(N, m, o)
<1>1. N \in Nat /\ IsChain(c, N + 2, f)
  BY DEF Linked
<1>2. \A i \in 0..N+1 : Place(N, m, o, i) = f[i+1]
  BY <1>1 DEF Place, Nodes
<1>3. ASSUME NEW i \in 0..N PROVE c[f[i+1]].next = f[(i+1)+1]
  <2>1. i + 1 \in 1..(N+2)-1
    BY <1>1
  <2> HIDE DEF f
  <2>. QED  BY <1>1, <2>1 DEF IsChain
<1>4. \A i \in 0..N : i \in 0..N+1 /\ i + 1 \in 0..N+1
  BY <1>1
<1> HIDE DEF f
<1>. QED  BY <1>2, <1>3, <1>4 DEF Leads

\* A set of numbers has a least one.
LEMMA Least ==
    ASSUME NEW S \in SUBSET Nat, S # {}
    PROVE  \E m \in S : \A n \in S : m <= n
<1> DEFINE R == {p \in Nat \X Nat : p[1] < p[2]}
<1>1. IsWellFoundedOn(R, Nat)
  <2>1. OpToRel(<, Nat) = R
    BY DEF OpToRel
  <2>. QED  BY <2>1, NatLessThanWellFounded
<1>2. \E x \in S : \A y \in S : ~ (<<y, x>> \in R)
  <2> HIDE DEF R
  <2>. QED  BY <1>1, WFMin
<1>3. PICK x \in S : \A y \in S : ~ (<<y, x>> \in R)
  BY <1>2
<1>4. ASSUME NEW y \in S PROVE x <= y
  <2>1. ~ (<<y, x>> \in R) /\ x \in Nat /\ y \in Nat
    BY <1>3
  <2>2. ~ (y < x)
    BY <2>1
  <2>. QED  BY <2>1, <2>2
<1>. QED  BY <1>4

\* The links determine the order: two orders that follow them agree at every place, or there
\* would be a first one where they differ.
LEMMA LinksDetermine ==
    ASSUME NEW c, NEW m, Injective(m), NEW N \in Nat, NEW o \in [1..N -> Keys],
           NEW p \in [1..N -> Keys], Leads(c, m, N, o), Leads(c, m, N, p),
           \A i \in 1..N : m[o[i]] # NIL
    PROVE  o = p
<1> DEFINE S == {i \in 0..N : Place(N, m, o, i) # Place(N, m, p, i)}
<1>1. S = {}
  <2>1. SUFFICES ASSUME S # {} PROVE FALSE
    OBVIOUS
  <2>2. S \in SUBSET Nat
    OBVIOUS
  <2>3. PICK i \in S : \A j \in S : i <= j
    <3> HIDE DEF S
    <3>. QED  BY <2>1, <2>2, Least
  <2>4. i # 0
    BY DEF Place
  <2>5. i - 1 \in 0..N /\ i - 1 \notin S /\ (i - 1) + 1 = i
    BY <2>3, <2>4
  <2>6. Place(N, m, o, i - 1) = Place(N, m, p, i - 1)
    BY <2>5
  <2>7. /\ c[Place(N, m, o, i - 1)].next = Place(N, m, o, (i - 1) + 1)
        /\ c[Place(N, m, p, i - 1)].next = Place(N, m, p, (i - 1) + 1)
    BY <2>5 DEF Leads
  <2>. QED  BY <2>5, <2>6, <2>7
<1>2. ASSUME NEW i \in 1..N PROVE o[i] = p[i]
  <2>1. Place(N, m, o, i) = m[o[i]] /\ Place(N, m, p, i) = m[p[i]] /\ i \in 0..N /\ i # 0
    BY DEF Place
  <2>2. m[o[i]] = m[p[i]]
    BY <1>1, <2>1
  <2>. QED  BY <2>2 DEF Injective
<1>. QED  BY <1>2

LEMMA LinkedOrder ==
    ASSUME NEW c \in Dictionaries, NEW m \in Maps, Injective(m), NEW N, NEW o, Linked(c, m, N, o)
    PROVE  OrderIn(c, m) = o
<1> DEFINE Present == {k \in Keys : m[k] # NIL /\ c[m[k]] # NIL}
<1>1. N \in Nat /\ o \in [1..N -> Keys] /\ \A i \in 1..N : m[o[i]] \in Signatures
  BY DEF Linked
<1>2. o \in [1..N -> Present]
  <2>1. \A i \in 1..N : o[i] \in Present
    BY <1>1, LinkedKeys
  <2> HIDE DEF Present
  <2>. QED  BY <1>1, <2>1
<1>3. Leads(c, m, N, o)
  BY LinkedLeads
<1>4. OrderIn(c, m) = CHOOSE p \in [1..N -> Present] : Leads(c, m, N, p)
  BY LinkedCount DEF OrderIn
<1>5. OrderIn(c, m) \in [1..N -> Present] /\ Leads(c, m, N, OrderIn(c, m))
  <2> HIDE DEF Present
  <2>. QED  BY <1>2, <1>3, <1>4
<1>6. OrderIn(c, m) \in [1..N -> Keys]
  BY <1>5
<1>7. \A i \in 1..N : m[o[i]] # NIL
  BY <1>1, LRUAssumption DEF Addresses
<1>. QED  BY <1>1, <1>3, <1>5, <1>6, <1>7, LinksDetermine

\* In every state the nodes are in the order of some keys.
LEMMA IsLinked ==
    ASSUME IInv
    PROVE  /\ container \in Dictionaries /\ keySignatureMap \in Maps /\ Injective(keySignatureMap)
           /\ \E N : \E o : Linked(container, keySignatureMap, N, o)
<1>1. container \in Dictionaries /\ keySignatureMap \in Maps
  BY DEF IInv, TypeOK, Dictionaries, Maps
<1>2. Injective(keySignatureMap)
  BY LRUAssumption DEF IInv, OneKeyPerNode, Mapped, Injective
<1>3. PICK n \in Nat : \E f : IsChain(container, n, f)
  BY DEF IInv, Chained
<1>4. PICK f : IsChain(container, n, f)
  BY <1>3
<1> DEFINE N == n - 2
           o == [i \in 1..N |-> CHOOSE k \in Keys : keySignatureMap[k] = f[i+1]]
<1>5. N \in Nat /\ N + 2 = n
  BY <1>4 DEF IsChain
<1>6. ASSUME NEW i \in 1..N
      PROVE  o[i] \in Keys /\ keySignatureMap[o[i]] = f[i+1] /\ f[i+1] \in Signatures
  <2>1. i + 1 \in 1..n /\ i + 1 # 1 /\ i + 1 # n /\ 1 \in 1..n /\ n \in 1..n
    BY <1>5
  <2>2. f[i+1] \in Live \ {HEAD, TAIL}
    BY <1>4, <2>1 DEF IsChain, Live
  <2>3. \E k \in Keys : keySignatureMap[k] = f[i+1]
    BY <2>2 DEF IInv, OneKeyPerNode
  <2>4. f[i+1] \in Signatures
    BY <2>2 DEF Live, Addresses
  <2>. QED  BY <2>3, <2>4
<1>7. ASSUME NEW i \in 1..N, NEW j \in 1..N, o[i] = o[j] PROVE i = j
  <2>1. f[i+1] = f[j+1] /\ i + 1 \in 1..n /\ j + 1 \in 1..n
    BY <1>5, <1>6, <1>7
  <2>2. i + 1 = j + 1
    BY <1>4, <2>1 DEF IsChain
  <2>. QED  BY <2>2
<1>8. o \in [1..N -> Keys]
  BY <1>6
<1> HIDE DEF o
<1>9. Nodes(N, keySignatureMap, o) = f
  <2>1. f \in [1..n -> Addresses] /\ f[1] = HEAD /\ f[n] = TAIL
    BY <1>4 DEF IsChain
  <2>2. ASSUME NEW i \in 1..n, i # 1, i # n PROVE f[i] = keySignatureMap[o[i-1]]
    <3>1. i - 1 \in 1..N /\ (i - 1) + 1 = i
      BY <1>5, <2>2
    <3>. QED  BY <1>6, <3>1
  <2>. QED  BY <1>5, <2>1, <2>2 DEF Nodes
<1>10. Linked(container, keySignatureMap, N, o)
  BY <1>4, <1>5, <1>6, <1>7, <1>8, <1>9 DEF Linked
<1>. QED  BY <1>1, <1>2, <1>10

LEMMA OrderIsIn ==
    /\ TypeOK => Order = OrderIn(container, keySignatureMap)
    /\ TypeOK' => Order' = OrderIn(container', keySignatureMap')
<1>1. \A k \in Keys : k # NIL
  BY LRUAssumption
<1>2. CachedKeys = {k \in Keys : keySignatureMap[k] # NIL /\ container[keySignatureMap[k]] # NIL}
  BY <1>1 DEF CachedKeys, Cached, Mapped
<1>3. CachedKeys' = {k \in Keys : keySignatureMap'[k] # NIL /\ container'[keySignatureMap'[k]] # NIL}
  BY <1>1 DEF CachedKeys, Cached, Mapped
<1>4. NumCacheRecords = Cardinality(LiveIn(container)) - 2
  BY DEF NumCacheRecords, Live, LiveIn
<1>5. NumCacheRecords' = Cardinality(LiveIn(container')) - 2
  BY DEF NumCacheRecords, Live, LiveIn
<1>6. Order = OrderIn(container, keySignatureMap)
  BY <1>2, <1>4 DEF Order, OrderIn, Leads, Place, NodeAt
<1>7. Order' = OrderIn(container', keySignatureMap')
  BY <1>3, <1>5 DEF Order, OrderIn, Leads, Place, NodeAt
<1>. QED  BY <1>6, <1>7

-----------------------------------------------------------------------------
(* What LRUOrder does to the sequence *)

LEMMA ConcatFront ==
    ASSUME NEW N \in Nat, NEW o \in [1..N -> Keys], NEW k \in Keys
    PROVE  <<k>> \o o = Front(N, o, k)
<1>1. /\ <<k>> \in Seq(Keys) /\ Len(<<k>>) = 1 /\ <<k>>[1] = k
      /\ o \in Seq(Keys) /\ Len(o) = N
  OBVIOUS
<1>2. /\ <<k>> \o o \in Seq(Keys) /\ Len(<<k>> \o o) = 1 + N
      /\ \A i \in 1..1 + N : (<<k>> \o o)[i] = IF i <= 1 THEN <<k>>[i] ELSE o[i - 1]
  BY <1>1, ConcatProperties
<1>3. DOMAIN (<<k>> \o o) = 1..N+1
  BY <1>2
<1>4. \A i \in 1..N+1 : (<<k>> \o o)[i] = IF i = 1 THEN k ELSE o[i-1]
  BY <1>1, <1>2
<1>5. <<k>> \o o = [i \in 1..N+1 |-> (<<k>> \o o)[i]]
  BY <1>2, <1>3
<1>. QED  BY <1>4, <1>5 DEF Front

LEMMA WithoutCut ==
    ASSUME NEW N \in Nat, NEW o \in [1..N -> Keys], Order = o,
           \A i, j \in 1..N : o[i] = o[j] => i = j, NEW k
    PROVE  /\ Len(Order) = N
           /\ \A j \in 1..N : o[j] = k => Ordered!Without(k) = Cut(N, o, j)
           /\ (\A j \in 1..N : o[j] # k) => Ordered!Without(k) = o
<1>1. DOMAIN o = 1..N /\ Len(o) = N
  OBVIOUS
<1>2. ASSUME NEW j \in 1..N, o[j] = k PROVE Ordered!Without(k) = Cut(N, o, j)
  <2>1. Ordered!At(k) = j
    BY <1>1, <1>2 DEF Ordered!At
  <2>. QED  BY <1>1, <1>2, <2>1 DEF Ordered!Without, Cut
<1>3. ASSUME \A j \in 1..N : o[j] # k PROVE Ordered!Without(k) = o
  BY <1>1, <1>3 DEF Ordered!Without
<1>. QED  BY <1>1, <1>2, <1>3

\* The order of a state that is known to have one.
LEMMA OrderNow ==
    ASSUME IInv, NEW N, NEW o, Linked(container, keySignatureMap, N, o)
    PROVE  /\ Order = o /\ N \in Nat /\ NumCacheRecords = N
           /\ o \in [1..N -> Keys] /\ Len(Order) = N
           /\ \A i, j \in 1..N : o[i] = o[j] => i = j
           /\ \A k \in Keys : Cached(k) <=> \E i \in 1..N : o[i] = k
<1>1. container \in Dictionaries /\ keySignatureMap \in Maps /\ Injective(keySignatureMap)
  BY IsLinked
<1>2. Order = o
  BY <1>1, LinkedOrder, OrderIsIn DEF IInv
<1>3. /\ N \in Nat /\ o \in [1..N -> Keys]
      /\ \A i, j \in 1..N : o[i] = o[j] => i = j
  BY DEF Linked
<1>4. NumCacheRecords = N
  BY <1>1, LinkedCount DEF NumCacheRecords, Live, LiveIn
<1>5. ASSUME NEW k \in Keys PROVE Cached(k) <=> \E i \in 1..N : o[i] = k
  BY <1>1, LinkedKeys, LRUAssumption DEF Cached, Mapped
<1>. QED  BY <1>2, <1>3, <1>4, <1>5

LEMMA OrderNext ==
    ASSUME IInv', NEW N, NEW o, Linked(container', keySignatureMap', N, o)
    PROVE  Order' = o
<1>1. container' \in Dictionaries /\ keySignatureMap' \in Maps
  BY DEF IInv, TypeOK, Dictionaries, Maps
<1>2. Injective(keySignatureMap')
  BY LRUAssumption DEF IInv, OneKeyPerNode, Mapped, Injective
<1>. QED  BY <1>1, <1>2, LinkedOrder, OrderIsIn DEF IInv

\* LRUOrder's view of a key is the cache's: a cached key has a record.
LEMMA SameKeys ==
    ASSUME IInv, NEW k \in Keys \cup {NIL}
    PROVE  /\ Ordered!Cached(k) <=> Cached(k)
           /\ Ordered!Mapped(k) <=> Mapped(k)
           /\ k \in Dangling <=> Mapped(k) /\ ~Cached(k)
<1>1. CASE k = NIL
  BY <1>1, LRUAssumption DEF Ordered!Cached, Ordered!Mapped, Cached, Mapped, Dangling
<1>2. CASE k \in Keys
  <2>1. ASSUME Cached(k) PROVE Value[k] # NIL
    <3>1. keySignatureMap[k] \in Signatures /\ container[keySignatureMap[k]] # NIL
      BY <1>2, <2>1 DEF Cached, Mapped, IInv, TypeOK
    <3>2. keySignatureMap[k] \in Live \ {HEAD, TAIL}
      BY <3>1, LRUAssumption DEF Live, Addresses
    <3>3. container[keySignatureMap[k]].record # NIL
      BY <3>2 DEF IInv, OneKeyPerNode
    <3>. QED  BY <1>2, <2>1, <3>3 DEF Value
  <2>2. ~Cached(k) => Value[k] = NIL
    BY <1>2 DEF Value
  <2>3. k # NIL /\ (k \in Dangling <=> Mapped(k) /\ ~Cached(k)) /\ (Cached(k) => Mapped(k))
    BY <1>2, LRUAssumption DEF Dangling, Cached
  <2>. QED  BY <2>1, <2>2, <2>3 DEF Ordered!Cached, Ordered!Mapped
<1>. QED  BY <1>1, <1>2

LEMMA LinkedEmpty ==
    ASSUME NEW c, NEW m, \A a \in Addresses : c[a] # NIL <=> a \in {HEAD, TAIL},
           c[HEAD].next = TAIL, c[TAIL].prev = HEAD
    PROVE  Linked(c, m, 0, <<>>)
<1> DEFINE f == Nodes(0, m, <<>>)
<1>1. HEAD \in Addresses /\ TAIL \in Addresses /\ HEAD # TAIL
  BY LRUAssumption DEF Addresses
<1>2. f \in [1..2 -> Addresses] /\ f[1] = HEAD /\ f[2] = TAIL
  BY <1>1 DEF Nodes
<1>3. 1..2 = {1, 2} /\ 1..2-1 = {1} /\ 2 \in Nat /\ 2 >= 2 /\ 1 + 1 = 2 /\ 0 + 2 = 2
  OBVIOUS
<1>4. IsChain(c, 2, f)
  <2> HIDE DEF f
  <2>. QED  BY <1>1, <1>2, <1>3 DEF IsChain
<1>5. <<>> \in [1..0 -> Keys] /\ 1..0 = {}
  OBVIOUS
<1>. QED  BY <1>3, <1>4, <1>5 DEF Linked

-----------------------------------------------------------------------------
(* Every operation is one of LRUOrder *)

\* A step that changes neither the list nor the map.
LEMMA StaysSame ==
    ASSUME UNCHANGED <<container, keySignatureMap>>
    PROVE  UNCHANGED <<Order, Value, Dangling>>
  BY DEF Order, Value, Dangling, Cached, Mapped, CachedKeys, NodeAt, NumCacheRecords, Live

\* A step that keeps the map and the nodes keeps what is cached, and the records.
LEMMA SameNodes ==
    ASSUME IInv, UNCHANGED keySignatureMap, Live' = Live,
           \A a \in Live : container'[a].record = container[a].record
    PROVE  UNCHANGED <<Value, Dangling>>
<1>1. ASSUME NEW k \in Keys
      PROVE  /\ Mapped(k)' <=> Mapped(k)
             /\ Cached(k)' <=> Cached(k)
             /\ Cached(k) => container'[keySignatureMap[k]].record = container[keySignatureMap[k]].record
  <2>1. keySignatureMap[k] # NIL => keySignatureMap[k] \in Addresses
    BY DEF IInv, TypeOK, Addresses
  <2>. QED  BY <2>1 DEF Mapped, Cached, Live
<1>. QED  BY <1>1 DEF Value, Dangling

LEMMA TouchesFront ==
    ASSUME IInv, IInv', NEW k \in Keys, Cached(k), container' = Touch(keySignatureMap[k]),
           UNCHANGED keySignatureMap
    PROVE  Order' = Ordered!ToFront(k) /\ UNCHANGED <<Value, Dangling>>
<1> DEFINE m == keySignatureMap
           s == m[k]
           c == Unlink(container, s)
<1>1. PICK N, o : Linked(container, m, N, o)
  BY IsLinked
<1>2. /\ Order = o /\ N \in Nat /\ o \in [1..N -> Keys] /\ Len(Order) = N
      /\ \A i, j \in 1..N : o[i] = o[j] => i = j
      /\ Cached(k) <=> \E i \in 1..N : o[i] = k
  BY <1>1, OrderNow
<1>3. PICK j \in 1..N : o[j] = k
  BY <1>2
<1>4. container \in Dictionaries /\ m \in Maps /\ s \in Signatures /\ s \in Live
  BY IsLinked DEF Cached, Mapped, Maps, Live, Addresses
<1>5. /\ c \in Dictionaries /\ Linked(c, m, N - 1, Cut(N, o, j))
      /\ LiveIn(c) = LiveIn(container) \ {s}
      /\ \A a \in LiveIn(container) \ {s} : c[a].record = container[a].record
  BY <1>1, <1>3, <1>4, LinkedUnlink
<1>6. container[s] \in Node /\ c[s] = NIL
  BY <1>4, <1>5 DEF Dictionaries, Live, LiveIn, Addresses
<1>7. container[s].record \in Records \cup {NIL}
  BY <1>6 DEF Node
<1>8. /\ Linked(container', m, (N - 1) + 1, Front(N - 1, Cut(N, o, j), k))
      /\ LiveIn(container') = LiveIn(c) \cup {s}
      /\ container'[s].record = container[s].record
      /\ \A a \in LiveIn(c) : container'[a].record = c[a].record
  BY <1>4, <1>5, <1>6, <1>7, LinkedPush DEF Touch
<1>9. Order' = Front(N - 1, Cut(N, o, j), k)
  BY <1>8, OrderNext
<1>10. Ordered!Without(k) = Cut(N, o, j)
  BY <1>2, <1>3, WithoutCut
<1>11. Ordered!ToFront(k) = Front(N - 1, Cut(N, o, j), k)
  <2>1. N - 1 \in Nat /\ Cut(N, o, j) \in [1..N-1 -> Keys]
    BY <1>5 DEF Linked
  <2>. QED  BY <1>10, <2>1, ConcatFront DEF Ordered!ToFront
<1>12. Live' = Live /\ \A a \in Live : container'[a].record = container[a].record
  BY <1>4, <1>5, <1>8 DEF Live, LiveIn
<1>. QED  BY <1>9, <1>11, <1>12, SameNodes

LEMMA RemovesOne ==
    ASSUME IInv, IInv', NEW k \in Keys, RemoveMapped(k)
    PROVE  Ordered!RemoveMapped(k)
<1> DEFINE m == keySignatureMap
<1>1. PICK N, o : Linked(container, m, N, o)
  BY IsLinked
<1>2. /\ Order = o /\ N \in Nat /\ o \in [1..N -> Keys]
      /\ \A i, j \in 1..N : o[i] = o[j] => i = j
      /\ Cached(k) <=> \E i \in 1..N : o[i] = k
  BY <1>1, OrderNow
<1>3. /\ keySignatureMap' = [keySignatureMap EXCEPT ![k] = NIL]
      /\ keySignatureMap'[k] = NIL
      /\ \A j \in Keys : j # k => keySignatureMap'[j] = keySignatureMap[j]
      /\ m \in Maps /\ container \in Dictionaries /\ m[k] \in Signatures
  BY IsLinked DEF RemoveMapped, Mapped, Maps
<1>4. \A j \in Keys : j # k /\ m[j] # NIL => m[j] # m[k] /\ m[j] \in Addresses
  BY <1>3, IsLinked DEF Injective, Maps, Addresses
<1>5. Ordered!Mapped(k) /\ (Ordered!Cached(k) <=> Cached(k))
  BY SameKeys DEF RemoveMapped
<1>6. /\ Order' = Ordered!Without(k)
      /\ \A a \in LiveIn(container') : container'[a].record = container[a].record
      /\ LiveIn(container') = LiveIn(container) \ {m[k]}
      /\ Cached(k) => reply' = [ok |-> TRUE, object |-> NIL]
      /\ ~Cached(k) => reply' = [ok |-> FALSE, object |-> NIL]
  <2>1. CASE Cached(k)
    <3>1. PICK j \in 1..N : o[j] = k
      BY <1>2, <2>1
    <3>2. container' = Unlink(container, m[k]) /\ reply' = [ok |-> TRUE, object |-> NIL]
      BY <2>1 DEF RemoveMapped, Succeed
    <3>3. /\ Linked(container', m, N - 1, Cut(N, o, j))
          /\ LiveIn(container') = LiveIn(container) \ {m[k]}
          /\ \A a \in LiveIn(container) \ {m[k]} : container'[a].record = container[a].record
      BY <1>1, <1>3, <3>1, <3>2, LinkedUnlink
    <3>4. \A i \in 1..N-1 : Cut(N, o, j)[i] \in Keys /\ Cut(N, o, j)[i] # k
      BY <1>2, <3>1 DEF Cut
    <3>5. Linked(container', keySignatureMap', N - 1, Cut(N, o, j))
      BY <1>3, <3>3, <3>4, LinkedMap
    <3>6. Order' = Cut(N, o, j)
      BY <3>5, OrderNext
    <3>7. Ordered!Without(k) = Cut(N, o, j)
      BY <1>2, <3>1, WithoutCut
    <3>. QED  BY <2>1, <3>2, <3>3, <3>6, <3>7
  <2>2. CASE ~Cached(k)
    <3>1. container' = container /\ reply' = [ok |-> FALSE, object |-> NIL]
      BY <2>2 DEF RemoveMapped, Fail
    <3>2. \A i \in 1..N : o[i] \in Keys /\ o[i] # k
      BY <1>2, <2>2
    <3>3. Linked(container', keySignatureMap', N, o)
      BY <1>1, <1>3, <3>1, <3>2, LinkedMap
    <3>4. Order' = o
      BY <3>3, OrderNext
    <3>5. Ordered!Without(k) = o
      BY <1>2, <3>2, WithoutCut
    <3>6. container[m[k]] = NIL
      BY <1>3, <2>2 DEF RemoveMapped, Cached
    <3>7. LiveIn(container') = LiveIn(container) \ {m[k]}
      BY <3>1, <3>6 DEF LiveIn
    <3>. QED  BY <2>2, <3>1, <3>4, <3>5, <3>7
  <2>. QED  BY <2>1, <2>2
<1>7. ASSUME NEW j \in Keys, j # k
      PROVE  /\ Mapped(j)' <=> Mapped(j)
             /\ Cached(j)' <=> Cached(j)
             /\ Cached(j) => container'[keySignatureMap'[j]].record = container[m[j]].record
  BY <1>3, <1>4, <1>6, <1>7 DEF Mapped, Cached, LiveIn
<1>8. ~Mapped(k)' /\ ~Cached(k)'
  BY <1>3 DEF Mapped, Cached
<1>9. Value' = [Value EXCEPT ![k] = NIL]
  BY <1>7, <1>8 DEF Value
<1>10. Dangling' = Dangling \ {k}
  BY <1>7, <1>8 DEF Dangling
<1>11. IF Ordered!Cached(k) THEN Ordered!Succeed(NIL) ELSE Ordered!Fail
  BY <1>5, <1>6 DEF Ordered!Succeed, Ordered!Fail
<1>. QED  BY <1>5, <1>6, <1>9, <1>10, <1>11 DEF Ordered!RemoveMapped

\* The cache in the step that stores a new key: what the eviction, if there is one, leaves.
LEMMA StoresNew ==
    ASSUME IInv, IInv', NEW k \in Keys, NEW r \in Records, SetNew(k, r)
    PROVE  Ordered!SetNew(k, r)
<1> DEFINE m == keySignatureMap
           full == NumCacheRecords >= CacheSize
           c == IF full THEN Unlink(container, LeastRecent) ELSE container
<1>1. PICK N, o : Linked(container, m, N, o)
  BY IsLinked
<1>2. /\ Order = o /\ N \in Nat /\ NumCacheRecords = N /\ o \in [1..N -> Keys] /\ Len(Order) = N
      /\ \A i, j \in 1..N : o[i] = o[j] => i = j
      /\ \A j \in Keys : Cached(j) <=> \E i \in 1..N : o[i] = j
  BY <1>1, OrderNow
<1>3. PICK s \in Signatures :
        /\ ~ InUse(s)
        /\ container' = PushFront(c, s, r)
        /\ keySignatureMap' = [keySignatureMap EXCEPT ![k] = s]
  BY DEF SetNew
<1> DEFINE p == [m EXCEPT ![k] = s]
<1>4. /\ CacheSize > 0 /\ m[k] = NIL /\ k # NIL /\ r # NIL
      /\ m \in Maps /\ container \in Dictionaries /\ Injective(m)
      /\ container[s] = NIL /\ \A j \in Keys : m[j] # s
      /\ s \in Addresses /\ s # NIL
  BY <1>3, IsLinked, LRUAssumption DEF SetNew, CanStore, Mapped, InUse, Addresses
<1>5. /\ p \in Maps /\ p[k] = s /\ \A j \in Keys : j # k => p[j] = m[j]
      /\ keySignatureMap' = p
  BY <1>3, <1>4 DEF Maps
<1>6. \A i \in 1..N : o[i] \in Keys /\ o[i] # k
  BY <1>2, <1>4 DEF Cached, Mapped
<1>7. Ordered!CanStore(k, r) /\ ~Ordered!Mapped(k) /\ Ordered!Succeed(NIL)
  <2>1. ~Mapped(k) /\ reply' = [ok |-> TRUE, object |-> NIL]
    BY DEF SetNew, Succeed
  <2>. QED  BY <1>4, <2>1, SameKeys DEF Ordered!CanStore, Ordered!Succeed
<1>8. Ordered!Full <=> full
  BY <1>2 DEF Ordered!Full
\* What is stored, given what is left of the list before it.
<1>9. ASSUME NEW n, NEW l, Linked(c, m, n, l), c \in Dictionaries, LiveIn(c) \subseteq Live,
             \A i \in 1..n : l[i] # k
      PROVE  /\ Order' = <<k>> \o l
             /\ LiveIn(container') = LiveIn(c) \cup {s}
             /\ container'[s].record = r
             /\ \A a \in LiveIn(c) : container'[a].record = c[a].record
  <2>1. c[s] = NIL
    BY <1>4, <1>9 DEF LiveIn, Live
  <2>2. n \in Nat /\ l \in [1..n -> Keys]
    BY <1>9 DEF Linked
  <2>3. \A i \in 1..n : p[l[i]] = m[l[i]]
    BY <1>5, <1>9, <2>2
  <2> HIDE DEF p, c
  <2>4. Linked(c, p, n, l)
    BY <1>9, <2>3, LinkedMap
  <2>5. /\ Linked(container', p, n + 1, Front(n, l, k))
        /\ LiveIn(container') = LiveIn(c) \cup {s}
        /\ container'[s].record = r
        /\ \A a \in LiveIn(c) : container'[a].record = c[a].record
    BY <1>3, <1>5, <1>9, <2>1, <2>4, LinkedPush
  <2>6. Order' = Front(n, l, k)
    BY <1>5, <2>5, OrderNext
  <2>. QED  BY <2>2, <2>5, <2>6, ConcatFront
<1>10. CASE ~full
  <2>1. c = container
    BY <1>10
  <2>2. LiveIn(container) = Live
    BY DEF LiveIn, Live
  <2>3. /\ Order' = <<k>> \o Order
        /\ LiveIn(container') = Live \cup {s} /\ container'[s].record = r
        /\ \A a \in Live : container'[a].record = container[a].record
    <3> HIDE DEF c
    <3>. QED  BY <1>1, <1>2, <1>4, <1>6, <1>9, <2>1, <2>2
  <2>4. /\ Mapped(k)' /\ Cached(k)'
        /\ container'[keySignatureMap'[k]].record = r
    BY <1>4, <1>5, <2>3 DEF Mapped, Cached, LiveIn
  <2>5. ASSUME NEW j \in Keys, j # k
        PROVE  /\ Mapped(j)' <=> Mapped(j)
               /\ Cached(j)' <=> Cached(j)
               /\ Cached(j) => container'[keySignatureMap'[j]].record = container[m[j]].record
    <3>1. m[j] # NIL => m[j] \in Addresses /\ m[j] # s
      BY <1>4 DEF Maps, Addresses
    <3>2. keySignatureMap'[j] = m[j]
      BY <1>5, <2>5
    <3>. QED  BY <2>3, <3>1, <3>2 DEF Mapped, Cached, LiveIn, Live
  <2>6. Value' = [Value EXCEPT ![k] = r]
    BY <2>4, <2>5 DEF Value
  <2>7. Dangling' = Dangling
    BY <1>4, <2>4, <2>5 DEF Dangling, Mapped
  <2>. QED  BY <1>7, <1>8, <1>10, <2>3, <2>6, <2>7 DEF Ordered!SetNew
<1>11. CASE full
  <2>1. c = Unlink(container, LeastRecent)
    BY <1>11
  <2>2. N \in 1..N /\ LeastRecent = m[o[N]]
    <3>1. (N + 2) - 1 \in 2..(N + 2)-1 /\ LeastRecent = Nodes(N, m, o)[(N + 2) - 1]
      <4> DEFINE f == Nodes(N, m, o)
      <4>1. IsChain(container, N + 2, f) /\ N + 2 \in Nat
        BY <1>1 DEF Linked
      <4> HIDE DEF f
      <4>. QED  BY <1>4, <1>11, <4>1, EvictsInner DEF IInv, f
    <3>2. N >= 1
      BY <1>2, <1>4, <1>11, LRUAssumption
    <3>. QED  BY <1>2, <3>1, <3>2 DEF Nodes
  <2> DEFINE last == o[N]
             l == Cut(N, o, N)
  <2>3. /\ c \in Dictionaries /\ Linked(c, m, N - 1, l)
        /\ LiveIn(c) = LiveIn(container) \ {m[last]}
        /\ \A a \in LiveIn(container) \ {m[last]} : c[a].record = container[a].record
    <3> HIDE DEF c
    <3>. QED  BY <1>1, <1>4, <2>1, <2>2, LinkedUnlink
  <2>4. Ordered!Last = last /\ Ordered!Without(last) = l
    <3>1. Ordered!Last = last
      BY <1>2 DEF Ordered!Last
    <3>. QED  BY <1>2, <2>2, <3>1, WithoutCut
  <2>5. last \in Keys /\ last # k /\ Cached(last) /\ \A i \in 1..N-1 : l[i] # k
    BY <1>2, <1>6, <2>2 DEF Cut
  <2> HIDE DEF l, last, c
  <2>6. LiveIn(container) = Live /\ LiveIn(c) \subseteq Live
    BY <2>3 DEF LiveIn, Live
  <2>7. /\ Order' = <<k>> \o Ordered!Without(Ordered!Last)
        /\ LiveIn(container') = (Live \ {m[last]}) \cup {s} /\ container'[s].record = r
        /\ \A a \in Live \ {m[last]} : container'[a].record = container[a].record
    BY <1>9, <2>3, <2>4, <2>5, <2>6
  <2>8. /\ Mapped(k)' /\ Cached(k)'
        /\ container'[keySignatureMap'[k]].record = r
    BY <1>4, <1>5, <2>7 DEF Mapped, Cached, LiveIn
  <2>9. ASSUME NEW j \in Keys, j # k
        PROVE  /\ Mapped(j)' <=> Mapped(j)
               /\ Cached(j)' <=> Cached(j) /\ j # last
               /\ Cached(j) /\ j # last =>
                    container'[keySignatureMap'[j]].record = container[m[j]].record
    <3>1. m[j] # NIL => m[j] \in Addresses /\ m[j] # s
      BY <1>4 DEF Maps, Addresses
    <3>2. keySignatureMap'[j] = m[j]
      BY <1>5, <2>9
    <3>3. m[j] # NIL => (m[j] = m[last] <=> j = last)
      BY <1>4, <2>5 DEF Injective
    <3>. QED  BY <2>7, <3>1, <3>2, <3>3 DEF Mapped, Cached, LiveIn, Live
  <2>10. Value' = [Value EXCEPT ![last] = NIL, ![k] = r]
    BY <2>5, <2>8, <2>9 DEF Value
  <2>11. Dangling' = Dangling \cup {last}
    <3>1. Mapped(last) /\ ~Mapped(k)
      BY <1>4, <2>5 DEF Cached, Mapped
    <3>. QED  BY <2>5, <2>8, <2>9, <3>1 DEF Dangling
  <2>. QED  BY <1>7, <1>8, <1>11, <2>4, <2>7, <2>10, <2>11 DEF Ordered!SetNew
<1>. QED  BY <1>10, <1>11

LEMMA RemovesAll ==
    ASSUME IInv, IInv', RemoveAll
    PROVE  Ordered!RemoveAll
<1>1. PICK N, o : Linked(container, keySignatureMap, N, o)
  BY IsLinked
<1>2. /\ Order = o /\ N \in Nat /\ o \in [1..N -> Keys]
      /\ \A k \in Keys : Cached(k) <=> \E i \in 1..N : o[i] = k
  BY <1>1, OrderNow
<1>3. HEAD \in Addresses /\ TAIL \in Addresses /\ HEAD # TAIL
  BY LRUAssumption DEF Addresses
<1>4. container[HEAD] \in Node /\ container[TAIL] \in Node
  BY <1>3, ChainLinks DEF IInv, LinksAgree, TypeOK, Live
<1>5. /\ [container[HEAD] EXCEPT !.next = TAIL] \in Node
      /\ [container[TAIL] EXCEPT !.prev = HEAD] \in Node
  BY <1>3, <1>4 DEF Node
<1>6. /\ \A a \in Addresses : container'[a] # NIL <=> a \in {HEAD, TAIL}
      /\ container'[HEAD].next = TAIL /\ container'[TAIL].prev = HEAD
  BY <1>3, <1>4, <1>5, LRUAssumption DEF RemoveAll, Node
<1>7. Order' = <<>>
  BY <1>6, LinkedEmpty, OrderNext
<1>8. \A k \in Keys : ~Mapped(k)' /\ ~Cached(k)'
  BY DEF RemoveAll, Mapped, Cached
<1>9. Value' = [k \in Keys |-> NIL] /\ Dangling' = {}
  BY <1>8 DEF Value, Dangling
\* The enumeration succeeds when there is a key and each has a node.
<1>10. Order # <<>> <=> \E k \in Keys : Cached(k)
  <2>1. o # <<>> <=> N # 0
    <3>1. o \in Seq(Keys) /\ Len(o) = N
      BY <1>2
    <3>. QED  BY <3>1, EmptySeq
  <2>2. N # 0 <=> 1 \in 1..N
    BY <1>2
  <2>3. \A i \in 1..N : o[i] \in Keys
    BY <1>2
  <2>4. (\E k \in Keys : Cached(k)) => 1 \in 1..N
    BY <1>2
  <2>. QED  BY <1>2, <2>1, <2>2, <2>3, <2>4
<1>11. Dangling = {} <=> \A k \in Keys : Mapped(k) => Cached(k)
  BY DEF Dangling
<1>12. \A k \in Keys : Cached(k) => Mapped(k)
  BY DEF Cached
<1>13. Order # <<>> /\ Dangling = {} <=>
           (\E k \in Keys : Mapped(k)) /\ (\A k \in Keys : Mapped(k) => Cached(k))
  BY <1>10, <1>11, <1>12
<1>14. IF Order # <<>> /\ Dangling = {} THEN Succeed(NIL) ELSE Fail
  BY <1>13 DEF RemoveAll
<1>15. IF Order # <<>> /\ Dangling = {} THEN Ordered!Succeed(NIL) ELSE Ordered!Fail
  BY <1>14 DEF Succeed, Fail, Ordered!Succeed, Ordered!Fail
<1>. QED  BY <1>7, <1>9, <1>15 DEF Ordered!RemoveAll

LEMMA StartsEmpty == ASSUME Init, IInv PROVE Ordered!Init
<1>1. HEAD \in Addresses /\ TAIL \in Addresses /\ HEAD # TAIL
  BY LRUAssumption DEF Addresses
<1>2. /\ [prev |-> NIL, next |-> TAIL, record |-> NIL] \in Node
      /\ [prev |-> HEAD, next |-> NIL, record |-> NIL] \in Node
  BY <1>1 DEF Node
<1>3. /\ \A a \in Addresses : container[a] # NIL <=> a \in {HEAD, TAIL}
      /\ container[HEAD].next = TAIL /\ container[TAIL].prev = HEAD
  BY <1>1, <1>2, LRUAssumption DEF Init
<1>4. Linked(container, keySignatureMap, 0, <<>>)
  BY <1>3, LinkedEmpty
<1>5. Order = <<>>
  BY <1>4, OrderNow
<1>6. \A k \in Keys : ~Mapped(k) /\ ~Cached(k)
  BY DEF Init, Mapped, Cached
<1>7. Value = [k \in Keys |-> NIL] /\ Dangling = {}
  BY <1>6 DEF Value, Dangling
<1>. QED  BY <1>5, <1>7 DEF Ordered!Init, Init

LEMMA StepImplements == IInv /\ IInv' /\ [Next]_vars => [Ordered!Next]_(Ordered!vars)
<1> SUFFICES ASSUME IInv, IInv', [Next]_vars PROVE [Ordered!Next]_(Ordered!vars)
  OBVIOUS
<1>1. ASSUME NEW k \in Keys \cup {NIL}, NEW r \in Records \cup {NIL}, SetObject(k, r)
      PROVE  Ordered!SetObject(k, r)
  <2>1. CASE SetRejected(k, r)
    <3>1. UNCHANGED <<container, keySignatureMap>> /\ ~CanStore(k, r)
          /\ reply' = [ok |-> FALSE, object |-> NIL]
      BY <2>1 DEF SetRejected, Fail
    <3>2. Ordered!SetRejected(k, r)
      BY <3>1, StaysSame DEF Ordered!SetRejected, Ordered!CanStore, CanStore, Ordered!Fail
    <3>. QED  BY <3>2 DEF Ordered!SetObject
  <2>2. CASE SetMapped(k, r)
    <3>1. k \in Keys /\ Cached(k) /\ CanStore(k, r)
      BY <2>2 DEF SetMapped, CanStore
    <3>2. Order' = Ordered!ToFront(k) /\ UNCHANGED <<Value, Dangling>>
      BY <2>2, <3>1, TouchesFront DEF SetMapped
    <3>3. Ordered!SetMapped(k, r)
      BY <2>2, <3>1, <3>2, SameKeys
         DEF SetMapped, Succeed, CanStore, Ordered!SetMapped, Ordered!CanStore, Ordered!Succeed
    <3>. QED  BY <3>3 DEF Ordered!SetObject
  <2>3. CASE SetDangling(k, r)
    <3>1. UNCHANGED <<container, keySignatureMap>> /\ CanStore(k, r) /\ k \in Dangling
          /\ reply' = [ok |-> FALSE, object |-> NIL]
      BY <2>3, SameKeys DEF SetDangling, Fail
    <3>2. Ordered!SetDangling(k, r)
      BY <3>1, StaysSame DEF Ordered!SetDangling, Ordered!CanStore, CanStore, Ordered!Fail
    <3>. QED  BY <3>2 DEF Ordered!SetObject
  <2>4. CASE SetNew(k, r)
    <3>1. Ordered!SetNew(k, r)
      BY <2>4, StoresNew DEF SetNew, CanStore
    <3>. QED  BY <3>1 DEF Ordered!SetObject
  <2>. QED  BY <1>1, <2>1, <2>2, <2>3, <2>4 DEF SetObject
<1>2. ASSUME NEW k \in Keys \cup {NIL}, RemoveObject(k) PROVE Ordered!RemoveObject(k)
  <2>1. CASE RemoveMissing(k)
    <3>1. UNCHANGED <<container, keySignatureMap>> /\ ~Ordered!Mapped(k)
          /\ reply' = [ok |-> FALSE, object |-> NIL]
      BY <2>1, SameKeys DEF RemoveMissing, Fail
    <3>2. Ordered!RemoveMissing(k)
      BY <3>1, StaysSame DEF Ordered!RemoveMissing, Ordered!Fail
    <3>. QED  BY <3>2 DEF Ordered!RemoveObject
  <2>2. CASE RemoveMapped(k)
    <3>1. Ordered!RemoveMapped(k)
      BY <2>2, RemovesOne DEF RemoveMapped, Mapped
    <3>. QED  BY <3>1 DEF Ordered!RemoveObject
  <2>. QED  BY <1>2, <2>1, <2>2 DEF RemoveObject
<1>3. ASSUME NEW k \in Keys \cup {NIL}, GetObject(k) PROVE Ordered!GetObject(k)
  <2>1. CASE GetMiss(k)
    <3>1. UNCHANGED <<container, keySignatureMap>> /\ ~Ordered!Cached(k)
          /\ reply' = [ok |-> FALSE, object |-> NIL]
      BY <2>1, SameKeys DEF GetMiss, Fail
    <3>2. Ordered!GetMiss(k)
      BY <3>1, StaysSame DEF Ordered!GetMiss, Ordered!Fail
    <3>. QED  BY <3>2 DEF Ordered!GetObject
  <2>2. CASE GetHit(k)
    <3>1. k \in Keys /\ Cached(k)
      BY <2>2 DEF GetHit, Cached, Mapped
    <3>2. Order' = Ordered!ToFront(k) /\ UNCHANGED <<Value, Dangling>>
      BY <2>2, <3>1, TouchesFront DEF GetHit
    <3>3. Value[k] = container[keySignatureMap[k]].record
      BY <3>1 DEF Value
    <3>4. reply' = [ok |-> TRUE, object |-> Value[k]]
      BY <2>2, <3>3 DEF GetHit, Succeed
    <3>5. Ordered!GetHit(k)
      BY <3>1, <3>2, <3>4, SameKeys DEF Ordered!GetHit, Ordered!Succeed
    <3>. QED  BY <3>5 DEF Ordered!GetObject
  <2>. QED  BY <1>3, <2>1, <2>2 DEF GetObject
<1>4. CASE RemoveAll
  BY <1>4, RemovesAll DEF Ordered!Next
<1>5. CASE UNCHANGED vars
  BY <1>5, StaysSame DEF vars, Ordered!vars
<1>. QED  BY <1>1, <1>2, <1>3, <1>4, <1>5 DEF Next, Ordered!Next

\* The nodes, links and signatures of MSIDLRUCache, whose every operation rewrites two or three
\* nodes one entry at a time, behave as an order of keys with their records, for any keys,
\* records and signatures and any size: what Throttling takes for its database.
THEOREM IsAnOrder == Spec => ImplementsOrder
<1>1. Init => Ordered!Init
  BY InitInv, StartsEmpty
<1>. QED  BY <1>1, InitInv, StepInv, StepImplements, PTL DEF Spec, ImplementsOrder, Ordered!Spec
=============================================================================
