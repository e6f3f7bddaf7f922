------------------------ MODULE AccountMetadataProofs -----------------------
(***************************************************************************)
(* Proofs about AccountMetadata for any number of caches, threads, clients *)
(* and accounts: what a memory holds was stored once, which writes keep    *)
(* what others wrote, and which updates are in effect when they return.    *)
(*                                                                         *)
(* The versions of the items carry the argument.  A copy, in a memory or   *)
(* with a thread, whose version is the present one is a copy of what the   *)
(* keychain holds (Kept, Fits): so an edit of it changes nothing else.     *)
(***************************************************************************)
EXTENDS AccountMetadata, TLAPS

\* The keychain and the memories.
Kept ==
    /\ keychain \in [Clients -> Item \cup {NIL}]
    /\ memoryCache \in [Caches -> [Clients -> Item \cup {NIL}]]
    /\ version \in [Clients -> Counts]
    /\ memoryVersion \in [Caches -> [Clients -> Counts]]
    /\ past \in [Clients -> SUBSET Item]
    /\ \A c \in Clients : keychain[c] # NIL => keychain[c] \in past[c]
    /\ \A p \in Caches, c \in Clients :
        /\ memoryVersion[p][c] <= version[c]
        /\ memoryCache[p][c] # NIL =>
            /\ memoryCache[p][c] \in past[c]
            /\ memoryVersion[p][c] = version[c] /\ keychain[c] # NIL =>
                    memoryCache[p][c] = keychain[c]

\* The fields of a thread.
Shape(th) ==
    /\ th = [pc |-> th.pc, kind |-> th.kind, client |-> th.client, account |-> th.account,
             items |-> th.items, base |-> th.base, met |-> th.met]
    /\ ThreadOK(th)
    /\ \A c \in DOMAIN th.items : th.items[c] \in Item

\* What belongs to the place a thread is at.
Placed(th) ==
    /\ th.pc = "idle" => DOMAIN th.items = {}
    /\ th.pc # "idle" => th.client \in Clients /\ th.account \in Accounts
    /\ th.pc \in {"read", "fill"} => th.kind # "remove"
    /\ th.pc \in {"list", "replace"} => th.kind = "remove"
    /\ th.pc \in {"compare", "write"} => ~ Answered(th)
    /\ th.pc = "fill" => DOMAIN th.items = {th.client}
    /\ th.pc = "write" => th.client \in DOMAIN th.items

\* The updates that are made from what the keychain holds.
FromKeychain(th) == th.kind \in {"sign in", "sign out", "remove"}

\* How the copies of a thread of cache p go with the keychain and the memory.
Copies(p, th) ==
    \A c \in DOMAIN th.items :
        /\ th.pc \in {"fill", "replace"} => th.items[c] \in past[c]
        /\ th.base[c] <= version[c]
        /\ keychain[c] # NIL /\ th.base[c] = version[c] => th.items[c] = keychain[c]
        /\ keychain[c] # NIL /\ FromKeychain(th) /\ ~th.met =>
            /\ th.items[c] = keychain[c]
            /\ th.pc \in {"compare", "write"} => memoryCache[p][c] = th.items[c]

Fits(p, th) == Shape(th) /\ Placed(th) /\ Copies(p, th)

IInv ==
    /\ Kept /\ begun \in 0..MaxOps
    /\ DOMAIN thread = Threads
    /\ \A t \in Threads : Fits(CacheOf[t], thread[t])

-----------------------------------------------------------------------------
(* Items *)

LEMMA NilIsNone == NIL \notin Accounts /\ NIL \notin Meta /\ NIL \notin Item
  BY MetadataAssumption

LEMMA NewItems == NewItem \in Item
  BY DEF NewItem, Item

\* To change the metadata of one account.
With(item, a, m) == [item EXCEPT !.meta[a] = m]

LEMMA MetaReplaced ==
    ASSUME NEW item \in Item, NEW a \in Accounts, NEW m \in Meta \cup {NIL}
    PROVE  /\ With(item, a, m) \in Item /\ With(item, a, m).principal = item.principal
           /\ \A b \in Accounts \ {a} : With(item, a, m).meta[b] = item.meta[b]
           /\ State(With(item, a, m), a) = IF m = NIL THEN "unknown" ELSE m.state
<1> HIDE DEF Meta
<1> DEFINE new == With(item, a, m)
<1>1. new = [meta |-> [item.meta EXCEPT ![a] = m], principal |-> item.principal]
  BY DEF Item, With
<1> HIDE DEF new
<1>2. new.meta = [item.meta EXCEPT ![a] = m] /\ item.meta \in [Accounts -> Meta \cup {NIL}]
  BY <1>1 DEF Item
<1>3. new \in Item /\ new.principal = item.principal
      /\ (\A b \in Accounts \ {a} : new.meta[b] = item.meta[b])
      /\ State(new, a) = IF m = NIL THEN "unknown" ELSE m.state
  BY <1>1, <1>2 DEF Item, State
<1>. QED  BY <1>3 DEF new

\* What an edit of the metadata of a makes of an item.
Touches(kind, item, a, new) ==
    /\ new \in Item
    /\ \A b \in Accounts \ {a} : new.meta[b] = item.meta[b]
    /\ kind = "principal" \/ new.principal = item.principal
    /\ kind = "sign in" => State(new, a) = "in"
    /\ kind = "sign out" => State(new, a) = "out"
    /\ kind = "remove" => State(new, a) = "unknown"

LEMMA Edits ==
    ASSUME NEW item \in Item, NEW a \in Accounts, NEW kind \in Kinds \ {"state", "lookup"}
    PROVE  Touches(kind, item, a, Edited(kind, item, a))
<1> DEFINE new == Edited(kind, item, a)
<1>1. item.meta[a] \in Meta \cup {NIL} /\ NIL \notin Meta
  BY NilIsNone DEF Item
<1>2. \E m \in Meta : m = [state |-> "in", mapped |-> TRUE]
  BY DEF Meta
<1>3. \E m \in Meta : m.state = "out" /\ m = [state |-> "out", mapped |-> FALSE]
  BY DEF Meta
<1>4. \E m \in Meta : m.state = "in" /\ m = [state |-> "in", mapped |-> FALSE]
  BY DEF Meta
<1>5. ASSUME NEW old \in Meta PROVE \E m \in Meta : m.state = "in" /\ m = [old EXCEPT !.state = "in"]
  BY DEF Meta
<1>6. CASE kind = "sign in"
  <2>1. PICK m \in Meta : m.state = "in" /\ m = (IF item.meta[a] = NIL
                THEN [state |-> "in", mapped |-> FALSE] ELSE [item.meta[a] EXCEPT !.state = "in"])
    BY <1>1, <1>4, <1>5
  <2>2. new = With(item, a, m)
    BY <1>6, <2>1 DEF Edited, SignedIn, With
  <2>3. m # NIL /\ m.state = "in" /\ item.meta \in [Accounts -> Meta \cup {NIL}]
    BY <1>1, <2>1 DEF Item
  <2> HIDE DEF Meta
  <2>4. /\ new \in Item /\ new.principal = item.principal /\ State(new, a) = "in"
        /\ \A b \in Accounts \ {a} : new.meta[b] = item.meta[b]
    BY <2>2, <2>3, MetaReplaced
  <2>. QED  BY <1>6, <2>4 DEF Touches
<1>7. CASE kind = "sign out"
  <2>1. PICK m \in Meta : m.state = "out" /\ m = [state |-> "out", mapped |-> FALSE]
    BY <1>3
  <2>2. new = With(item, a, m)
    BY <1>7, <2>1 DEF Edited, SignedOut, With
  <2>3. m # NIL /\ m.state = "out" /\ item.meta \in [Accounts -> Meta \cup {NIL}]
    BY <1>1, <2>1 DEF Item
  <2> HIDE DEF Meta
  <2>4. /\ new \in Item /\ new.principal = item.principal /\ State(new, a) = "out"
        /\ \A b \in Accounts \ {a} : new.meta[b] = item.meta[b]
    BY <2>2, <2>3, MetaReplaced
  <2>. QED  BY <1>7, <2>4 DEF Touches
<1>8. CASE kind = "map"
  <2>1. PICK m \in Meta : m = [state |-> "in", mapped |-> TRUE]
    BY <1>2
  <2>2. new = With(item, a, m)
    BY <1>8, <2>1 DEF Edited, Mapped, With
  <2>. QED  BY <1>8, <2>1, <2>2, MetaReplaced DEF Touches
<1>9. CASE kind = "principal"
  <2>1. new = [meta |-> item.meta, principal |-> a]
    BY <1>9 DEF Edited, Item
  <2>. QED  BY <1>9, <2>1 DEF Item, Touches
<1>10. CASE kind = "remove"
  <2>1. new = With(item, a, NIL)
    BY <1>10 DEF Edited, With
  <2>. QED  BY <1>10, <2>1, MetaReplaced DEF Touches
<1>. QED  BY <1>6, <1>7, <1>8, <1>9, <1>10 DEF Kinds

LEMMA IdleFits == \A p : Fits(p, Idle) /\ Idle.pc = "idle"
<1>1. DOMAIN <<>> = {}
  OBVIOUS
<1>. QED  BY <1>1 DEF Fits, Shape, Placed, Copies, ThreadOK, Idle, Kinds

-----------------------------------------------------------------------------
LEMMA Initially == Init => IInv
<1>. SUFFICES ASSUME Init PROVE IInv
  OBVIOUS
<1>1. keychain \in [Clients -> Item \cup {NIL}] /\ 0 \in Counts /\ 0 \in 0..MaxOps
  BY MetadataAssumption DEF Init, Counts
<1>2. Kept
  BY <1>1 DEF Init, Kept
<1>3. \A t \in Threads : Fits(CacheOf[t], thread[t])
  <2>. SUFFICES ASSUME NEW t \in Threads PROVE Fits(CacheOf[t], thread[t])
    OBVIOUS
  <2>1. thread[t] = Idle
    BY DEF Init
  <2>. QED  BY <2>1, IdleFits
<1>. QED  BY <1>1, <1>2, <1>3 DEF IInv, Init

\* Nothing is forgotten of the past, and a change counts.
Grows ==
    \A c \in Clients :
        /\ past[c] \subseteq past'[c]
        /\ version'[c] \in Counts /\ version[c] <= version'[c]
        /\ version'[c] = version[c] => keychain'[c] = keychain[c]

LEMMA CountsAreNumbers == Counts \subseteq Nat
  BY MetadataAssumption DEF Counts

LEMMA CountsOrder ==
    \A n \in Counts : /\ n <= n /\ n <= n + 1 /\ n # n + 1
                      /\ \A m \in Counts : m <= n => m <= n + 1
  BY CountsAreNumbers

\* A thread that does not move keeps fitting, since it learns of the changes around it.
LEMMA OthersFit ==
    ASSUME IInv, Grows, NEW u \in Threads, NEW b \in BOOLEAN,
           ~b => /\ ~thread[u].met /\ keychain' = keychain
                 /\ memoryCache'[CacheOf[u]] = memoryCache[CacheOf[u]],
           \/ thread'[u] = [thread[u] EXCEPT !.met = b]
           \/ thread'[u] = thread[u] /\ thread[u].pc = "idle"
    PROVE  Fits(CacheOf[u], thread[u])'
<1> DEFINE th == thread[u]  p == CacheOf[u]
<1>1. Shape(th) /\ Placed(th) /\ Copies(p, th)
  BY DEF IInv, Fits
<1>2. CASE thread'[u] = thread[u] /\ thread[u].pc = "idle"
  BY <1>1, <1>2 DEF Fits, Shape, Placed, Copies, ThreadOK, Answered
<1>3. CASE thread'[u] = [thread[u] EXCEPT !.met = b]
  <2>1. thread'[u] = [pc |-> th.pc, kind |-> th.kind, client |-> th.client,
                      account |-> th.account, items |-> th.items, base |-> th.base, met |-> b]
    BY <1>1, <1>3 DEF Shape
  <2>2. Shape(th)' /\ Placed(th)'
    BY <1>1, <2>1 DEF Shape, Placed, ThreadOK, Answered
  <2>3. ASSUME NEW c \in DOMAIN th.items
        PROVE  /\ th.pc \in {"fill", "replace"} => th.items[c] \in past'[c]
               /\ th.base[c] <= version'[c]
               /\ keychain'[c] # NIL /\ th.base[c] = version'[c] => th.items[c] = keychain'[c]
               /\ keychain'[c] # NIL /\ FromKeychain(th) /\ ~b =>
                   /\ th.items[c] = keychain'[c]
                   /\ th.pc \in {"compare", "write"} => memoryCache'[p][c] = th.items[c]
    <3>1. c \in Clients /\ th.base[c] \in Counts /\ version[c] \in Counts
      BY <1>1 DEF Shape, ThreadOK, IInv, Kept
    <3>2. /\ past[c] \subseteq past'[c]
          /\ version'[c] \in Counts /\ version[c] <= version'[c]
          /\ version'[c] = version[c] => keychain'[c] = keychain[c]
      BY <3>1 DEF Grows
    <3>3. th.base[c] <= version[c]
      BY <1>1 DEF Copies
    <3>4. th.base[c] <= version'[c] /\ (th.base[c] = version'[c] => version'[c] = version[c])
      BY <3>1, <3>2, <3>3, CountsAreNumbers
    <3>. QED  BY <1>1, <3>2, <3>4 DEF Copies
  <2>4. /\ thread'[u].pc = th.pc /\ thread'[u].kind = th.kind /\ thread'[u].items = th.items
        /\ thread'[u].base = th.base /\ thread'[u].met = b
    BY <2>1
  <2>5. Copies(CacheOf[u], thread[u])'
    <3> DEFINE new == thread'[u]
    <3>1. SUFFICES ASSUME NEW c \in DOMAIN new.items
                   PROVE  /\ new.pc \in {"fill", "replace"} => new.items[c] \in past'[c]
                          /\ new.base[c] <= version'[c]
                          /\ keychain'[c] # NIL /\ new.base[c] = version'[c] =>
                                new.items[c] = keychain'[c]
                          /\ keychain'[c] # NIL /\ FromKeychain(new) /\ ~new.met =>
                                /\ new.items[c] = keychain'[c]
                                /\ new.pc \in {"compare", "write"} =>
                                        memoryCache'[p][c] = new.items[c]
      BY DEF Copies, FromKeychain
    <3>2. FromKeychain(new) = FromKeychain(th)
      BY <2>4 DEF FromKeychain
    <3> HIDE DEF new, th
    <3>. QED  BY <2>3, <2>4, <3>1, <3>2 DEF new
  <2>. QED  BY <2>2, <2>5 DEF Fits
<1>. QED  BY <1>2, <1>3

\* A step of thread t that leaves it fitting.
OthersMeet(t) ==
    /\ DOMAIN thread' = Threads
    /\ \A u \in Threads \ {t} :
            thread'[u] = IF thread[u].pc = "idle" THEN thread[u]
                         ELSE [thread[u] EXCEPT !.met =
                                  \/ @
                                  \/ keychain' # keychain
                                  \/ memoryCache'[CacheOf[u]] # memoryCache[CacheOf[u]]]

LEMMA StepMeets ==
    ASSUME NEW t \in Threads, NEW th, Step(t, th)
    PROVE  OthersMeet(t) /\ thread'[t] = th
  BY DEF Step, OthersMeet

LEMMA StepKeeps ==
    ASSUME IInv, Grows, Kept', begun' \in 0..MaxOps, NEW t \in Threads, OthersMeet(t),
           Fits(CacheOf[t], thread[t])'
    PROVE  IInv'
<1>1. ASSUME NEW u \in Threads, u # t PROVE Fits(CacheOf[u], thread[u])'
  <2> DEFINE b == \/ thread[u].met
                  \/ keychain' # keychain
                  \/ memoryCache'[CacheOf[u]] # memoryCache[CacheOf[u]]
  <2>1. thread[u].met \in BOOLEAN
    BY DEF IInv, Fits, Shape, ThreadOK
  <2>2. b \in BOOLEAN /\ (~b => ~thread[u].met /\ keychain' = keychain
                            /\ memoryCache'[CacheOf[u]] = memoryCache[CacheOf[u]])
    BY <2>1
  <2>3. \/ thread'[u] = [thread[u] EXCEPT !.met = b]
        \/ thread'[u] = thread[u] /\ thread[u].pc = "idle"
    BY <1>1 DEF OthersMeet
  <2> HIDE DEF b
  <2>. QED  BY <2>2, <2>3, OthersFit
<1>. QED  BY <1>1 DEF IInv, OthersMeet

LEMMA SharedSame == ASSUME IInv, UNCHANGED Unshared PROVE Kept' /\ Grows
<1>1. Kept
  BY DEF IInv
<1>2. Kept'
  BY <1>1 DEF Kept, Unshared
<1>3. \A c \in Clients : version[c] \in Counts /\ version[c] <= version[c]
  BY <1>1, CountsOrder DEF Kept
<1>4. Grows
  BY <1>3 DEF Unshared, Grows
<1>. QED  BY <1>2, <1>4

\* What goes into a memory.
LEMMA RemembersKeeps ==
    ASSUME IInv, NEW p \in Caches, NEW c \in Clients, NEW item, NEW v,
           item \in past'[c], v \in Counts, v <= version'[c],
           v = version'[c] /\ keychain'[c] # NIL => item = keychain'[c],
           Remembers(p, c, item, v), Grows,
           past' \in [Clients -> SUBSET Item], version' \in [Clients -> Counts],
           keychain' \in [Clients -> Item \cup {NIL}],
           \A d \in Clients : keychain'[d] # NIL => keychain'[d] \in past'[d]
    PROVE  Kept'
<1>1. Kept /\ item \in Item
  BY DEF IInv
<1>2. memoryCache' = [memoryCache EXCEPT ![p][c] = item]
      /\ memoryVersion' = [memoryVersion EXCEPT ![p][c] = v]
  BY DEF Remembers
<1>3. memoryCache' \in [Caches -> [Clients -> Item \cup {NIL}]]
      /\ memoryVersion' \in [Caches -> [Clients -> Counts]]
  BY <1>1, <1>2 DEF Kept
<1>4. ASSUME NEW q \in Caches, NEW d \in Clients
      PROVE  /\ memoryVersion'[q][d] <= version'[d]
             /\ memoryCache'[q][d] # NIL =>
                /\ memoryCache'[q][d] \in past'[d]
                /\ memoryVersion'[q][d] = version'[d] /\ keychain'[d] # NIL =>
                        memoryCache'[q][d] = keychain'[d]
  <2>1. CASE q = p /\ d = c
    BY <1>1, <1>2, <2>1 DEF Kept
  <2>2. CASE ~ (q = p /\ d = c)
    <3>1. memoryCache'[q][d] = memoryCache[q][d] /\ memoryVersion'[q][d] = memoryVersion[q][d]
      BY <1>1, <1>2, <2>2 DEF Kept
    <3>2. /\ past[d] \subseteq past'[d] /\ version[d] \in Counts /\ memoryVersion[q][d] \in Counts
          /\ version'[d] \in Counts /\ version[d] <= version'[d]
          /\ memoryVersion[q][d] <= version[d]
          /\ version'[d] = version[d] => keychain'[d] = keychain[d]
      BY <1>1 DEF Grows, Kept
    <3>3. /\ memoryVersion[q][d] <= version'[d]
          /\ memoryVersion[q][d] = version'[d] => version'[d] = version[d]
      BY <3>2, CountsAreNumbers
    <3>. QED  BY <1>1, <3>1, <3>2, <3>3 DEF Kept
  <2>. QED  BY <2>1, <2>2
<1>. QED  BY <1>3, <1>4 DEF Kept

\* Nothing is held by a thread that is done.
LEMMA FinishKeeps ==
    ASSUME IInv, Grows, Kept', begun' \in 0..MaxOps, NEW t \in Threads, Finished(t)
    PROVE  IInv'
<1>1. OthersMeet(t) /\ thread'[t] = Idle
  BY StepMeets DEF Finished
<1>2. DOMAIN <<>> = {}
  OBVIOUS
<1>3. Fits(CacheOf[t], thread[t])'
  BY <1>1, <1>2 DEF Fits, Shape, Placed, Copies, ThreadOK, Idle, Kinds
<1>. QED  BY <1>1, <1>3, StepKeeps

-----------------------------------------------------------------------------
(* The steps that read *)

LEMMA BeginKeeps ==
    ASSUME IInv, NEW t \in Threads, NEW kind \in Kinds, NEW c \in Clients, NEW a \in Accounts,
           Begin(t, kind, c, a)
    PROVE  IInv'
<1>1. Kept' /\ Grows
  BY SharedSame DEF Begin
<1>2. begun' \in 0..MaxOps
  BY MetadataAssumption DEF IInv, Begin
<1> DEFINE th == [Idle EXCEPT !.pc = IF kind = "remove" THEN "list" ELSE "read",
                              !.kind = kind, !.client = c, !.account = a]
<1>3. th \in [pc : {IF kind = "remove" THEN "list" ELSE "read"}, kind : {kind}, client : {c},
              account : {a}, items : {<<>>}, base : {<<>>}, met : {FALSE}]
  BY DEF Idle
<1>4. Step(t, th)
  BY DEF Begin
<1> HIDE DEF th
<1>5. OthersMeet(t) /\ thread'[t] = th
  BY <1>4, StepMeets
<1>6. DOMAIN <<>> = {}
  OBVIOUS
<1>7. Fits(CacheOf[t], thread[t])'
  BY <1>3, <1>5, <1>6 DEF Fits, Shape, Placed, Copies, ThreadOK
<1>. QED  BY <1>1, <1>2, <1>5, <1>7, StepKeeps

\* A thread that reads its item, or a new one, goes on with that copy.
LEMMA HoldingKeeps ==
    ASSUME IInv, NEW t \in Threads, UNCHANGED <<Unshared, begun>>,
           NEW pc \in {"fill", "compare"}, NEW item \in Item, NEW v \in Counts,
           thread[t].pc = "read", Step(t, Holding(thread[t], item, v, pc)),
           pc = "compare" => ~Answered(thread[t]),
           pc = "fill" => item \in past[thread[t].client],
           v <= version[thread[t].client],
           keychain[thread[t].client] # NIL =>
                /\ v = version[thread[t].client] => item = keychain[thread[t].client]
                /\ FromKeychain(thread[t]) => pc = "fill" /\ item = keychain[thread[t].client]
    PROVE  IInv'
<1> DEFINE th == thread[t]  c == th.client
<1>1. Kept' /\ Grows /\ begun' \in 0..MaxOps
  BY SharedSame DEF IInv
<1>2. Shape(th) /\ Placed(th)
  BY DEF IInv, Fits
<1>3. OthersMeet(t) /\ thread'[t] = Holding(th, item, v, pc)
  BY StepMeets
<1>4. c \in Clients
  BY <1>2 DEF Placed
<1>5. thread'[t] = [pc |-> pc, kind |-> th.kind, client |-> c, account |-> th.account,
                    items |-> [x \in {c} |-> item], base |-> [x \in {c} |-> v], met |-> th.met]
  BY <1>2, <1>3 DEF Holding, Shape
<1>6. Shape(thread[t])' /\ Placed(thread[t])'
  BY <1>2, <1>4, <1>5 DEF Shape, Placed, ThreadOK, Answered
<1>7. Copies(CacheOf[t], thread[t])'
  <2>1. /\ thread'[t].pc = pc /\ thread'[t].kind = th.kind /\ thread'[t].met = th.met
        /\ DOMAIN thread'[t].items = {c} /\ thread'[t].items[c] = item /\ thread'[t].base[c] = v
    BY <1>5
  <2>2. version' = version /\ keychain' = keychain /\ past' = past
    BY DEF Unshared
  <2>. QED  BY <2>1, <2>2 DEF Copies, FromKeychain
<1>. QED  BY <1>1, <1>3, <1>6, <1>7, StepKeeps DEF Fits

LEMMA ReadMemoryKeeps == ASSUME IInv, NEW t \in Threads, ReadMemory(t) PROVE IInv'
<1> DEFINE th == thread[t]  c == th.client  p == CacheOf[t]
<1>1. Kept /\ Placed(th) /\ Kept' /\ Grows /\ begun' \in 0..MaxOps /\ p \in Caches
  BY SharedSame, MetadataAssumption DEF IInv, Fits, ReadMemory
<1>2. th.pc = "read" /\ ~SkipsMemory(th.kind) /\ memoryCache[p][c] # NIL /\ c \in Clients
      /\ th.kind # "remove"
  BY <1>1 DEF ReadMemory, Placed
<1>3. CASE Answered(th)
  BY <1>1, <1>3, FinishKeeps DEF ReadMemory
<1>4. CASE ~Answered(th)
  <2>1. memoryCache[p][c] \in Item /\ memoryVersion[p][c] \in Counts
        /\ memoryVersion[p][c] <= version[c]
        /\ (keychain[c] # NIL /\ memoryVersion[p][c] = version[c]
              => memoryCache[p][c] = keychain[c])
    BY <1>1, <1>2 DEF Kept
  <2>2. ~FromKeychain(th)
    BY <1>2 DEF FromKeychain, SkipsMemory
  <2>3. Step(t, Holding(th, memoryCache[p][c], memoryVersion[p][c], "compare"))
        /\ UNCHANGED <<Unshared, begun>>
    BY <1>4 DEF ReadMemory
  <2>. QED  BY <1>2, <1>4, <2>1, <2>2, <2>3, HoldingKeeps
<1>. QED  BY <1>3, <1>4

LEMMA ReadKeychainKeeps == ASSUME IInv, NEW t \in Threads, ReadKeychain(t) PROVE IInv'
<1> DEFINE th == thread[t]  c == th.client
<1>1. Kept /\ Placed(th) /\ Kept' /\ Grows /\ begun' \in 0..MaxOps
  BY SharedSame DEF IInv, Fits, ReadKeychain
<1>2. th.pc = "read" /\ c \in Clients /\ UNCHANGED <<Unshared, begun>>
  BY <1>1 DEF ReadKeychain, Placed
<1>3. version[c] \in Counts /\ version[c] <= version[c]
  BY <1>1, <1>2, CountsOrder DEF Kept
<1>4. CASE keychain[c] # NIL
  <2>1. keychain[c] \in Item /\ keychain[c] \in past[c]
    BY <1>1, <1>2, <1>4 DEF Kept
  <2>2. Step(t, Holding(th, keychain[c], version[c], "fill"))
    BY <1>4 DEF ReadKeychain
  <2>. QED  BY <1>2, <1>3, <2>1, <2>2, HoldingKeeps
<1>5. CASE keychain[c] = NIL /\ Answered(th)
  BY <1>1, <1>5, FinishKeeps DEF ReadKeychain
<1>6. CASE keychain[c] = NIL /\ ~Answered(th)
  <2>1. Step(t, Holding(th, NewItem, version[c], "compare"))
    BY <1>6 DEF ReadKeychain
  <2>. QED  BY <1>2, <1>3, <1>6, <2>1, NewItems, HoldingKeeps
<1>. QED  BY <1>4, <1>5, <1>6

LEMMA ReadFailsKeeps == ASSUME IInv, NEW t \in Threads, ReadFails(t) PROVE IInv'
  BY SharedSame, FinishKeeps DEF IInv, ReadFails

-----------------------------------------------------------------------------
(* The steps that fill a memory *)

\* A thread whose copies have reached its memory begins to compare them.
LEMMA ComparesKeeps ==
    ASSUME IInv, NEW t \in Threads, thread[t].pc \in {"fill", "replace"},
           UNCHANGED <<keychain, begun, version, past>>, Kept', Grows,
           \A c \in DOMAIN thread[t].items : memoryCache'[CacheOf[t]][c] = thread[t].items[c],
           ~Answered(thread[t]), Step(t, [thread[t] EXCEPT !.pc = "compare"])
    PROVE  IInv'
<1> DEFINE th == thread[t]
<1>1. Shape(th) /\ Placed(th) /\ Copies(CacheOf[t], th) /\ begun' \in 0..MaxOps
  BY DEF IInv, Fits
<1>2. OthersMeet(t) /\ thread'[t] = [th EXCEPT !.pc = "compare"]
  BY StepMeets
<1>3. thread'[t] = [pc |-> "compare", kind |-> th.kind, client |-> th.client,
                    account |-> th.account, items |-> th.items, base |-> th.base, met |-> th.met]
  BY <1>1, <1>2 DEF Shape
<1>4. Shape(thread[t])' /\ Placed(thread[t])'
  BY <1>1, <1>3 DEF Shape, Placed, ThreadOK, Answered
<1>5. /\ thread'[t].pc = "compare" /\ thread'[t].kind = th.kind /\ thread'[t].met = th.met
      /\ thread'[t].items = th.items /\ thread'[t].base = th.base
  BY <1>3
<1>6. Copies(CacheOf[t], thread[t])'
  BY <1>1, <1>5 DEF Copies, FromKeychain
<1>. QED  BY <1>1, <1>2, <1>4, <1>6, StepKeeps DEF Fits

LEMMA SharedGrows ==
    ASSUME IInv, UNCHANGED <<keychain, version, past>>
    PROVE  /\ Grows
           /\ past' \in [Clients -> SUBSET Item] /\ version' \in [Clients -> Counts]
           /\ keychain' \in [Clients -> Item \cup {NIL}]
           /\ \A d \in Clients : keychain'[d] # NIL => keychain'[d] \in past'[d]
  BY CountsOrder DEF IInv, Kept, Grows

LEMMA FillKeeps == ASSUME IInv, NEW t \in Threads, Fill(t) PROVE IInv'
<1> DEFINE th == thread[t]  c == th.client  p == CacheOf[t]
<1>1. Shape(th) /\ Placed(th) /\ Copies(p, th) /\ th.pc = "fill" /\ Kept
  BY DEF IInv, Fits, Fill
<1>2. c \in Clients /\ p \in Caches /\ DOMAIN th.items = {c} /\ th.base[c] \in Counts
  BY <1>1, MetadataAssumption DEF Placed, Shape, ThreadOK
<1>3. /\ th.items[c] \in past[c] /\ th.base[c] <= version[c]
      /\ keychain[c] # NIL /\ th.base[c] = version[c] => th.items[c] = keychain[c]
  BY <1>1, <1>2 DEF Copies
<1>4. Remembers(p, c, th.items[c], th.base[c]) /\ UNCHANGED <<keychain, begun, version, past>>
  BY DEF Fill
<1>5. Kept' /\ Grows
  BY <1>2, <1>3, <1>4, SharedGrows, RemembersKeeps
<1>6. memoryCache'[p][c] = th.items[c]
  BY <1>1, <1>2, <1>4 DEF Remembers, Kept
<1>7. CASE Answered(th)
  BY <1>5, <1>7, FinishKeeps DEF Fill, IInv
<1>8. CASE ~Answered(th)
  <2>1. Step(t, [th EXCEPT !.pc = "compare"])
    BY <1>8 DEF Fill
  <2>. QED  BY <1>1, <1>2, <1>4, <1>5, <1>6, <1>8, <2>1, ComparesKeeps
<1>. QED  BY <1>7, <1>8

LEMMA ListKeeps == ASSUME IInv, NEW t \in Threads, List(t) PROVE IInv'
<1> DEFINE th == thread[t]  found == {c \in Clients : keychain[c] # NIL}
<1>1. Shape(th) /\ Placed(th) /\ th.pc = "list" /\ Kept /\ Kept' /\ Grows /\ begun' \in 0..MaxOps
  BY SharedSame DEF IInv, Fits, List
<1>2. Step(t, [th EXCEPT !.pc = "replace", !.items = [c \in found |-> keychain[c]],
                                           !.base = [c \in found |-> version[c]]])
  BY DEF List
<1>3. OthersMeet(t)
      /\ thread'[t] = [th EXCEPT !.pc = "replace", !.items = [c \in found |-> keychain[c]],
                                                   !.base = [c \in found |-> version[c]]]
  BY <1>2, StepMeets
<1>4. thread'[t] = [pc |-> "replace", kind |-> th.kind, client |-> th.client,
                    account |-> th.account, items |-> [c \in found |-> keychain[c]],
                    base |-> [c \in found |-> version[c]], met |-> th.met]
  BY <1>1, <1>3 DEF Shape
<1>5. \A c \in found : keychain[c] \in Item /\ keychain[c] \in past[c] /\ version[c] \in Counts
                       /\ version[c] <= version[c]
  BY <1>1, CountsOrder DEF Kept
<1>6. Shape(thread[t])' /\ Placed(thread[t])'
  BY <1>1, <1>4, <1>5 DEF Shape, Placed, ThreadOK, Answered
<1>7. Copies(CacheOf[t], thread[t])'
  <2>1. /\ thread'[t].pc = "replace" /\ DOMAIN thread'[t].items = found
        /\ \A c \in found : thread'[t].items[c] = keychain[c] /\ thread'[t].base[c] = version[c]
    BY <1>4
  <2>2. keychain' = keychain /\ version' = version /\ past' = past
    BY DEF List, Unshared
  <2> HIDE DEF found
  <2>. QED  BY <1>5, <2>1, <2>2 DEF Copies
<1>. QED  BY <1>1, <1>3, <1>6, <1>7, StepKeeps DEF Fits

LEMMA ReplaceKeeps == ASSUME IInv, NEW t \in Threads, Replace(t) PROVE IInv'
<1> DEFINE th == thread[t]  p == CacheOf[t]  found == DOMAIN th.items
<1>1. Shape(th) /\ Placed(th) /\ Copies(p, th) /\ th.pc = "replace" /\ Kept /\ p \in Caches
  BY MetadataAssumption DEF IInv, Fits, Replace
<1>2. UNCHANGED <<keychain, begun, version, past>>
  BY DEF Replace
<1>3. /\ memoryCache' = [memoryCache EXCEPT ![p] =
            [c \in Clients |-> IF c \in found THEN th.items[c] ELSE NIL]]
      /\ memoryVersion' = [memoryVersion EXCEPT ![p] =
            [c \in Clients |-> IF c \in found THEN th.base[c] ELSE 0]]
  BY DEF Replace
<1>4. \A c \in found :
        /\ c \in Clients /\ th.items[c] \in Item /\ th.base[c] \in Counts
        /\ th.items[c] \in past[c] /\ th.base[c] <= version[c]
        /\ keychain[c] # NIL /\ th.base[c] = version[c] => th.items[c] = keychain[c]
  BY <1>1 DEF Shape, ThreadOK, Copies
<1>5. 0 \in Counts /\ \A c \in Clients : 0 <= version[c]
  BY <1>1, MetadataAssumption DEF Kept, Counts
<1>6. Grows /\ past' \in [Clients -> SUBSET Item] /\ version' \in [Clients -> Counts]
      /\ keychain' \in [Clients -> Item \cup {NIL}]
      /\ \A d \in Clients : keychain'[d] # NIL => keychain'[d] \in past'[d]
  BY <1>2, SharedGrows
<1> HIDE DEF found
<1>7. /\ memoryCache' \in [Caches -> [Clients -> Item \cup {NIL}]]
      /\ memoryVersion' \in [Caches -> [Clients -> Counts]]
  BY <1>1, <1>3, <1>4, <1>5 DEF Kept
<1>8. ASSUME NEW q \in Caches, NEW d \in Clients
      PROVE  /\ memoryVersion'[q][d] <= version[d]
             /\ memoryCache'[q][d] # NIL =>
                /\ memoryCache'[q][d] \in past[d]
                /\ memoryVersion'[q][d] = version[d] /\ keychain[d] # NIL =>
                        memoryCache'[q][d] = keychain[d]
  <2>1. CASE q # p
    BY <1>1, <1>3, <2>1 DEF Kept
  <2>2. CASE q = p
    <3>1. /\ memoryCache'[p][d] = IF d \in found THEN th.items[d] ELSE NIL
          /\ memoryVersion'[p][d] = IF d \in found THEN th.base[d] ELSE 0
      BY <1>1, <1>3 DEF Kept
    <3>. QED  BY <1>4, <1>5, <2>2, <3>1
  <2>. QED  BY <2>1, <2>2
<1>9. Kept'
  BY <1>2, <1>6, <1>7, <1>8 DEF Kept
<1>10. CASE found = {}
  BY <1>2, <1>6, <1>9, <1>10, FinishKeeps DEF Replace, IInv, found
<1>11. CASE found # {}
  <2>1. Step(t, [th EXCEPT !.pc = "compare"])
    BY <1>11 DEF Replace, found
  <2>2. ~Answered(th)
    BY <1>1 DEF Placed, Answered
  <2>3. \A c \in found : memoryCache'[p][c] = th.items[c]
    BY <1>1, <1>3, <1>4 DEF Kept
  <2>. QED  BY <1>1, <1>2, <1>6, <1>9, <2>1, <2>2, <2>3, ComparesKeeps DEF found
<1>. QED  BY <1>10, <1>11

-----------------------------------------------------------------------------
(* The steps that compare and save *)

\* A thread that is done with client c goes on with the other clients.
LEMMA SavedKeeps ==
    ASSUME IInv, Grows, Kept', begun' \in 0..MaxOps, NEW t \in Threads,
           NEW c \in DOMAIN thread[t].items, thread[t].pc \in {"compare", "write"},
           Saved(t, thread[t], c),
           \A d \in DOMAIN thread[t].items \ {c} :
                /\ keychain'[d] = keychain[d] /\ version'[d] = version[d]
                /\ memoryCache'[CacheOf[t]][d] = memoryCache[CacheOf[t]][d]
    PROVE  IInv'
<1> DEFINE th == thread[t]  rest == DOMAIN th.items \ {c}
<1>1. Shape(th) /\ Placed(th) /\ Copies(CacheOf[t], th)
  BY DEF IInv, Fits
<1>2. CASE DOMAIN th.items = {c}
  BY <1>2, FinishKeeps DEF Saved
<1>3. CASE DOMAIN th.items # {c}
  <2>1. Step(t, Without(th, c))
    BY <1>3 DEF Saved
  <2>2. OthersMeet(t) /\ thread'[t] = Without(th, c)
    BY <2>1, StepMeets
  <2>3. thread'[t] = [pc |-> "compare", kind |-> th.kind, client |-> th.client,
                      account |-> th.account, items |-> [x \in rest |-> th.items[x]],
                      base |-> [x \in rest |-> th.base[x]], met |-> th.met]
    BY <1>1, <2>2 DEF Without, Shape
  <2>4. Shape(thread[t])' /\ Placed(thread[t])'
    BY <1>1, <2>3 DEF Shape, Placed, ThreadOK, Answered
  <2>5. /\ thread'[t].pc = "compare" /\ thread'[t].kind = th.kind /\ thread'[t].met = th.met
        /\ DOMAIN thread'[t].items = rest
        /\ \A d \in rest : thread'[t].items[d] = th.items[d] /\ thread'[t].base[d] = th.base[d]
    BY <2>3
  <2>6. Copies(CacheOf[t], thread[t])'
    <3> DEFINE new == thread'[t]  p == CacheOf[t]
    <3>1. ASSUME NEW d \in rest
          PROVE  /\ new.base[d] <= version'[d]
                 /\ keychain'[d] # NIL /\ new.base[d] = version'[d] => new.items[d] = keychain'[d]
                 /\ keychain'[d] # NIL /\ FromKeychain(new) /\ ~new.met =>
                        new.items[d] = keychain'[d] /\ memoryCache'[p][d] = new.items[d]
      <4>1. /\ th.base[d] <= version[d]
            /\ keychain[d] # NIL /\ th.base[d] = version[d] => th.items[d] = keychain[d]
            /\ keychain[d] # NIL /\ FromKeychain(th) /\ ~th.met =>
                    th.items[d] = keychain[d] /\ memoryCache[p][d] = th.items[d]
        BY <1>1 DEF Copies
      <4>2. FromKeychain(new) = FromKeychain(th) /\ new.met = th.met
            /\ new.items[d] = th.items[d] /\ new.base[d] = th.base[d]
        BY <2>5 DEF FromKeychain
      <4>3. keychain'[d] = keychain[d] /\ version'[d] = version[d]
            /\ memoryCache'[p][d] = memoryCache[p][d]
        OBVIOUS
      <4>. QED  BY <4>1, <4>2, <4>3
    <3>. QED  BY <2>5, <3>1 DEF Copies, FromKeychain
  <2>. QED  BY <2>2, <2>4, <2>6, StepKeeps DEF Fits
<1>. QED  BY <1>2, <1>3

LEMMA UnchangedKeeps ==
    ASSUME IInv, NEW t \in Threads, NEW c \in Clients, Unchanged(t, c) PROVE IInv'
<1>1. Kept' /\ Grows /\ begun' \in 0..MaxOps
  BY SharedSame DEF IInv, Unchanged
<1>2. keychain' = keychain /\ version' = version /\ memoryCache' = memoryCache
  BY DEF Unchanged, Unshared
<1>. QED  BY <1>1, <1>2, SavedKeeps DEF Unchanged

LEMMA ChangedKeeps ==
    ASSUME IInv, NEW t \in Threads, NEW c \in Clients, Changed(t, c) PROVE IInv'
<1> DEFINE th == thread[t]
<1>1. Shape(th) /\ Placed(th) /\ Copies(CacheOf[t], th) /\ th.pc = "compare"
      /\ c \in DOMAIN th.items
  BY DEF IInv, Fits, Changed
<1>2. Kept' /\ Grows /\ begun' \in 0..MaxOps
  BY SharedSame DEF IInv, Changed
<1>3. Step(t, [th EXCEPT !.pc = "write", !.client = c])
  BY DEF Changed
<1>4. OthersMeet(t) /\ thread'[t] = [th EXCEPT !.pc = "write", !.client = c]
  BY <1>3, StepMeets
<1>5. thread'[t] = [pc |-> "write", kind |-> th.kind, client |-> c,
                    account |-> th.account, items |-> th.items, base |-> th.base, met |-> th.met]
  BY <1>1, <1>4 DEF Shape
<1>6. Shape(thread[t])' /\ Placed(thread[t])'
  BY <1>1, <1>5 DEF Shape, Placed, ThreadOK, Answered
<1>7. /\ thread'[t].pc = "write" /\ thread'[t].kind = th.kind /\ thread'[t].met = th.met
      /\ thread'[t].items = th.items /\ thread'[t].base = th.base
  BY <1>5
<1>8. Copies(CacheOf[t], thread[t])'
  BY <1>1, <1>7 DEF Copies, FromKeychain, Changed, Unshared
<1>. QED  BY <1>2, <1>4, <1>6, <1>8, StepKeeps DEF Fits

\* What is written, and where.
LEMMA WritesItem ==
    ASSUME IInv, NEW t \in Threads, thread[t].pc = "write"
    PROVE  /\ thread[t].client \in Clients /\ thread[t].client \in DOMAIN thread[t].items
           /\ thread[t].items[thread[t].client] \in Item
           /\ thread[t].account \in Accounts
           /\ thread[t].kind \in Kinds \ {"state", "lookup"}
  BY DEF IInv, Fits, Shape, ThreadOK, Placed, Answered

LEMMA WriteKeeps == ASSUME IInv, NEW t \in Threads, Write(t) PROVE IInv'
<1> DEFINE th == thread[t]  c == th.client  p == CacheOf[t]
           item == Edited(th.kind, th.items[c], th.account)
<1>1. Kept /\ p \in Caches /\ th.pc = "write" /\ begun' \in 0..MaxOps
  BY MetadataAssumption DEF IInv, Write
<1>2. c \in Clients /\ c \in DOMAIN th.items /\ th.items[c] \in Item /\ th.account \in Accounts
      /\ th.kind \in Kinds \ {"state", "lookup"}
  BY <1>1, WritesItem
<1>3. item \in Item
  <2>1. Touches(th.kind, th.items[c], th.account, item)
    BY <1>2, Edits
  <2>. QED  BY <2>1 DEF Touches
<1>4. /\ keychain' = [keychain EXCEPT ![c] = item] /\ version' = [version EXCEPT ![c] = @ + 1]
      /\ past' = [past EXCEPT ![c] = @ \cup {item}] /\ Remembers(p, c, item, version[c] + 1)
      /\ version[c] < MaxWrites /\ Saved(t, th, c)
  BY DEF Write
<1> HIDE DEF item
<1>5. version[c] + 1 \in Counts /\ version[c] < version[c] + 1 /\ version[c] <= version[c] + 1
      /\ version[c] + 1 <= version[c] + 1
  BY <1>1, <1>2, <1>4, MetadataAssumption DEF Kept, Counts
<1>6. /\ keychain' \in [Clients -> Item \cup {NIL}] /\ version' \in [Clients -> Counts]
      /\ past' \in [Clients -> SUBSET Item] /\ item \in past'[c]
      /\ keychain'[c] = item /\ version'[c] = version[c] + 1
      /\ \A d \in Clients \ {c} : keychain'[d] = keychain[d] /\ version'[d] = version[d]
                                  /\ past'[d] = past[d]
      /\ past[c] \subseteq past'[c]
  BY <1>1, <1>2, <1>3, <1>4, <1>5 DEF Kept
<1>7. version[c] \in Counts /\ version[c] # version[c] + 1
  BY <1>1, <1>2, CountsOrder DEF Kept
<1>8. Grows
  BY <1>1, <1>5, <1>6, <1>7, CountsOrder DEF Grows, Kept
<1>9. \A d \in Clients : keychain'[d] # NIL => keychain'[d] \in past'[d]
  BY <1>1, <1>6 DEF Kept
<1>10. Kept'
  BY <1>1, <1>2, <1>4, <1>5, <1>6, <1>8, <1>9, RemembersKeeps
<1>11. \A d \in DOMAIN th.items \ {c} :
            /\ keychain'[d] = keychain[d] /\ version'[d] = version[d]
            /\ memoryCache'[p][d] = memoryCache[p][d]
  <2>1. DOMAIN th.items \subseteq Clients
    BY DEF IInv, Fits, Shape, ThreadOK
  <2>2. \A d \in Clients \ {c} : memoryCache'[p][d] = memoryCache[p][d]
    BY <1>1, <1>2, <1>4 DEF Remembers, Kept
  <2>. QED  BY <1>6, <2>1, <2>2
<1>. QED  BY <1>1, <1>2, <1>4, <1>8, <1>10, <1>11, SavedKeeps

LEMMA WriteFailsKeeps == ASSUME IInv, NEW t \in Threads, WriteFails(t) PROVE IInv'
<1>1. Kept' /\ Grows /\ begun' \in 0..MaxOps
  BY SharedSame DEF IInv, WriteFails
<1>2. keychain' = keychain /\ version' = version /\ memoryCache' = memoryCache
  BY DEF WriteFails, Unshared
<1>3. thread[t].pc = "write" /\ thread[t].client \in DOMAIN thread[t].items
  BY WritesItem DEF WriteFails
<1>. QED  BY <1>1, <1>2, <1>3, SavedKeeps DEF WriteFails

-----------------------------------------------------------------------------
(* The keychain emptied, and the end of a process *)

LEMMA WipeKeeps == ASSUME IInv, Wipe PROVE IInv'
<1>1. Kept /\ begun' \in 0..MaxOps
  BY DEF IInv, Wipe
<1>2. /\ keychain' = [c \in Clients |-> NIL] /\ version' = [c \in Clients |-> version[c] + 1]
      /\ UNCHANGED <<memoryCache, memoryVersion, past>>
      /\ \A c \in Clients : version[c] < MaxWrites
  BY DEF Wipe
<1>3. \A c \in Clients : /\ version[c] \in Counts /\ version[c] + 1 \in Counts
                         /\ version[c] <= version[c] + 1 /\ version[c] # version[c] + 1
  BY <1>1, <1>2, MetadataAssumption DEF Kept, Counts
<1>4. Grows
  BY <1>2, <1>3 DEF Grows
<1>5. \A p \in Caches, c \in Clients : memoryVersion[p][c] <= version[c] + 1
  BY <1>1, <1>3, CountsOrder DEF Kept
<1>6. Kept'
  BY <1>1, <1>2, <1>3, <1>5 DEF Kept
<1>7. ASSUME NEW t \in Threads PROVE Fits(CacheOf[t], thread[t])'
  <2>1. \/ thread'[t] = [thread[t] EXCEPT !.met = TRUE]
        \/ thread'[t] = thread[t] /\ thread[t].pc = "idle"
    BY DEF Wipe
  <2>. QED  BY <1>4, <2>1, OthersFit
<1>. QED  BY <1>1, <1>6, <1>7 DEF IInv, Wipe

LEMMA RestartKeeps == ASSUME IInv, NEW p \in Caches, Restart(p) PROVE IInv'
<1>1. Kept /\ begun' \in 0..MaxOps /\ Grows
  BY SharedGrows DEF IInv, Restart
<1>2. /\ memoryCache' = [memoryCache EXCEPT ![p] = [c \in Clients |-> NIL]]
      /\ memoryVersion' = [memoryVersion EXCEPT ![p] = [c \in Clients |-> 0]]
      /\ UNCHANGED <<keychain, version, past>>
  BY DEF Restart
<1>3. 0 \in Counts /\ \A c \in Clients : 0 <= version[c]
  BY <1>1, MetadataAssumption DEF Kept, Counts
<1>4. Kept'
  BY <1>1, <1>2, <1>3 DEF Kept
<1>5. ASSUME NEW t \in Threads PROVE Fits(CacheOf[t], thread[t])'
  <2>1. CASE CacheOf[t] = p
    <3>1. thread'[t] = Idle
      BY <2>1 DEF Restart
    <3>2. DOMAIN <<>> = {}
      OBVIOUS
    <3>. QED  BY <3>1, <3>2 DEF Fits, Shape, Placed, Copies, ThreadOK, Idle, Kinds
  <2>2. CASE CacheOf[t] # p
    <3>1. thread'[t] = thread[t] /\ memoryCache'[CacheOf[t]] = memoryCache[CacheOf[t]]
      BY <1>1, <1>2, <2>2, MetadataAssumption DEF Restart, Kept
    <3>2. Fits(CacheOf[t], thread[t])
      BY DEF IInv
    <3>3. Shape(thread[t])' /\ Placed(thread[t])'
      BY <3>1, <3>2 DEF Fits, Shape, Placed, ThreadOK, Answered
    <3>4. Copies(CacheOf[t], thread[t])'
      BY <1>2, <3>1, <3>2 DEF Fits, Copies, FromKeychain
    <3>. QED  BY <3>3, <3>4 DEF Fits
  <2>. QED  BY <2>1, <2>2
<1>. QED  BY <1>1, <1>4, <1>5 DEF IInv, Restart

-----------------------------------------------------------------------------
(* The specification *)

LEMMA StutterKeeps == ASSUME IInv, UNCHANGED vars PROVE IInv'
<1>1. Kept'
  BY DEF IInv, vars, Kept
<1>2. ASSUME NEW t \in Threads PROVE Fits(CacheOf[t], thread[t])'
  <2>1. Fits(CacheOf[t], thread[t]) /\ thread' = thread
    BY DEF IInv, vars
  <2>2. Shape(thread[t])' /\ Placed(thread[t])'
    BY <2>1 DEF Fits, Shape, Placed, ThreadOK, Answered
  <2>3. Copies(CacheOf[t], thread[t])'
    BY <2>1 DEF Fits, vars, Copies, FromKeychain
  <2>. QED  BY <2>2, <2>3 DEF Fits
<1>. QED  BY <1>1, <1>2 DEF IInv, vars

LEMMA NextKeeps == IInv /\ [Next]_vars => IInv'
<1>. SUFFICES ASSUME IInv, [Next]_vars PROVE IInv'
  OBVIOUS
<1>1. ASSUME NEW t \in Threads, NEW kind \in Kinds, NEW c \in Clients, NEW a \in Accounts,
             Begin(t, kind, c, a)
      PROVE  IInv'
  BY <1>1, BeginKeeps
<1>2. ASSUME NEW t \in Threads,
             ReadMemory(t) \/ ReadKeychain(t) \/ ReadFails(t) \/ Fill(t) \/ List(t) \/ Replace(t)
      PROVE  IInv'
  BY <1>2, ReadMemoryKeeps, ReadKeychainKeeps, ReadFailsKeeps, FillKeeps, ListKeeps, ReplaceKeeps
<1>3. ASSUME NEW t \in Threads, NEW c \in Clients, Unchanged(t, c) \/ Changed(t, c)
      PROVE  IInv'
  BY <1>3, UnchangedKeeps, ChangedKeeps
<1>4. ASSUME NEW t \in Threads, Write(t) \/ WriteFails(t) PROVE IInv'
  BY <1>4, WriteKeeps, WriteFailsKeeps
<1>5. ASSUME Wipe \/ \E p \in Caches : Restart(p) PROVE IInv'
  BY <1>5, WipeKeeps, RestartKeeps
<1>6. CASE UNCHANGED vars
  BY <1>6, StutterKeeps
<1>. QED  BY <1>1, <1>2, <1>3, <1>4, <1>5, <1>6 DEF Next

LEMMA Inductive == Spec => []IInv
  BY Initially, NextKeeps, PTL DEF Spec

\* The keychain, the memories, the copies the threads edit and their versions keep their types.
THEOREM TypeCorrect == Spec => []TypeOK
<1>1. IInv => TypeOK
  BY DEF IInv, TypeOK, Kept, Fits, Shape
<1>. QED  BY <1>1, Inductive, PTL

\* Neither a failed saveAccountMetadataCacheItem: nor an edit of a copy reaches a memory that
\* other threads read.
THEOREM RemembersWhatWasStored == Spec => []NoPhantom
<1>1. IInv => NoPhantom
  BY DEF IInv, NoPhantom, Kept
<1>. QED  BY <1>1, Inductive, PTL

\* Only a save and the clearing of the keychain change it; the other threads stay where they are.
LEMMA WhoWrites ==
    ASSUME IInv, Next, keychain' # keychain, NEW t \in Threads, thread[t].pc = "write",
           thread'[t].pc # "write"
    PROVE  Write(t)
<1>1. Wipe \/ \E u \in Threads : Write(u)
  BY DEF Next, Begin, ReadMemory, ReadKeychain, ReadFails, Fill, List, Replace, Unchanged,
         Changed, WriteFails, Restart, Unshared
<1>2. Shape(thread[t])
  BY DEF IInv, Fits
<1>3. CASE Wipe
  <2>1. thread'[t] = [thread[t] EXCEPT !.met = TRUE]
    BY <1>3 DEF Wipe
  <2>. QED  BY <1>2, <2>1 DEF Shape
<1>4. ASSUME NEW u \in Threads, Write(u), u # t PROVE FALSE
  <2>1. OthersMeet(u)
    BY <1>4, StepMeets DEF Write, Saved, Finished
  <2>2. \E b : thread'[t] = [thread[t] EXCEPT !.met = b]
    BY <1>4, <2>1 DEF OthersMeet
  <2>. QED  BY <1>2, <2>2 DEF Shape
<1>. QED  BY <1>1, <1>3, <1>4

\* A save made from the item that is in the keychain leaves the other accounts alone, in
\* whatever process and by whatever way its copy came.
THEOREM WritesKeepOthers == Spec => OthersKept
<1> DEFINE Keep ==
      \A t \in Threads, c \in Clients :
         /\ Writes(t, c) /\ keychain[c] # NIL /\ keychain'[c] # keychain[c]
         /\ thread[t].base[c] = version[c]
         => KeepsOthers(t, c)
<1>1. ASSUME IInv, Next, NEW t \in Threads, NEW c \in Clients, Writes(t, c), keychain[c] # NIL,
             keychain'[c] # keychain[c], thread[t].base[c] = version[c]
      PROVE  KeepsOthers(t, c)
  <2> DEFINE th == thread[t]
  <2>1. th.pc = "write" /\ th.client = c /\ Write(t)
    BY <1>1, WhoWrites DEF Writes
  <2>2. c \in DOMAIN th.items /\ th.items[c] \in Item /\ th.account \in Accounts
        /\ th.kind \in Kinds \ {"state", "lookup"}
    BY <1>1, <2>1, WritesItem
  <2>3. th.items[c] = keychain[c]
    BY <1>1, <2>2 DEF IInv, Fits, Copies
  <2>4. keychain'[c] = Edited(th.kind, keychain[c], th.account)
    BY <1>1, <2>1, <2>3 DEF Write, IInv, Kept
  <2>5. keychain[c] \in Item
    BY <2>2, <2>3
  <2>6. Touches(th.kind, keychain[c], th.account, keychain'[c])
    BY <2>2, <2>4, <2>5, Edits
  <2>. QED  BY <2>6 DEF KeepsOthers, Touches
<1>2. IInv /\ [Next]_vars => [Keep]_vars
  BY <1>1
<1>3. Spec => [][Keep]_vars
  <2> HIDE DEF Keep
  <2>. QED  BY <1>2, Inductive, PTL DEF Spec
<1>. QED  BY <1>3 DEF OthersKept

\* setSignInState and removeAccountMetadata that report success have changed the keychain,
\* unless another thread of the process or another process came in between; the comparison
\* with the memory skips a save only when there is nothing to change.
THEOREM UpdatesAreInEffect == Spec => Effective
<1> DEFINE Ends == \A t \in Threads : LET th == thread[t] IN
         \A c \in DOMAIN th.items :
            /\ Unchanged(t, c) \/ Write(t)
            /\ c \notin DOMAIN thread'[t].items
            /\ ~th.met
            => InEffect(th, c)
<1>1. ASSUME IInv, NEW t \in Threads, NEW c \in DOMAIN thread[t].items,
             Unchanged(t, c) \/ Write(t), c \notin DOMAIN thread'[t].items, ~thread[t].met
      PROVE  InEffect(thread[t], c)
  <2> DEFINE th == thread[t]
  <2>1. Shape(th) /\ Placed(th) /\ Copies(CacheOf[t], th) /\ Kept /\ th.pc \in {"compare", "write"}
    BY <1>1 DEF IInv, Fits, Unchanged, Write
  <2>2. c \in Clients /\ th.items[c] \in Item /\ th.account \in Accounts
        /\ th.kind \in Kinds \ {"state", "lookup"}
    BY <2>1 DEF Shape, ThreadOK, Placed, Answered
  <2>3. CASE ~FromKeychain(th)
    BY <2>3 DEF FromKeychain, InEffect
  <2>4. CASE FromKeychain(th)
    <3>1. keychain'[c] # NIL => keychain'[c] = Edited(th.kind, th.items[c], th.account)
      <4>1. CASE Unchanged(t, c)
        <5>1. Edited(th.kind, th.items[c], th.account) = memoryCache[CacheOf[t]][c]
          BY <2>4, <4>1 DEF Unchanged, NothingToSave, FromKeychain
        <5>2. keychain[c] # NIL => /\ th.items[c] = keychain[c]
                                  /\ memoryCache[CacheOf[t]][c] = th.items[c]
          BY <1>1, <2>1, <2>4 DEF Copies
        <5>. QED  BY <4>1, <5>1, <5>2 DEF Unchanged, Unshared
      <4>2. CASE Write(t)
        <5>1. th.client = c
          <6>1. ASSUME th.client # c PROVE FALSE
            <7>1. DOMAIN th.items # {th.client}
              BY <1>1, <6>1
            <7>2. thread'[t] = Without(th, th.client)
              BY <4>2, <7>1, StepMeets DEF Write, Saved
            <7>3. thread'[t].items = [x \in DOMAIN th.items \ {th.client} |-> th.items[x]]
              BY <2>1, <7>2 DEF Without, Shape
            <7>. QED  BY <1>1, <6>1, <7>3
          <6>. QED  BY <6>1
        <5>. QED  BY <2>1, <2>2, <4>2, <5>1 DEF Write, Kept
      <4>. QED  BY <1>1, <4>1, <4>2
    <3>2. keychain'[c] # NIL => Touches(th.kind, th.items[c], th.account, keychain'[c])
      BY <2>2, <3>1, Edits
    <3>. QED  BY <2>4, <3>2 DEF InEffect, FromKeychain, Touches
  <2>. QED  BY <2>3, <2>4
<1>2. IInv /\ [Next]_vars => [Ends]_vars
  BY <1>1
<1>3. Spec => [][Ends]_vars
  <2> HIDE DEF Ends
  <2>. QED  BY <1>2, Inductive, PTL DEF Spec
<1>. QED  BY <1>3 DEF Effective
=============================================================================
