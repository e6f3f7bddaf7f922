-------------------------- MODULE AccountMetadata --------------------------
(***************************************************************************)
(* The account metadata of the clients that share a keychain group         *)
(* (IdentityCore/src/cache/metadata): for each client one item, with the   *)
(* sign-in state and authority mapping of each account and the principal   *)
(* account.  An MSIDMetadataCache keeps a memory copy of the items.        *)
(* Several caches stand over one keychain: those of other processes, and   *)
(* the one the broker response handler makes for itself.                   *)
(*                                                                         *)
(* The queue of a cache is serial: each of its blocks is one step, and     *)
(* what takes two blocks takes two steps.  The block a read leaves behind  *)
(* to fill the memory is put on the queue asynchronously; everything put   *)
(* there later waits for it, so it runs in effect when it is put there,    *)
(* which is a step of the reader (Fill).  The keychain locks one access.   *)
(*                                                                         *)
(* An authority mapping is reduced to whether the request URL is mapped.   *)
(***************************************************************************)
EXTENDS Naturals, FiniteSets

CONSTANTS
    Caches,     \* instances of MSIDMetadataCache
    Threads,
    CacheOf,    \* CacheOf[t] : the cache thread t works on
    Clients, Accounts,
    NIL,        \* no item, no metadata, no account
    Stored,     \* items the keychain may hold at the start, for each client
    MaxOps,     \* bound: operations begun
    MaxWrites   \* bound: changes of the keychain

Meta == [state : {"in"}, mapped : BOOLEAN] \cup [state : {"out"}, mapped : {FALSE}]
Item == [meta : [Accounts -> Meta \cup {NIL}], principal : Accounts \cup {NIL}]
NewItem == [meta |-> [a \in Accounts |-> NIL], principal |-> NIL]

ASSUME MetadataAssumption ==
    /\ CacheOf \in [Threads -> Caches]
    /\ Stored \subseteq [Clients -> Item \cup {NIL}]
    /\ NIL \notin Accounts /\ NIL \notin Meta /\ NIL \notin Item
    /\ MaxOps \in Nat /\ MaxWrites \in Nat

VARIABLES
    keychain,       \* the items in the keychain
    memoryCache,    \* memoryCache[p][c] : what cache p remembers of client c
    thread,         \* what each thread is doing
    begun,          \* history: operations begun so far
    version,        \* history: version[c], changes of the item of c so far
    memoryVersion,  \* history: the version of the item a cache remembers
    past            \* history: the items c has had in the keychain

vars == <<keychain, memoryCache, thread, begun, version, memoryVersion, past>>

\* A step that is not of this cache's memory, not of the keychain.
Unshared == <<keychain, memoryCache, version, memoryVersion, past>>

(***************************************************************************)
(* A thread in the middle of an operation holds the copies it edits (items *)
(* of the clients still to save), their versions and the client it is      *)
(* saving.  met: another thread has changed the keychain or this cache     *)
(* since the operation began (history).                                    *)
(***************************************************************************)
Kinds == {"sign in", "sign out", "map", "principal", "remove", "state", "lookup"}

Idle == [pc |-> "idle", kind |-> "state", client |-> NIL, account |-> NIL,
         items |-> <<>>, base |-> <<>>, met |-> FALSE]

Counts == 0..MaxWrites

ThreadOK(th) ==
    /\ th.pc \in {"idle", "read", "fill", "list", "replace", "compare", "write"}
    /\ th.kind \in Kinds
    /\ th.client \in Clients \cup {NIL} /\ th.account \in Accounts \cup {NIL}
    /\ DOMAIN th.items \subseteq Clients /\ DOMAIN th.base = DOMAIN th.items
    /\ \A c \in DOMAIN th.items : th.items[c] \in Item \cup {NIL} /\ th.base[c] \in Counts
    /\ th.met \in BOOLEAN

TypeOK ==
    /\ keychain \in [Clients -> Item \cup {NIL}]
    /\ memoryCache \in [Caches -> [Clients -> Item \cup {NIL}]]
    /\ \A t \in Threads : ThreadOK(thread[t])
    /\ begun \in 0..MaxOps
    /\ version \in [Clients -> Counts]
    /\ memoryVersion \in [Caches -> [Clients -> Counts]]
    /\ past \in [Clients -> SUBSET Item]

Init ==
    /\ keychain \in Stored
    /\ memoryCache = [p \in Caches |-> [c \in Clients |-> NIL]]
    /\ thread = [t \in Threads |-> Idle]
    /\ begun = 0
    /\ version = [c \in Clients |-> 0]
    /\ memoryVersion = [p \in Caches |-> [c \in Clients |-> 0]]
    /\ past = [c \in Clients |-> {keychain[c]} \ {NIL}]

-----------------------------------------------------------------------------
(***************************************************************************)
(* The accessor's edits of a copy.                                         *)
(***************************************************************************)
\* setCachedURL marks the account signed in, whatever it was.
Mapped(item, a) == [item EXCEPT !.meta[a] = [state |-> "in", mapped |-> TRUE]]

\* A signed-in state is set on the metadata there is, or on new metadata.
SignedIn(item, a) ==
    [item EXCEPT !.meta[a] =
        IF @ = NIL THEN [state |-> "in", mapped |-> FALSE] ELSE [@ EXCEPT !.state = "in"]]

\* Deviation: a sign-out keeps the mapping.
SignedOutMapped(item, a) ==
    [item EXCEPT !.meta[a] =
        IF @ = NIL THEN [state |-> "out", mapped |-> FALSE] ELSE [@ EXCEPT !.state = "out"]]

\* Deviation: a sign-out begins a new item.
SignedOutAlone(item, a) == [NewItem EXCEPT !.meta[a] = [state |-> "out", mapped |-> FALSE]]

\* A sign-out replaces the metadata of the account.
SignedOut(item, a) == [item EXCEPT !.meta[a] = [state |-> "out", mapped |-> FALSE]]

Edited(kind, item, a) ==
    CASE kind = "sign in"   -> SignedIn(item, a)
      [] kind = "sign out"  -> SignedOut(item, a)
      [] kind = "map"       -> Mapped(item, a)
      [] kind = "principal" -> [item EXCEPT !.principal = a]
      [] kind = "remove"    -> [item EXCEPT !.meta[a] = NIL]

-----------------------------------------------------------------------------
\* Thread t goes on as th; the others met a change of the keychain or of the
\* memory of t's cache if there was one.
Step(t, th) ==
    thread' = [u \in Threads |->
        IF u = t THEN th
        ELSE IF thread[u].pc = "idle" THEN thread[u]
        ELSE [thread[u] EXCEPT !.met =
                 \/ @
                 \/ keychain' # keychain
                 \/ memoryCache'[CacheOf[u]] # memoryCache[CacheOf[u]]]]

Remembers(p, c, item, v) ==
    /\ memoryCache' = [memoryCache EXCEPT ![p][c] = item]
    /\ memoryVersion' = [memoryVersion EXCEPT ![p][c] = v]

Finished(t) == Step(t, Idle)

\* Deviation: the sign-in state is updated from the memory.
SkipsMemoryForReads(kind) == kind = "state"

\* The operations on the sign-in state do not read the memory.  (The
\* principal account has a switch for this, skipMemoryCacheForAccountMetadata,
\* which is off.)
SkipsMemory(kind) == kind \in {"sign in", "sign out", "state"}

Begin(t, kind, c, a) ==
    /\ thread[t].pc = "idle" /\ begun < MaxOps
    /\ begun' = begun + 1
    /\ UNCHANGED Unshared
    /\ Step(t, [Idle EXCEPT !.pc = IF kind = "remove" THEN "list" ELSE "read",
                            !.kind = kind, !.client = c, !.account = a])

\* The read-only operations have their answer; the others take what they
\* read, or a new item, to the comparison.
Holding(th, item, v, pc) ==
    [th EXCEPT !.pc = pc,
               !.items = [x \in {th.client} |-> item],
               !.base = [x \in {th.client} |-> v]]

Answered(th) == th.kind \in {"state", "lookup"}

\* The item is remembered, and was not skipped.
ReadMemory(t) ==
    LET th == thread[t]
        item == memoryCache[CacheOf[t]][th.client] IN
    /\ th.pc = "read"
    /\ ~SkipsMemory(th.kind) /\ item # NIL
    /\ UNCHANGED <<Unshared, begun>>
    /\ IF Answered(th) THEN Finished(t)
       ELSE Step(t, Holding(th, item, memoryVersion[CacheOf[t]][th.client], "compare"))

\* The item is read from the keychain; if there is one, it goes to the
\* memory later.  Without one the memory keeps what it has.
ReadKeychain(t) ==
    LET th == thread[t]
        item == keychain[th.client] IN
    /\ th.pc = "read"
    /\ SkipsMemory(th.kind) \/ memoryCache[CacheOf[t]][th.client] = NIL
    /\ UNCHANGED <<Unshared, begun>>
    /\ IF item # NIL THEN Step(t, Holding(th, item, version[th.client], "fill"))
       ELSE IF Answered(th) THEN Finished(t)
       ELSE Step(t, Holding(th, NewItem, version[th.client], "compare"))

\* Reading fails, and the operation with it.
ReadFails(t) ==
    /\ thread[t].pc \in {"read", "list"}
    /\ UNCHANGED <<Unshared, begun>>
    /\ Finished(t)

Fill(t) ==
    LET th == thread[t]  c == th.client IN
    /\ th.pc = "fill"
    /\ Remembers(CacheOf[t], c, th.items[c], th.base[c])
    /\ UNCHANGED <<keychain, begun, version, past>>
    /\ IF Answered(th) THEN Finished(t) ELSE Step(t, [th EXCEPT !.pc = "compare"])

\* allAccountMetadataCacheItemsWithContext: all items, and in a block of its
\* own a new memory with nothing but them.
List(t) ==
    LET th == thread[t]
        found == {c \in Clients : keychain[c] # NIL} IN
    /\ th.pc = "list"
    /\ UNCHANGED <<Unshared, begun>>
    /\ Step(t, [th EXCEPT !.pc = "replace", !.items = [c \in found |-> keychain[c]],
                                            !.base = [c \in found |-> version[c]]])

Replace(t) ==
    LET th == thread[t]  p == CacheOf[t]  found == DOMAIN th.items IN
    /\ th.pc = "replace"
    /\ memoryCache' = [memoryCache EXCEPT ![p] =
            [c \in Clients |-> IF c \in found THEN th.items[c] ELSE NIL]]
    /\ memoryVersion' = [memoryVersion EXCEPT ![p] =
            [c \in Clients |-> IF c \in found THEN th.base[c] ELSE 0]]
    /\ UNCHANGED <<keychain, begun, version, past>>
    /\ IF found = {} THEN Finished(t) ELSE Step(t, [th EXCEPT !.pc = "compare"])

\* The clients of th other than c are still to be saved.
Without(th, c) ==
    LET rest == DOMAIN th.items \ {c} IN
    [th EXCEPT !.pc = "compare", !.items = [x \in rest |-> th.items[x]],
                                 !.base = [x \in rest |-> th.base[x]]]

\* After the save of client c, which succeeded or not.
Saved(t, th, c) ==
    IF DOMAIN th.items = {c} THEN Finished(t) ELSE Step(t, Without(th, c))

\* An item is not saved when the accessor sees that the account is mapped
\* already, or when the memory has an equal item.
NothingToSave(t, c) ==
    LET th == thread[t]  a == th.account IN
    \/ th.kind = "map" /\ th.items[c].meta[a] = [state |-> "in", mapped |-> TRUE]
    \/ Edited(th.kind, th.items[c], a) = memoryCache[CacheOf[t]][c]

Unchanged(t, c) ==
    LET th == thread[t] IN
    /\ th.pc = "compare" /\ c \in DOMAIN th.items
    /\ NothingToSave(t, c)
    /\ UNCHANGED <<Unshared, begun>>
    /\ Saved(t, th, c)

Changed(t, c) ==
    LET th == thread[t] IN
    /\ th.pc = "compare" /\ c \in DOMAIN th.items
    /\ ~NothingToSave(t, c)
    /\ UNCHANGED <<Unshared, begun>>
    /\ Step(t, [th EXCEPT !.pc = "write", !.client = c])

Write(t) ==
    LET th == thread[t]  c == th.client
        item == Edited(th.kind, th.items[c], th.account) IN
    /\ th.pc = "write" /\ version[c] < MaxWrites
    /\ keychain' = [keychain EXCEPT ![c] = item]
    /\ version' = [version EXCEPT ![c] = @ + 1]
    /\ past' = [past EXCEPT ![c] = @ \cup {item}]
    /\ Remembers(CacheOf[t], c, item, version[c] + 1)
    /\ UNCHANGED begun
    /\ Saved(t, th, c)

\* Deviation: the memory is updated although the keychain was not.
WriteFailsRemembered(t) ==
    LET th == thread[t]  c == th.client IN
    /\ th.pc = "write"
    /\ Remembers(CacheOf[t], c, Edited(th.kind, th.items[c], th.account), th.base[c])
    /\ UNCHANGED <<keychain, begun, version, past>>
    /\ Saved(t, th, c)

WriteFails(t) ==
    LET th == thread[t]  c == th.client IN
    /\ th.pc = "write"
    /\ UNCHANGED <<Unshared, begun>>
    /\ Saved(t, th, c)

\* clearCacheForAllAccounts empties the keychain and knows of no memory.
Wipe ==
    /\ \E c \in Clients : keychain[c] # NIL
    /\ \A c \in Clients : version[c] < MaxWrites
    /\ keychain' = [c \in Clients |-> NIL]
    /\ version' = [c \in Clients |-> version[c] + 1]
    /\ thread' = [t \in Threads |->
            IF thread[t].pc = "idle" THEN thread[t] ELSE [thread[t] EXCEPT !.met = TRUE]]
    /\ UNCHANGED <<memoryCache, begun, memoryVersion, past>>

\* A process ends, and its cache with it.
Restart(p) ==
    /\ memoryCache' = [memoryCache EXCEPT ![p] = [c \in Clients |-> NIL]]
    /\ memoryVersion' = [memoryVersion EXCEPT ![p] = [c \in Clients |-> 0]]
    /\ thread' = [t \in Threads |-> IF CacheOf[t] = p THEN Idle ELSE thread[t]]
    /\ UNCHANGED <<keychain, begun, version, past>>

Next ==
    \/ \E t \in Threads :
        \/ \E kind \in Kinds, c \in Clients, a \in Accounts : Begin(t, kind, c, a)
        \/ ReadMemory(t) \/ ReadKeychain(t) \/ ReadFails(t) \/ Fill(t)
        \/ List(t) \/ Replace(t)
        \/ \E c \in Clients : Unchanged(t, c) \/ Changed(t, c)
        \/ Write(t) \/ WriteFails(t)
    \/ Wipe
    \/ \E p \in Caches : Restart(p)

Spec == Init /\ [][Next]_vars

-----------------------------------------------------------------------------
(***************************************************************************)
(* What a cache remembers was in the keychain once: neither a failed save  *)
(* nor an edit of a copy reaches the memory.                               *)
(***************************************************************************)
NoPhantom ==
    \A p \in Caches, c \in Clients :
        memoryCache[p][c] # NIL => memoryCache[p][c] \in past[c]

(***************************************************************************)
(* A write that began with the item that is in the keychain keeps what it  *)
(* holds about other accounts, and the principal account unless that is    *)
(* what it sets: an update is lost only to one that began before it, or    *)
(* that began with an older memory.                                        *)
(***************************************************************************)
Writes(t, c) == thread[t].pc = "write" /\ thread[t].client = c /\ thread'[t].pc # "write"

KeepsOthers(t, c) ==
    LET th == thread[t] IN
    /\ \A a \in Accounts \ {th.account} : keychain'[c].meta[a] = keychain[c].meta[a]
    /\ th.kind = "principal" \/ keychain'[c].principal = keychain[c].principal

OthersKept ==
    [][\A t \in Threads, c \in Clients :
         /\ Writes(t, c) /\ keychain[c] # NIL /\ keychain'[c] # keychain[c]
         /\ thread[t].base[c] = version[c]
         => KeepsOthers(t, c)]_vars

(***************************************************************************)
(* An update of the sign-in state, or a removal, that reports success and  *)
(* during which nobody else changed the keychain or this cache, is in the  *)
(* keychain when it returns.  (A cache that remembers an item the keychain *)
(* has lost, to a Wipe, may take the update for one made already.)         *)
(***************************************************************************)
State(item, a) == IF item.meta[a] = NIL THEN "unknown" ELSE item.meta[a].state

InEffect(th, c) ==
    keychain'[c] # NIL =>
        CASE th.kind = "sign in"  -> State(keychain'[c], th.account) = "in"
          [] th.kind = "sign out" -> State(keychain'[c], th.account) = "out"
          [] th.kind = "remove"   -> State(keychain'[c], th.account) = "unknown"
          [] OTHER -> TRUE

Effective ==
    [][\A t \in Threads : LET th == thread[t] IN
         \A c \in DOMAIN th.items :
            /\ Unchanged(t, c) \/ Write(t)
            /\ c \notin DOMAIN thread'[t].items
            /\ ~th.met
            => InEffect(th, c)]_vars
=============================================================================
