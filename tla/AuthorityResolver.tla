------------------------- MODULE AuthorityResolver --------------------------
(***************************************************************************)
(* MSIDAadAuthorityResolver and MSIDAadAuthorityCache: resolving an AAD    *)
(* authority by instance discovery.                                        *)
(*                                                                         *)
(* A caller whose environment is in the cache is answered at once, on its  *)
(* own thread.  The others put a block on a serial queue; the block looks  *)
(* at the cache again, sends a discovery request and holds the queue (a    *)
(* semaphore) until the request has been answered and the caller's         *)
(* completion block has run.  The cache is an MSIDCache: each read and each*)
(* write is atomic, and storing the metadata takes one write per alias.    *)
(*                                                                         *)
(* An operator whose comment begins with "Deviation" is not part of the    *)
(* model: it says how a likely mistake in the code would read, and is used *)
(* to see that the properties tell the two apart.                          *)
(***************************************************************************)
EXTENDS Integers, Sequences, FiniteSets, SequencesExt

CONSTANTS
    Callers,       \* threads that resolve authorities
    Environments,  \* host names
    Metadata,      \* the lists of entries a discovery response may carry
    NIL            \* nil

\* An entry of the metadata, which may lack the preferred hosts, and
\* MSIDAadAuthorityCacheRecord: invalid_instance is cached with its error.
Entry       == [networkHost : Environments \cup {NIL},
                cacheHost : Environments \cup {NIL}, aliases : Seq(Environments)]
ValidRecord(e) == [validated |-> TRUE, error |-> FALSE, networkHost |-> e.networkHost,
                   cacheHost |-> e.cacheHost, aliases |-> e.aliases]
DefaultRecord(env) == [validated |-> TRUE, error |-> FALSE, networkHost |-> env,
                       cacheHost |-> env, aliases |-> <<>>]
InvalidRecord == [validated |-> FALSE, error |-> TRUE, networkHost |-> NIL,
                  cacheHost |-> NIL, aliases |-> <<>>]

Records == (UNION {{ValidRecord(m[i]) : i \in DOMAIN m} : m \in Metadata})
           \cup {DefaultRecord(env) : env \in Environments} \cup {InvalidRecord}

\* What the completion block receives.
Results == [endpoint : BOOLEAN, validated : BOOLEAN, error : BOOLEAN]

ASSUME ResolverAssumption ==
    /\ \A m \in Metadata : m \in Seq(Entry)
    /\ NIL \notin Environments \cup Callers \cup Records

VARIABLES
    cache,     \* environment -> record, NIL where there is none
    cloud,     \* allCloudNetworkEnvironments
    queue,     \* the blocks waiting on s_aadValidationQueue
    block,     \* the block that holds the queue: its caller and where it is
    todo,      \* the entries processImpl still has to store, with the aliases left of each
    pc,        \* caller -> "idle", "waiting", "done"
    asked,     \* caller -> the environment and the validate flag it passed
    result,    \* caller -> what its completion block received
    settled,   \* environments whose discovery was answered (history)
    vouched    \* environments the server ever accepted (history)

history == <<settled, vouched>>
vars == <<cache, cloud, queue, block, todo, pc, asked, result, history>>

Idle == [caller |-> NIL, at |-> "free"]

Init ==
    /\ cache = [env \in Environments |-> NIL]
    /\ cloud = {} /\ queue = <<>> /\ block = Idle /\ todo = <<>>
    /\ pc = [c \in Callers |-> "idle"]
    /\ asked = [c \in Callers |-> NIL]
    /\ result = [c \in Callers |-> NIL]
    /\ settled = {} /\ vouched = {}

Complete(c, endpoint, validated, error) ==
    /\ pc' = [pc EXCEPT ![c] = "done"]
    /\ result' = [result EXCEPT ![c] =
           [endpoint |-> endpoint, validated |-> validated, error |-> error]]

HandleRecord(c, rec) == Complete(c, TRUE, rec.validated, rec.error)

\* The block of caller c goes on at the given place.
At(c, place) == block' = [caller |-> c, at |-> place]

-----------------------------------------------------------------------------
\* resolveAuthority:...: the cache has the environment.
ResolveFromCache(c, env, validate) ==
    /\ pc[c] \in {"idle", "done"} /\ cache[env] # NIL
    /\ asked' = [asked EXCEPT ![c] = [env |-> env, validate |-> validate]]
    /\ HandleRecord(c, cache[env])
    /\ UNCHANGED <<cache, cloud, queue, block, todo, history>>

\* ... or a block is put on the serial queue.
ResolveLater(c, env, validate) ==
    /\ pc[c] \in {"idle", "done"} /\ cache[env] = NIL
    /\ asked' = [asked EXCEPT ![c] = [env |-> env, validate |-> validate]]
    /\ queue' = Append(queue, [caller |-> c, env |-> env, validate |-> validate])
    /\ pc' = [pc EXCEPT ![c] = "waiting"]
    /\ result' = [result EXCEPT ![c] = NIL]
    /\ UNCHANGED <<cache, cloud, block, todo, history>>

StartBlock ==
    /\ block = Idle /\ queue # <<>>
    /\ At(Head(queue).caller, "recheck")
    /\ queue' = Tail(queue)
    /\ UNCHANGED <<cache, cloud, todo, pc, asked, result, history>>

Env == asked[block.caller].env

\* sendDiscoverRequestWithAuthority:...: looks at the cache again.
RecheckHit ==
    /\ block.at = "recheck" /\ cache[Env] # NIL
    /\ HandleRecord(block.caller, cache[Env])
    /\ At(block.caller, "signal")
    /\ UNCHANGED <<cache, cloud, queue, todo, asked, history>>

\* Deviation: without the second look at the cache.
SendDiscoveryAnyway ==
    /\ block.at = "recheck"
    /\ At(block.caller, "sent")
    /\ UNCHANGED <<cache, cloud, queue, todo, pc, asked, result, history>>

SendDiscovery ==
    /\ block.at = "recheck" /\ cache[Env] = NIL
    /\ At(block.caller, "sent")
    /\ UNCHANGED <<cache, cloud, queue, todo, pc, asked, result, history>>

\* Deviation: any other failure is remembered like a host missing from the
\* metadata.
DiscoveryFailsCached(invalidInstance) ==
    /\ block.at = "sent"
    /\ cache' = [cache EXCEPT ![Env] =
           IF invalidInstance THEN InvalidRecord ELSE DefaultRecord(Env)]
    /\ settled' = IF invalidInstance THEN settled \cup {Env} ELSE settled
    /\ LET validate == asked[block.caller].validate
       IN Complete(block.caller, ~ validate, FALSE, validate)
    /\ At(block.caller, "signal")
    /\ UNCHANGED <<cloud, queue, todo, asked, vouched>>

\* The request failed.  Only invalid_instance is remembered.
DiscoveryFails(invalidInstance) ==
    /\ block.at = "sent"
    /\ cache' = IF invalidInstance THEN [cache EXCEPT ![Env] = InvalidRecord] ELSE cache
    /\ settled' = IF invalidInstance THEN settled \cup {Env} ELSE settled
    /\ LET validate == asked[block.caller].validate
       IN Complete(block.caller, ~ validate, FALSE, validate)
    /\ At(block.caller, "signal")
    /\ UNCHANGED <<cloud, queue, todo, asked, vouched>>

\* Deviation: malformed metadata is asked for again, without a limit.
MetadataMalformedRetried ==
    /\ block.at = "sent"
    /\ At(block.caller, "recheck")
    /\ UNCHANGED <<cache, cloud, queue, todo, pc, asked, result, history>>

\* processImpl checks every entry before it stores anything.
MetadataMalformed ==
    /\ block.at = "sent"
    /\ Complete(block.caller, FALSE, FALSE, TRUE)
    /\ At(block.caller, "signal")
    /\ UNCHANGED <<cache, cloud, queue, todo, asked, history>>

\* processImpl on well-formed metadata: the cloud environments are replaced,
\* then there is a write for each alias of each entry, with the entry's record.
Writes(m) == [i \in DOMAIN m |-> [left |-> m[i].aliases, rec |-> ValidRecord(m[i])]]

NetworkHosts(m) == {m[i].networkHost : i \in DOMAIN m} \ {NIL}

MetadataArrives(m) ==
    /\ block.at = "sent"
    /\ cloud' = NetworkHosts(m)
    /\ todo' = Writes(m)
    /\ settled' = settled \cup {Env}
    /\ vouched' = vouched \cup {Env} \cup UNION {ToSet(m[i].aliases) : i \in DOMAIN m}
    /\ At(block.caller, "store")
    /\ UNCHANGED <<cache, queue, pc, asked, result>>

StoreAlias ==
    /\ block.at = "store" /\ todo # <<>> /\ todo[1].left # <<>>
    /\ cache' = [cache EXCEPT ![Head(todo[1].left)] = todo[1].rec]
    /\ todo' = [todo EXCEPT ![1].left = Tail(@)]
    /\ UNCHANGED <<cloud, queue, block, pc, asked, result, history>>

\* The entry's aliases are stored, and the next entry follows.
EntryStored ==
    /\ block.at = "store" /\ todo # <<>> /\ todo[1].left = <<>>
    /\ todo' = Tail(todo)
    /\ UNCHANGED <<cache, cloud, queue, block, pc, asked, result, history>>

\* Deviation: the authority's record is written whether or not it is missing.
StoreOwnAlways ==
    /\ block.at = "store" /\ todo = <<>>
    /\ cache' = [cache EXCEPT ![Env] = DefaultRecord(Env)]
    /\ Complete(block.caller, TRUE, TRUE, FALSE)
    /\ At(block.caller, "signal")
    /\ UNCHANGED <<cloud, queue, todo, asked, history>>

\* The authority may be missing from the metadata.
StoreOwn ==
    /\ block.at = "store" /\ todo = <<>>
    /\ cache' = IF cache[Env] = NIL THEN [cache EXCEPT ![Env] = DefaultRecord(Env)]
                ELSE cache
    /\ Complete(block.caller, TRUE, TRUE, FALSE)
    /\ At(block.caller, "signal")
    /\ UNCHANGED <<cloud, queue, todo, asked, history>>

\* dispatch_semaphore_signal, after the completion block has returned.
Signal ==
    /\ block.at = "signal"
    /\ block' = Idle
    /\ UNCHANGED <<cache, cloud, queue, todo, pc, asked, result, history>>

Resolve(c) == \E env \in Environments, validate \in BOOLEAN :
    ResolveFromCache(c, env, validate) \/ ResolveLater(c, env, validate)

Block ==
    \/ StartBlock \/ RecheckHit \/ SendDiscovery
    \/ DiscoveryFails(TRUE) \/ DiscoveryFails(FALSE)
    \/ MetadataMalformed \/ (\E m \in Metadata : MetadataArrives(m))
    \/ StoreAlias \/ EntryStored \/ StoreOwn \/ Signal

Next == Block \/ \E c \in Callers : Resolve(c)

\* The queue runs its blocks and every HTTP request is answered or times out.
Spec == Init /\ [][Next]_vars /\ WF_vars(Block)

-----------------------------------------------------------------------------
\* cacheAliasesForAuthorityImpl: the order of cache lookups.
Preferred(env) ==
    LET rec == cache[env]
    IN IF rec = NIL \/ rec.cacheHost \in {NIL, env} THEN <<env>>
       ELSE <<rec.cacheHost, env>>

\* The loop over the aliases, which continues at those of a set.
Others(aliases, skipped) ==
    LET upTo[i \in 0..Len(aliases)] ==
            IF i = 0 THEN <<>>
            ELSE IF aliases[i] \in skipped THEN upTo[i - 1]
            ELSE Append(upTo[i - 1], aliases[i])
    IN upTo[Len(aliases)]

\* Deviation: the cache host is not left out of the aliases.
AliasesForAuthorityTwice(env) ==
    IF cache[env] = NIL THEN <<env>>
    ELSE Preferred(env) \o Others(cache[env].aliases, {env})

AliasesForAuthority(env) ==
    IF cache[env] = NIL THEN <<env>>
    ELSE Preferred(env) \o Others(cache[env].aliases, {env, cache[env].cacheHost})

\* cacheAliasesForEnvironmentImpl.
AliasesForEnvironment(env) ==
    IF cache[env] = NIL THEN <<env>>
    ELSE Preferred(env) \o Others(cache[env].aliases, {env})

-----------------------------------------------------------------------------
Questions == [env : Environments, validate : BOOLEAN]

TypeOK ==
    /\ cache \in [Environments -> Records \cup {NIL}]
    /\ cloud \subseteq Environments
    /\ queue \in Seq([caller : Callers, env : Environments, validate : BOOLEAN])
    /\ block = Idle \/ block \in [caller : Callers,
                                  at : {"recheck", "sent", "store", "signal"}]
    /\ todo \in Seq([left : Seq(Environments), rec : Records])
    /\ pc \in [Callers -> {"idle", "waiting", "done"}]
    /\ asked \in [Callers -> Questions \cup {NIL}]
    /\ result \in [Callers -> Results \cup {NIL}]
    /\ settled \subseteq Environments /\ vouched \subseteq Environments

\* The same authority is not asked about twice: once the server has accepted an
\* environment or called it an invalid instance, no discovery request is sent
\* for it, however many callers were already waiting in the queue (the purpose
\* of s_aadValidationQueue and of the second look at the cache).
NoRepeatedDiscovery == [][SendDiscovery => Env \notin settled]_vars

\* Only an environment the server accepted, by itself or as an alias, is ever
\* reported as validated (handleRecord:, processMetadata:).
NoFalseValidation ==
    \A c \in Callers :
        result[c] # NIL /\ result[c].validated => asked[c].env \in vouched

\* Between two updates the aliases of a record share it, so the token cache
\* looks under the same names whichever of them it starts from (processImpl
\* stores the aliases one by one while other threads read).
AliasesAgree ==
    block.at # "store" =>
        \A env \in Environments : cache[env] # NIL =>
            \A a \in ToSet(cache[env].aliases) : cache[a] = cache[env]

\* No authority is looked up twice, the developer's own one is looked up, and
\* the lookup by environment covers the same hosts, whatever responses the
\* records come from (cacheAliasesForAuthorityImpl,
\* cacheAliasesForEnvironmentImpl; the latter may repeat the cache host).
LookupsDistinct ==
    \A env \in Environments :
        /\ IsInjective(AliasesForAuthority(env))
        /\ env \in ToSet(AliasesForAuthority(env))
        /\ ToSet(AliasesForEnvironment(env)) = ToSet(AliasesForAuthority(env))

\* Every caller's completion block runs: no error path of the block leaves the
\* semaphore unsignalled and the queue blocked.
EveryCallerAnswered ==
    \A c \in Callers : pc[c] = "waiting" ~> pc[c] = "done"
=============================================================================
