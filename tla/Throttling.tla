----------------------------- MODULE Throttling -----------------------------
(***************************************************************************)
(* MSIDThrottlingService with its two models, and the silent requests that *)
(* use it: before a refresh token is sent the request asks the throttling  *)
(* database; after an error response the database is updated.              *)
(*                                                                         *)
(* Requests run on different threads.  Each call on the shared MSIDLRUCache*)
(* is atomic (LRUOrder gives its effect, LRUCache implements LRUOrder), the*)
(* steps between two calls are not.  The database lives in memory; the time*)
(* of the last interactive success lives in the keychain and survives.     *)
(* Either access to the keychain may fail, without anybody being told.     *)
(*                                                                         *)
(* Time is counted in ticks, SECOND of them to a second: records carry the *)
(* exact time and the keychain keeps whole seconds.  The lengths of time   *)
(* (Delays and the defaults) are in seconds.                               *)
(*                                                                         *)
(* An operator whose comment begins with "Deviation" is not part of the    *)
(* model: it says how a likely mistake in the code would read, and is used *)
(* to see that the properties tell the two apart.                          *)
(***************************************************************************)
EXTENDS Integers, Sequences

CONSTANTS
    Requests,         \* silent requests of the app, each may be repeated
    StrictOf,         \* request -> strictRequestThumbprint
    FullOf,           \* request -> fullRequestThumbprint
    NIL, HTTPDATE,    \* no value; a Retry-After header in the HTTP-date form
    Delays,           \* the Retry-After headers that are a number of seconds
    CacheSize,        \* DEFAULT_CACHE_SIZE
    SECOND,           \* ticks to a second
    Default429,       \* MSID_THROTTLING_DEFAULT_429
    MaxRetryAfter,    \* MSID_THROTTLING_MAX_RETRY_AFTER
    DefaultUI,        \* MSID_THROTTLING_DEFAULT_UI_REQUIRED
    MaxTime           \* bound on the clock

StrictPrints == {StrictOf[r] : r \in Requests}
FullPrints   == {FullOf[r] : r \in Requests}
Thumbprints  == StrictPrints \cup FullPrints
Time         == 0..MaxTime
Headers      == Delays \cup {NIL, HTTPDATE}

\* The longest a record can be in effect: the cap on Retry-After applies above
\* twice MaxRetryAfter.
Longest == LET S == {Default429, DefaultUI, 2 * MaxRetryAfter}
           IN CHOOSE m \in S : \A n \in S : n <= m

\* MSIDThrottlingCacheRecord, with the request whose error it holds.
CacheRecord == [throttleType : {"429", "InteractiveRequired"},
                from : Requests, creation : Time,
                expiration : 0..MaxTime + Longest * SECOND]

\* An error response: its HTTP code is 429 or 5xx, it carries an OAuth error,
\* and its Retry-After header.
ErrorResponse == [limited : BOOLEAN, oauth : BOOLEAN, header : Headers]

ASSUME ThrottlingAssumption ==
    /\ StrictPrints \cap FullPrints = {}
    /\ NIL \notin CacheRecord /\ NIL \notin Thumbprints /\ NIL \notin Time
    /\ Delays \subseteq Nat \ {0} /\ NIL \notin Delays /\ HTTPDATE \notin Delays
    /\ {CacheSize, SECOND, Default429, MaxRetryAfter, DefaultUI} \subseteq Nat \ {0}
    /\ MaxTime \in Nat

VARIABLES
    now,               \* the clock
    lastRefresh,       \* MSIDThrottlingMetaData.lastRefreshTime, in the keychain
    order, value, dangling, reply,   \* the shared MSIDLRUCache
    pc,                \* request -> where it is in acquireTokenWithRefreshTokenImpl
    seen,              \* request -> the record its lookup returned
    found,             \* request -> when its lookup returned `seen' (history)
    interactive,       \* the last interactive success whose time was saved (history)
    before,            \* request -> `interactive' when it started (history)
    unread             \* requests refused because the keychain gave nothing (history)

db      == <<order, value, dangling, reply>>
history == <<found, interactive, before, unread>>
vars    == <<now, lastRefresh, db, pc, seen, history>>

DB == INSTANCE LRUOrder WITH Keys <- Thumbprints, Records <- CacheRecord

Init ==
    /\ now = 0
    /\ lastRefresh = NIL
    /\ DB!Init
    /\ pc = [r \in Requests |-> "idle"]
    /\ seen = [r \in Requests |-> NIL]
    /\ found = [r \in Requests |-> NIL]
    /\ interactive = NIL
    /\ before = [r \in Requests |-> NIL]
    /\ unread = {}

Goto(r, there) == pc' = [pc EXCEPT ![r] = there]

\* Deviation: rounded up.
TimestampUp(t) == ((t \div SECOND) + 1) * SECOND

\* msidDateToTimestamp: whole seconds since 1970.
Timestamp(t) == (t \div SECOND) * SECOND

\* msidDateFromRetryHeader: a header whose intValue is not positive is read
\* with the format "yyyy-MM-dd HH:mm:ss.SSSS", which an HTTP-date does not have.
HasRetryDate(h) == h \in Delays

\* processErrorResponseToGetThrottleType: asks the 429 model first.
ThrottleType(e) ==
    IF e.limited \/ HasRetryDate(e.header) THEN "429"
    ELSE IF e.oauth THEN "InteractiveRequired"
    ELSE "None"

\* createDBCacheRecord of the 429 model.  timeDiff is counted from the latest
\* date allowed, and compared with the length allowed.  The length that is used
\* is the time left at a second reading of the clock, truncated: a second less
\* than the header says (lag = 1) unless both readings agree (lag = 0).
Duration429(e, lag) ==
    IF ~ HasRetryDate(e.header) THEN Default429
    ELSE LET timeDiff == e.header - MaxRetryAfter
         IN IF timeDiff > MaxRetryAfter THEN MaxRetryAfter ELSE e.header - lag

\* createDBCacheRecord and initWithErrorResponse:throttleType:throttleDuration:.
RecordFor(r, e, lag) ==
    [throttleType |-> ThrottleType(e), from |-> r, creation |-> now,
     expiration |-> now + SECOND * (IF ThrottleType(e) = "429"
                                    THEN Duration429(e, lag) ELSE DefaultUI)]

\* Deviation: both models store under the strict thumbprint.
StrictKey(r, type) == StrictOf[r]

\* The thumbprintValue of the model for a throttle type.
ModelKey(r, type) == IF type = "429" THEN StrictOf[r] ELSE FullOf[r]

\* Deviation: a record is still in effect at its expiration.
Throttles429Late(rec) == now <= rec.expiration

\* Deviation: a success at the very time of the error does not count.
ThrottlesUIAfter(rec, time) == /\ now < rec.expiration
                               /\ ~ (time # NIL /\ time > rec.creation)

\* shouldThrottleRequest of each model; time is what the keychain gave.
Throttles429(rec)      == now < rec.expiration
ThrottlesUI(rec, time) == /\ now < rec.expiration
                          /\ ~ (time # NIL /\ time >= rec.creation)

-----------------------------------------------------------------------------
(* shouldThrottleRequest:resultBlock: *)

Start(r) ==
    /\ pc[r] \in {"idle", "answered"}
    /\ Goto(r, "strict")
    /\ seen' = [seen EXCEPT ![r] = NIL]
    /\ found' = [found EXCEPT ![r] = NIL]
    /\ before' = [before EXCEPT ![r] = interactive]
    /\ unread' = unread \ {r}
    /\ UNCHANGED <<now, lastRefresh, db, interactive>>

\* getDBRecordWithStrictThumbprint:fullThumbprint: is two reads, each of which
\* moves what it finds to the front; the second one only when the first fails.
Lookup(r, at, key, miss) ==
    /\ pc[r] = at
    /\ \/ DB!GetHit(key) /\ Goto(r, "decide")
       \/ DB!GetMiss(key) /\ Goto(r, miss)
    /\ seen' = [seen EXCEPT ![r] = value[key]]
    /\ found' = [found EXCEPT ![r] = IF value[key] = NIL THEN NIL ELSE now]
    /\ UNCHANGED <<now, lastRefresh, interactive, before, unread>>

LookupStrict(r) == Lookup(r, "strict", StrictOf[r], "full")
LookupFull(r)   == Lookup(r, "full", FullOf[r], "send")

\* The decision of the 429 model reads the clock ...
Decide429(r) ==
    /\ pc[r] = "decide" /\ seen[r].throttleType = "429"
    /\ Goto(r, IF Throttles429(seen[r]) THEN "answered" ELSE "clean")
    /\ UNCHANGED <<now, lastRefresh, db, seen, history>>

\* ... that of the UI-required model the keychain as well.  A read that fails, or
\* that has no data source, gives nil, which is no time of a success.
DecideUI(r) ==
    /\ pc[r] = "decide" /\ seen[r].throttleType = "InteractiveRequired"
    /\ \E time \in {lastRefresh, NIL} :
          /\ Goto(r, IF ThrottlesUI(seen[r], time) THEN "answered" ELSE "lift")
          /\ unread' = IF ThrottlesUI(seen[r], time) /\ time # lastRefresh
                       THEN unread \cup {r} ELSE unread
    /\ UNCHANGED <<now, lastRefresh, db, seen, found, interactive, before>>

\* The UI-required model removes the record itself ...
Lift(r) ==
    /\ pc[r] = "lift"
    /\ DB!RemoveObject(FullOf[r])
    /\ Goto(r, "clean")
    /\ UNCHANGED <<now, lastRefresh, seen, history>>

\* Deviation: whatever the model, the record of the strict thumbprint goes.
CleanStrict(r) ==
    /\ pc[r] = "clean"
    /\ DB!RemoveObject(StrictOf[r])
    /\ Goto(r, "send")
    /\ UNCHANGED <<now, lastRefresh, seen, history>>

\* ... and for both models the service calls cleanCacheRecordFromDB.
Clean(r) ==
    /\ pc[r] = "clean"
    /\ DB!RemoveObject(ModelKey(r, seen[r].throttleType))
    /\ Goto(r, "send")
    /\ UNCHANGED <<now, lastRefresh, seen, history>>

-----------------------------------------------------------------------------
(* sendTokenRequestImpl: the answer of the server, and                      *)
(* updateThrottlingService:tokenRequest: for an error.                      *)

Succeeds(r) ==
    /\ pc[r] = "send"
    /\ Goto(r, "idle")
    /\ seen' = [seen EXCEPT ![r] = NIL]
    /\ found' = [found EXCEPT ![r] = NIL]
    /\ before' = [before EXCEPT ![r] = NIL]
    /\ UNCHANGED <<now, lastRefresh, db, interactive, unread>>

FailsWith(r, e, lag) ==
    /\ pc[r] = "send"
    /\ IF ThrottleType(e) = "None" THEN UNCHANGED db
       ELSE DB!SetObject(ModelKey(r, ThrottleType(e)), RecordFor(r, e, lag))
    /\ Goto(r, "idle")
    /\ seen' = [seen EXCEPT ![r] = NIL]
    /\ found' = [found EXCEPT ![r] = NIL]
    /\ before' = [before EXCEPT ![r] = NIL]
    /\ UNCHANGED <<now, lastRefresh, interactive, unread>>

-----------------------------------------------------------------------------
\* updateLastRefreshTimeDatasource: after an interactive request succeeds.  The
\* save may fail, or have no data source: the time of an earlier success stays,
\* and the controllers go on (error:nil).
InteractiveSuccess ==
    /\ \/ lastRefresh' = Timestamp(now) /\ interactive' = now
       \/ UNCHANGED <<lastRefresh, interactive>>
    /\ UNCHANGED <<now, db, pc, seen, found, before, unread>>

Tick ==
    /\ now < MaxTime
    /\ now' = now + 1
    /\ UNCHANGED <<lastRefresh, db, pc, seen, history>>

\* The app is killed and started again: only the keychain is left.
Restart ==
    /\ order' = <<>> /\ value' = [k \in Thumbprints |-> NIL]
    /\ dangling' = {} /\ reply' = [ok |-> TRUE, object |-> NIL]
    /\ pc' = [r \in Requests |-> "idle"]
    /\ seen' = [r \in Requests |-> NIL]
    /\ found' = [r \in Requests |-> NIL]
    /\ before' = [r \in Requests |-> NIL]
    /\ unread' = {}
    /\ UNCHANGED <<now, lastRefresh, interactive>>

Ask(r) ==
    \/ Start(r) \/ LookupStrict(r) \/ LookupFull(r)
    \/ Decide429(r) \/ DecideUI(r) \/ Lift(r) \/ Clean(r)
Answer(r) == Succeeds(r) \/ \E e \in ErrorResponse, lag \in {0, 1} : FailsWith(r, e, lag)

Next ==
    \/ \E r \in Requests : Ask(r) \/ Answer(r)
    \/ InteractiveSuccess
    \/ Tick
    \/ Restart

Spec == Init /\ [][Next]_vars

-----------------------------------------------------------------------------
TypeOK ==
    /\ now \in Time /\ lastRefresh \in Time \cup {NIL}
    /\ interactive \in Time \cup {NIL}
    /\ \A i \in DOMAIN order : order[i] \in Thumbprints
    /\ value \in [Thumbprints -> CacheRecord \cup {NIL}]
    /\ dangling \subseteq Thumbprints
    /\ pc \in [Requests -> {"idle", "strict", "full", "decide", "lift", "clean",
                            "send", "answered"}]
    /\ seen \in [Requests -> CacheRecord \cup {NIL}]
    /\ found \in [Requests -> Time \cup {NIL}]
    /\ before \in [Requests -> Time \cup {NIL}]
    /\ unread \subseteq Requests

Answered(r, type) == pc[r] = "answered" /\ seen[r].throttleType = type

\* An error answered from the database is one the server gave to the same
\* request: a rate limit to one with the same strict thumbprint, a demand for
\* user interaction to one with the same full thumbprint
\* (shouldThrottleRequest:resultBlock:).
NoCrossTalk ==
    \A r \in Requests :
        /\ Answered(r, "429") => StrictOf[seen[r].from] = StrictOf[r]
        /\ Answered(r, "InteractiveRequired") => FullOf[seen[r].from] = FullOf[r]

\* A request is not refused for longer than the limits after the error it is
\* refused with, however often the record is read and moved to the front of the
\* cache in between (createDBCacheRecord, objectForKey:error:).
RefusalEnds ==
    \A r \in Requests :
        /\ Answered(r, "429") => found[r] < seen[r].creation + Longest * SECOND
        /\ Answered(r, "InteractiveRequired") => found[r] < seen[r].creation + DefaultUI * SECOND

\* A request that starts after an interactive success whose time was saved is not
\* refused with a demand for interaction from an earlier second, unless it cannot
\* read that time when it decides: not after a restart, not after a later success
\* that could not be saved, and whatever the other requests do meanwhile
\* (MSIDThrottlingModelNonRecoverableServerError, updateLastRefreshTimeDatasource:).
InteractionLifts ==
    \A r \in Requests \ unread :
        Answered(r, "InteractiveRequired") /\ before[r] # NIL
            => Timestamp(before[r]) < seen[r].creation

\* A request that goes on takes away the record it decided about, or one stored
\* since: never another record that was there at its lookup, of this or of
\* another request (shouldThrottleRequest, cleanCacheRecordFromDB).
CleansWhatItSaw ==
    [][\A r \in Requests, k \in Thumbprints :
         (Lift(r) \/ Clean(r)) /\ value[k] # NIL /\ value'[k] = NIL
            => value[k] = seen[r] \/ value[k].creation >= found[r]]_vars

=============================================================================
