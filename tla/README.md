# Verification of IdentityCore (microsoft-authentication-library-common-for-objc)

IdentityCore is the library MSAL, ADAL and the broker apps for Apple platforms share.  It validates
authorities, keeps tokens in the keychain, acquires them silently or with a web view, talks to the
token endpoint and to the broker, and throttles itself when the server asks it to. This directory
holds TLA+ models of the parts of it whose correctness depends on order, timing, concurrency or the
bookkeeping of shared state, the TLC runs that check them on small instances, and proofs of what can
be proved for every instance.  The implementation is in Objective-C files (`.m`); the headers only
declare, so the models refer to `.m` files almost everywhere.  Paths below are relative to `IdentityCore/src/` unless they begin
with `tests/` (`IdentityCore/tests/`).

## 1. The system

| component | state it keeps | operations | hard behaviour |
|---|---|---|---|
| Throttling database, `throttling/cache/MSIDLRUCache` | doubly linked list in a dictionary, key -> signature map, counters | set, remove, get, remove all, enumerate | links rewritten by copy, eviction at a full cache, keys left mapped after eviction |
| Throttling service, `throttling/` | the shared database; last interactive success (keychain) | `shouldThrottleRequest`, `updateThrottlingService`, `updateLastRefreshTimeDatasource` | lookup, decision, removal are separate steps of many threads; two kinds of thumbprints in one store; time with two precisions; restart keeps half of the state |
| AAD authority resolver, `validation/MSIDAadAuthority*` | authority cache, set of cloud environments, serial queue | `resolveAuthority`, `processMetadata`, lookups of preferred hosts and aliases | a queue held by a semaphore until a request is answered, double-checked cache, negative caching, metadata stored alias by alias |
| ADFS, B2C, CIAM authorities and resolvers, OpenID configuration, `validation/` | OpenID configuration cache | validate by DRS and WebFinger discovery, load metadata | sequential requests, cached results |
| HTTP request, `network/MSIDHttpRequest`, `network/error_handler` | retry counter, request | `sendWithBlock` | retries on network failure and 5xx, PKeyAuth challenge answered by a second request, server telemetry on each attempt |
| Server telemetry, `telemetry/request_telemetry` | error list, counters, file | serialize into headers, confirm, reset, persist | size limits, errors of concurrent requests between serialization and confirmation |
| Telemetry events, execution flow, onboarding blob, `telemetry/` | events per request | start, stop, flush, dispatch | flush against late events |
| Web view session manager, `webview/MSIDWebviewAuthorization`, embedded and system controllers | the one current session | start, cancel, handle response URL, complete | one session at a time, cancel against answer, main-thread hops, animated dismissal |
| Challenge handlers, switch-browser operations, background tasks, `webview/` | per-challenge state | NTLM, client TLS, certificate and WPJ challenges | UI callbacks |
| Token caches, `cache/accessor`, `cache/MSIDKeychainTokenCache`, `cache/mac` | keychain items: access, refresh, family refresh, ID tokens, accounts, app metadata | save response, lookups, removal, account listing | several writes per response, fallback between formats, processes sharing a keychain |
| Account metadata cache, `cache/metadata` | memory copy per cache object, keychain | sign-in state, authority mapping, principal account | read-modify-write from several threads and processes, asynchronous fill |
| Silent token request, `requests/MSIDSilentTokenRequest` | the tokens found so far | acquire token silently | order of access, family and app refresh tokens, recovery, removal of rejected tokens, stale tokens when the server is down |
| Interactive token request, `requests/MSIDInteractive*`, controllers | the request in progress | authorization code flow, broker fallback, throttling refresh | responses that redirect the flow |
| iOS broker controller, `controllers/broker/ios` | two statics for the request in progress, a resume dictionary in the user defaults | start, open the broker, answer by URL, return to the foreground | an answer that never comes, comes late, or comes after a restart; a return that sends the request again |
| Onboarding status, `cache/accessor/MSIDOnboardingStatusCache` | one keychain item that all apps share | set, mark failed, clear, expire | whose status it is, changed between a read and a write |
| XPC provider on macOS, `util/mac/MSIDXpc*` | provider type, the cached endpoint of a broker instance | request, lookup by a dispatcher, choose a provider | callbacks of two connections and two timers, retry of a cached endpoint, a provider switched meanwhile |
| SSO extension and broker requests, `requests/broker`, `broker_operation`, `controllers/broker` | pending broker request | serialize operations, wait for an answer by extension | fallbacks between XPC, extension and app |
| Device registration, `workplacejoin` | keychain certificates | find the registration | keychain queries only |
| Intune caches, `intune` | user defaults dictionaries | enrollment IDs, protection resources | whole-dictionary read-modify-write |
| Logger, parameters, OAuth2 factories, claims, JWE, PoP, serializers, utilities | none or constants | parsing, formatting | data conversion |

How they interact.  A silent request resolves its authority (resolver), looks for an access token
and then refresh tokens (token cache), asks the throttling service, sends a token request (HTTP),
updates the throttling service on failure, and saves or removes tokens and account metadata.  An
interactive request resolves the authority, shows a web view session, redeems the code by the same
token request, and on success sets the last refresh time, which lifts the demand for interaction
kept in the throttling database.  With a broker on the device the interactive request goes to the
broker app by URL (iOS) or to a broker process by XPC (macOS) instead, and returns to a local
controller when the broker cannot be opened.  Every HTTP token request carries server telemetry about earlier
failures.  The shared singletons are `MSIDLRUCache.sharedInstance`,
`MSIDAadAuthorityCache.sharedInstance`, `MSIDXpcProviderCache.sharedInstance`, the current web view
session, the current broker controller and request, the last request telemetry and the keychain.

What makes each part correct, in the order of the table: the list and the two dictionaries of the
throttling database describe one order of keys and never more than its size; a request is refused
only with an error that was given to the same question, for a bounded time, and an interactive
success lifts a demand for interaction; an authority is validated only if the server said so, is
asked about once, and every caller is answered; a request is retried at most as often as allowed and
completes once; what telemetry forgets was reported; the caller of a web view session is answered
once, and sessions exclude each other; a token that was saved is not lost to a removal meant for
another, the user is not asked to sign in while a good refresh token is there, and a silent request
ends; account metadata written by one process is not overwritten with what another read before; a
broker request ends with one answer, the broker's or an error, whichever of the URL and the return
of the app comes first, and a caller gets its own tokens; an XPC request is answered once, fails only
after it asked the dispatcher, and uses an endpoint of the provider that is set; an Intune entry written by one process survives a concurrent write of
another one.

## 2. The modules

Every module is plain TLA+.  A variable has the name of the field it stands for where there is one;
variables marked *history* in their comment record what happened, for the properties, and no guard
reads them, with the exception of bounds.  An operator whose comment begins with "Deviation" is not
part of a model.  It is an action or helper as a likely mistake would have written it (a test
dropped, a key swapped, a reset missing); each property is violated when one of them takes the place
of the operator after it, which shows that the property depends on the code and not on the shape of
the model.

| module | models | uses |
|---|---|---|
| `LRUCache` | `MSIDLRUCache`: nodes, links, signatures, counters | |
| `LRUOrder` | what `MSIDLRUCache` promises: an order of keys | |
| `LRUCacheProofs` | proofs about `LRUCache` | `LRUCache` |
| `Throttling` | `MSIDThrottlingService`, its models, silent requests that ask it | `LRUOrder` |
| `ThrottlingProofs` | proofs about `Throttling` | `Throttling` |
| `AuthorityResolver` | `MSIDAadAuthorityResolver`, `MSIDAadAuthorityCache` | |
| `AuthorityResolverProofs` | proofs about `AuthorityResolver` | `AuthorityResolver` |
| `RequestTelemetry` | `MSIDLastRequestTelemetry` and its serialized item | |
| `HttpRequest` | `MSIDHttpRequest`, `MSIDAADRequestErrorHandler` | `RequestTelemetry` |
| `TokenCache` | `MSIDDefaultTokenCacheAccessor` for one account | |
| `SilentTokenRequest` | `MSIDSilentTokenRequest`, several clients, the server | `TokenCache`, `CompletionBlock` |
| `SilentTokenRequestProofs` | proofs about `SilentTokenRequest` | `SilentTokenRequest` |
| `WebviewSession` | `MSIDWebviewAuthorization`, the embedded web view controller | `CompletionBlock` |
| `InteractiveRequestProofs` | proofs about `WebviewSession` and `HttpRequest` | `WebviewSession`, `HttpRequest` |
| `AccountMetadata` | `MSIDMetadataCache`, `MSIDAccountMetadataCacheAccessor` | |
| `AccountMetadataProofs` | proofs about `AccountMetadata` | `AccountMetadata` |
| `BrokerInteractive` | `MSIDBrokerInteractiveController`, the resume dictionary, the onboarding status | `CompletionBlock` |
| `BrokerInteractiveProofs` | proofs about `BrokerInteractive` | `BrokerInteractive` |
| `XpcSingleSignOn` | `MSIDXpcSingleSignOnProvider`, `MSIDXpcProviderCache` | `CompletionBlock` |
| `XpcSingleSignOnProofs` | proofs about `XpcSingleSignOn` | `XpcSingleSignOn` |
| `CompletionBlock` | what the caller of a request is promised | |
| `MC*` | small instances for TLC | |

### LRUCache and LRUOrder

`container` and `keySignatureMap` are the two dictionaries of `MSIDLRUCache`; a node is a record
with `prev`, `next` and `record`, and HEAD and TAIL are the two dummies.  All public operations run
in one `dispatch_barrier_sync`, so each is one action, split by the outcome: `SetRejected`,
`SetMapped`, `SetDangling`, `SetNew` for `setObject:forKey:error:`, `RemoveMissing`, `RemoveMapped`,
`GetMiss`, `GetHit`, and `RemoveAll`.  `Unlink` and `PushFront` are `removeObjectForKeyImpl` and
`addToFrontImpl`, with the dictionary entries they replace.  Two details of the code shape the
model: a `setObject:` on a key that is mapped moves the old node to the front and does not use the
new object, and an eviction leaves its key mapped to a signature without a node (the key *dangles*).
A signature is drawn at random; the model draws an unused one (a collision among 62^8 is left out).

`LRUOrder` says the same without nodes: a sequence of keys, the record of each, the set of keys that
dangle.  `Order` of `LRUCache` is the sequence of keys whose nodes the links lead over from the head,
chosen among the sequences of that length; with it `ImplementsOrder == Ordered!Spec` says that the
linked list is such an order.  `Throttling` uses `LRUOrder` as its database.

### Throttling

A silent request goes through `strict`, `full` (the two lookups of
`getDBRecordWithStrictThumbprint:fullThumbprint:`), `decide` (`shouldThrottleRequest` of the model
found: `Decide429` or `DecideUI`), `lift` (the UI-required model removes its record), `clean`
(`cleanCacheRecordFromDB`), `send`; it is `answered` when it is refused. Each access to the database is
atomic, and other requests run between two of them. `FailsWith` is
`updateThrottlingService:tokenRequest:`: the kind of record (`ThrottleType`), its length (`Duration429`,
with the difference and the comparison of the code), its key. `lastRefresh` is the time of the last
interactive success that was saved, in whole seconds, in the keychain; `Restart` empties the database
and keeps it. Either access to the keychain may fail, and nobody is told: `InteractiveSuccess` may leave
the earlier time there, and `DecideUI` may be given none. The history variable `unread` holds the
requests that are refused only because the read gave nothing. Reading the clock and saving it are one
step. Time is counted in fractions of a second because `msidDateToTimestamp` truncates while creation
times are exact. The duration of a Retry-After is computed from a second reading of the clock and
truncated, hence `lag`.

### AuthorityResolver

A caller is answered from the cache (`ResolveFromCache`) or puts a block on `s_aadValidationQueue`
(`ResolveLater`).  The block at the head goes through `recheck`, `sent`, `store` and `signal`: the
second look at the cache, the discovery request with each of its answers (error, invalid_instance,
malformed metadata, metadata), the writes of `processImpl`, one for each alias (`EntryStored`), and
the signal of the semaphore after the caller's completion.  Malformed metadata is detected before anything is
stored.  `AliasesForAuthority` and `AliasesForEnvironment` are the two functions that list the hosts
under which the token cache is searched; `Others` is their loop over the aliases, with its `continue`.

### RequestTelemetry and HttpRequest

`RequestTelemetry` has the operations of `MSIDLastRequestTelemetry`, each a barrier block:
`Serialize` (`telemetryString`), `AddError`, `Reset`, `IncreaseSilent`, `LoadFromDisk`; `SaveToDisk`
is part of those that change something.  An error is an identifier, which is its place in the order
of recording, and a size; `Room` is the number of errors that
`serializeErrorsInfoWithCurrentStringSize:` fits in the string, `cut` is what the serialized item
keeps for later, `marks` the "1"s that tell of cut telemetry.

`HttpRequest` drives them.  A request is sent, the answer is one of `ResponseParsed`,
`ResponseRejected`, `ServerError`, `NetworkFails`, `TransportFails`, `Challenge`; a retry or an
answer to a challenge is another `Send` whose completion block calls the one before it.  `blocks`
counts these, and `Unwind` runs one, which updates the telemetry.  `Release` is the end of a request
object.  `OtherFlow` stands for the flows that add errors or count silent successes without a
request, and `Restart` for the app that is killed: only the file is left.  The definitions that every
module has (`HttpInit`, `HttpNext`, `HttpSpec`, `httpVars`, `HttpTypeOK`) bear the component's name
here, so that one module can prove things about both components of an interactive request.

### TokenCache and SilentTokenRequest

`TokenCache` is the keychain as the default accessor keeps it, for one account: for each client an
access token, an ID token, a refresh token and app metadata, and one family refresh token.  A token
is the number of the server's answer that brought it.  Each operator is one access to the keychain;
`Writes(c)` lists those of `saveTokensWithConfiguration` in their order.

A request of `SilentTokenRequest` is a record whose `pc` names the place in `executeRequestImpl`,
`fetchCachedTokenAndCheckForFRTFirst`, `tryRefreshToken:`, `redeemAccessTokenWith:` and
`sendTokenRequestImpl:`: the access token is read, kept as a fallback or removed, the app token
tried, then the family token, the answer is saved write by write (`Save`), a refused token compared
(`Validate`) and removed by key (`Remove`), an account cleared, membership in the family given up
(`LeaveFamily`).  Every access may fail (the actions of `Faulty`), and the process of a client may
be killed between any two.  `SignIn` is an interactive request of any client, which saves in the
same way.  The server is external: it accepts a token it has not revoked, from the client or a
member of the family, and may do anything else at any time.  `WrongCloud`, `Fails` and `Refused`
cover the throttling service and the authority: what they answer is handled like the server's
answer.

Abstracted: reading the app metadata and the family token is one step, and so are the listing and
the deletion of `clearCacheForAccount`.  The extended lifetime of access tokens is switched on.
Left out: the mode that tries single family refresh tokens first, bound refresh tokens, nested
authentication, `skipLocalRt`, the MAM enrollment and key thumbprints of an access token (a mismatch
takes the same path as an expired token), the account record (it is there), answers without a
refresh token, and the resolution of the authority before the request (AuthorityResolver) and its
fallback to a broker (MSIDSilentController).

### WebviewSession

Two threads.  The main thread starts sessions (`Claim` or `Refuse`, then `Show`), ends them when a
navigation reaches the redirect URI, fails, or the user closes the view (`End`, `EndSet`), and
completes them when the view is gone (`Closed`, `Parse`, `Answer`).  Another thread calls
`cancelCurrentSession` (`CancelBegin`, `CancelSet`, `CancelClear`).  `main` and `canceller` hold
what each is in the middle of. `cancelCurrentSession` holds the class lock all the time (`Locked`);
setting and clearing the current session wait for it, `endWebAuthWithURL` does not.
`s_currentSession` and `complete` are read without the lock elsewhere: the reads and writes of these
pointers and flags are taken as atomic (on the platforms the library is built for they are single
aligned accesses), so what is left of the race is the order, and that is modelled: both threads may
pass the test of `complete` and set it, and there may be two dismissals of one view.

### AccountMetadata

`keychain[c]` is the item of client `c`: the sign-in state and the authority mapping of each account,
and the principal account.  `memoryCache[p]` is what the cache object `p` remembers of it.  There are
several caches over one keychain: each process has one, and the broker response handler makes one of
its own.  A thread that updates reads an item from the memory (`ReadMemory`) or from the keychain
(`ReadKeychain`, which fills the memory in a block of its own, `Fill`), edits its copy (`Edited`),
compares it with the memory (`Unchanged`, `Changed`), and writes keychain and memory in one block
(`Write`).  Removing an account lists all items (`List`, `Replace`) and saves each.  The operations on
the sign-in state skip the memory (`SkipsMemory`).  Reads and writes may fail, `Wipe` is
`clearCacheForAllAccounts`, and `Restart` ends a process.  `version` numbers the states of an item,
so that "began with the item that is there" can be said.  The fill is asynchronous in the code; all
later accesses to the memory use the same serial queue, so a step at the point where it is queued is
the same to everyone who looks.

### BrokerInteractive

A request is started on any thread, one access to shared state at a time: `Refused` or `Checked`
(the test of `s_currentExecutingController`), `Prepared`, `SetRequest`, `SetStatus`, `SaveResume`,
`Launch`.  The main thread takes one event at a time: the outcome of `openURL:` (`Opens`,
`OpenFails`), the return to the foreground (`Foreground`, then `Unconcerned`, `Replay` or `GivesUp`:
`checkTokenResponse`), an answer by URL (`Ignored`, `Receive`).  What a handler has still to do is
the list `main.todo`, one access per step, since starts on other threads run in between.  `watching`
is what the two notifications observe.  `Killed` ends the process; the resume dictionary and the
status stay, and the broker may still answer, which starts the app anew.  `OtherSets` and `Expire`
are the other apps' and the time's effect on the status.

Abstracted: decryption and saving of an answer are one step that gives tokens or an error; a call of
`MSIDOnboardingStatusCache` is one step; a successful open sends the app to the background; windows
of an iPad app are not told apart.  *External* is what the broker does with a request: it answers
once or never, in any order.

### XpcSingleSignOn

A request has two attempts, `attempt[<<r, 1>>]` and `attempt[<<r, 2>>]` (a third would show up, and a
property says there is none). The first takes the cached endpoint if there is one, the second is made
when that fails, and goes to the dispatcher; `CheckConfiguration` is the first look at the provider's
configuration, on either path, and a connection that finds none later is refused. `todo` holds the
callbacks of an attempt that are due or between two accesses to its state; they run in any order, as
each connection has a queue of its own. `Capture`, `OpenLookup`, `LookupReplies`, `LookupFails`,
`LookupTimer` and `StoreEndpoint` are the lookup, with the compare and set of the endpoint;
`OpenDirect`, `Ready`, `ConnectionFails`, `BrokerReplies`, `NoteFailure`, `ClaimFailure`, `Retry`,
`Watchdog`, `ClaimTimeout`, `NoteReply`, `ClaimReply` the message to the instance: the flag
`requestReplyReceived`, the claim `outerCompleted`, and the answer of the caller. `provider` and
`cached` are the provider cache, `checker` a call of `canPerformRequest:` that validates the provider
and chooses another, `Told` a device info that names one. `OtherStores` and `OtherClears` are what
further requests do to the cache. Signing requirements are modelled by their effect: a connection to an
endpoint that is not of the configured provider is refused. Left out: a second call of
`canPerformRequest:` at the same time.

### CompletionBlock

The abstract specification of a request, whoever carries it out: it is made (`Ask`), its block is
called with one answer (`Reply`), or it is lost with its process or controller (`Lose`, of all that
are lost together).  A block is not called before the request, not twice, and not after a loss.
Four modules implement it, each as `KeepsPromise == Promise!Spec` under a mapping `Standing` from the
places of its requests:

| module | waiting | lost |
|---|---|---|
| `SilentTokenRequest` | between `Start` or `SignIn` and the result | the process of the client was killed |
| `WebviewSession` | the session was set, or is on screen, or is ending | a cancellation came between setting the session and starting its controller |
| `BrokerInteractive` | from the start to the answer, with the app, the broker or the local controller | the process ended |
| `XpcSingleSignOn` | the first attempt has begun, the second included | never |

`HttpRequest` and `AuthorityResolver` do not: their request objects and callers are used again, and
they state their own properties of it (`EveryRequestCompletes`, `EveryCallerAnswered`).

## 3. What the runs check

| run | distinct states | properties |
|---|---|---|
| `lru` | 11,458 | `LinksAgree`, `ImplementsOrder` |
| `throttling` | 2,086,682 | `TypeOK`, `NoCrossTalk`, `RefusalEnds`, `InteractionLifts`, `CleansWhatItSaw` |
| `resolver` | 53,517 | `NoFalseValidation`, `AliasesAgree`, `LookupsDistinct`, `NoRepeatedDiscovery`, `EveryCallerAnswered` |
| `http` | 297,386 | `HttpTypeOK`, `CutIsOldest`, `ForgetsOwnOrLate`, `EveryRequestCompletes` |
| `silent` | 3,061,481 | `TypeOK`, `NoNeedlessInteraction`, `RejectedTokenGone`, `MovesOn` |
| `webview` | 37,027 | `KeepsPromise`, `AloneUntilCancelled`, `EndedIsAnswered` |
| `metadata` | 2,293,077 | `TypeOK`, `NoPhantom`, `OthersKept`, `Effective` |
| `broker` | 604,986 | `TypeOK`, `KeepsPromise`, `OwnTokens`, `ProgressAgrees`, `AnswerComes` |
| `xpc` | 194,908 | `KeepsPromise`, `NoFalseFailure`, `TriedDispatcher`, `CacheOfProvider`, `AnswersCome` |
| `lru_stored`, `broker_status`, `xpc_endpoint` | | one property each, violated: section 4 |

The types of every component are theorems (section 5); those of `LRUCache`, `AuthorityResolver`,
`WebviewSession` and `XpcSingleSignOn` are not checked by a run as well.

- `lru`.  Both directions of the links agree, and the cache behaves as an order of keys: the
  detailed module implements `LRUOrder`.
- `throttling`.  An error from the database was given to the same question (`NoCrossTalk`, although
  two kinds of thumbprints share one store); a refusal ends in time although reading a record moves
  it to the front (`RefusalEnds`); a request that starts after an interactive success whose time was
  saved, and that can read it, is not refused with a demand for interaction of an earlier second
  (`InteractionLifts`), whatever restarts, and successes that could not be saved, come in between; a
  request removes the
  record it decided about or one stored since (`CleansWhatItSaw`).
- `resolver`.  Callers that wait for the same answer do not ask again, only what the server accepted
  is reported as validated, the aliases of a cloud agree between updates, the lookups cover each
  host once, and no path leaves the queue blocked.
- `http`.  A string delays the oldest errors; a success forgets what its request reported or could
  not know of; a request completes whatever the server answers.
- `silent`.  No one is asked to sign in while a usable refresh token was there all along; a token
  the server called bad is gone from where it was read when the request ends; a request never
  returns to an earlier stage. `MovesOn` is the reason why requests complete; there is no fairness
  in this module, since a request waits for the network and the keychain.
- `webview`.  The session implements `CompletionBlock`: its caller is answered once, whoever ends
  it, and not after the session was lost to a cancellation; without a
  cancellation, sessions exclude each other and answers are their own; a session that ended is
  answered.
- `metadata`.  A failed save, or an edit of a copy, does not get into the memory (`NoPhantom`); a save
  made from the item that is there changes nothing about other accounts (`OthersKept`), although items
  are written whole; an update that says it succeeded is in the keychain unless others came in between
  (`Effective`), although the comparison with the memory may skip the save.
- `broker`.  The controller implements `CompletionBlock`: answers that come late, twice or after the
  app gave up answer no caller a second time, and the broker's answer to a request of a process that
  has ended answers nobody;
  a caller gets the tokens of its own request, where the nonce is compared; the statics and the resume
  dictionary are about the same request; every caller gets an answer though the broker may never
  give one.  The last three say "unless events crossed": two requests that start at the same time,
  or one that starts while the main thread is handling an event, overwrite each other's statics.
  The history variable `crossed` records that, so the properties hold for one caller at a time and
  for sequences of requests, whatever earlier requests and processes left behind.
- `xpc`.  The provider implements `CompletionBlock` with the block of its caller, which is called
  once, over all callbacks of both attempts; a connection
  that the attempt closed itself is not taken for a failure; failure is told only after the
  dispatcher was asked, and there is no third attempt; the cached endpoint is of the provider that is
  set; a silent request is answered whatever the broker does.

### Bounds

All instances are small because the mechanisms are: the interesting cases need two actors and the
smallest size that has a first, an inner and a last element.

- `lru`: two slots, three keys and signatures, two records (the code: 1000 slots).  With two slots
  and three keys an eviction happens, a key dangles and is used again; the proofs cover every size.
  `MaxCount` bounds the sum of the statistics counters, which `RemoveAll` resets: seven operations
  that change something.
- `throttling`: two requests with the same strict and different full thumbprints, each repeated,
  `CacheSize` 2, two ticks to a second, four ticks.  `Default429`, `MaxRetryAfter` and `DefaultUI`
  are one second (the code: 60, 3600 and 120).  The Retry-After of two seconds is above the limit
  and not above twice the limit, the case where the code's cap does not apply. Requests are
  symmetric, and `View` leaves out `reply`, which nothing reads.
- `resolver`: two callers, three hosts, three lists of metadata (none; one cloud with two aliases;
  the same and an entry without a preferred cache host).  Callers ask again without limit.
- `http`: two requests, two starts in all, one retry (the code's `s_retryCount` is 1), one
  challenge, one error recorded by another flow, one silent success, an archive of two errors. Sizes
  2 with a limit of 7 let one error fit and leave the second for later.  Writes to the file may
  fail.
- `silent`: two requests, which may be of the same client, two members of the family and one client
  outside of it, four states of the cache at the start, three answers in all; one fault or kill, one
  revoked token, one access token that ages.  Requests are symmetric; `MovesOn` quantifies over all
  of them.
- `webview`: three sessions (one that ends late, one it disturbs, one that can start because of
  that) and two cancellations; the proofs cover every number.
- `metadata`: two caches, one of them with two threads, one client with two accounts, three
  operations and two changes of the keychain: one to edit, one that is lost or not to it, one that
  sees the result.  The items of different clients are independent, except that a removal saves each;
  the proofs cover every number.  Accounts, and the two threads of one cache, are symmetric.
- `broker`: two requests, one that starts while, or after, the other is in progress; nothing else is
  bounded, the broker, the user and the other apps may go on as they like.
- `xpc`: two requests, one silent and one interactive, of which one is followed in detail
  (`MaxRequests` 1) while the others appear by what they do to the cache; two providers, both or only
  the preferred one installed at the start; two changes from outside (`MaxChanges`), which is what a
  switch there and back needs.  Three changes (976,391 states) pass as well.  The proofs cover any
  number of requests, providers and changes.

`CHECK_DEADLOCK FALSE` is set where the system stops when all requests or sessions are used up
(`silent`, `webview`, `xpc`); the others may always go on (callers ask again, the app restarts).

### Fairness

- `AuthorityResolver`: weak fairness of `Block`, the serial queue.  A dispatch queue runs its
  blocks, the discovery request ends with a response or a timeout (`requestTimeoutInterval`), and
  then its completion runs.
- `HttpRequest`: weak fairness of `Send`, `Responds` and `Unwind` of each request, for the same
  reasons.  `EveryRequestCompletes` needs the bound on challenges: a server that repeats its
  challenge keeps a request going (`MSIDAADRequestErrorHandler.m:110`).
- `WebviewSession`: weak fairness of the main thread's pending work and of the thread inside
  `cancelCurrentSession`.  Nothing makes the user finish, so `EndedIsAnswered` begins when a session
  has ended.
- `BrokerInteractive`: weak fairness of the steps of a starting request, of the outcome of an open,
  of the handlers of the main thread, of the return to the foreground, of the local controller's
  answer, and of the expiry of a status.  Threads run, iOS calls the completion handler of `openURL:`,
  a user comes back to the app, and a status is nothing after 900 seconds.  The last one is needed:
  as long as its own status says "in progress", each return sends the request to the broker again.
  Nothing is assumed of the broker.
- `XpcSingleSignOn` (`FairSpec`): weak fairness of what is due on the queues and of the two timers, for each
  request.  Nothing is assumed of dispatchers and brokers, so only silent requests, which have a
  watchdog, are answered in any case.
- The other modules have safety properties only.

## 4. Where the code does not do what is said of it

Three runs end in a violation of one property, which states what a comment or a header says.

| run | what happens | what is said |
|---|---|---|
| `lru_stored` | After an eviction the key stays mapped; a later `setObject:` for it fails and stores nothing, until the key is removed. | `MSIDLRUCache.h:52` "... and then add this new input object mapped by input key." |
| `broker_status` | A failed broker request marks the onboarding status it finds in the shared keychain as failed and writes it back under the name it found there: the test of the originator compares the other app's status with itself. | `MSIDOnboardingStatusCache.m:309` "This prevents different apps from overwriting each other's onboarding status." |
| `xpc_endpoint` | The reply watchdog answers the caller and keeps the cached endpoint, which the next request takes again, to wait for the same timeout. | `MSIDXpcProviderCaching.h:43` "must be cleared on connection interruption, invalidation, transport failure ..." |

Met while reading, and not the subject of a run:

- *Throttling.*  A request decides about an expired record and removes what the thumbprint has by
  then, which may be a record another request has stored meanwhile (`MSIDThrottlingService.m:85`).
  The limit of a Retry-After is compared with a difference that left it out once already, so a value
  between one and two times the limit is not capped (`MSIDThrottlingModel429.m`; a test of
  `MSIDThrottlingModel429Test.m:128` is named `AndValueIsGreaterThanThrottlingLimit`).  A Retry-After in the HTTP-date form gives no date
  (`util/NSDate+MSIDExtensions.m:104`; the comment at :78 describes both forms).  An interactive
  success whose time cannot be saved lifts nothing: the error of the save is discarded
  (`MSIDLocalInteractiveController.m:110`), as is the NO for a missing data source
  (`MSIDThrottlingMetaDataCache.m:57`), and the process may end before the save; a read that fails
  counts as "no success yet" (`MSIDThrottlingModelNonRecoverableServerError.m:97`).  The earlier
  demand is then repeated until it expires, which is all that is left (`RefusalEnds`).  An interactive
  success in the same second as, and after, the error does not always lift it: the time is kept in
  whole seconds (the test at `tests/MSIDThrottlingServiceIntegrationTests.m:799` expects a success
  to clear it).  A second error for a thumbprint with a record does not replace the record
  (`MSIDLRUCache.m:183`; the comments at `MSIDLRUCache.m:160` and `MSIDThrottlingService.m:92` speak
  of an update).
- *Authority.*  `processImpl` replaces the set of discovered environments
  (`MSIDAadAuthorityCache.m:163`), where `MSIDAADAuthority.m:374` reads as if it grew.  The aliases
  by environment may repeat the preferred host (`MSIDAadAuthorityCache.m:415`; comment at :412).
- *Telemetry.*  The size of a string is tested without the bars after the error fields and without
  the platform fields, so it may exceed the limit of 350 bytes
  (`MSIDLastRequestTelemetrySerializedItem.m:36`).  The marks of cut telemetry accumulate (`MSIDLastRequestTelemetry.m:281`).  A failed
  request that was retried is recorded once for each attempt, because a retry is sent with the
  previous attempt's completion (`MSIDAADRequestErrorHandler.m:85`).  An error recorded while
  another request is in flight may be forgotten without a report, and an error longer than the limit
  is never reported and holds all older ones back.
- *Silent request.*  A refresh token saved by another app between the comparison and the removal by
  key is removed in place of the refused one (`MSIDDefaultTokenCacheAccessor.m:955`).  A keychain failure in the lookup of a refresh token is reported as interaction
  required (`MSIDSilentTokenRequest.m:299`).  An access token kept as a fallback is returned after
  the server's failure without a second look at its expiry (:639; the comment at :239 speaks of an
  unexpired one).
- *Web view.*  A cancelled session completes after the next one has started, clears it from
  `s_currentSession` while it is on screen, and a third session may start beside it
  (`MSIDWebviewAuthorization.m:81` speaks of one session at a time).  A cancellation between setting the current session and starting its controller sends
  the start to nil, and the caller is never answered (phase "lost").  A URL that arrives after the
  session was cleared is parsed with no session: response and error are both nil (`"nothing"`), for
  which `handleWebReponseV1` has no branch (`MSIDInteractiveAuthorizationCodeRequest.m:269`).  The
  system web view controllers, not modelled yet, can complete twice on cancel.
- *Account metadata.*  Two updates of one client from different threads or processes are read,
  edited and written whole: the one that began first and writes last undoes the other, as does one
  that began with an old memory.  A cache that remembers an item which `clearCacheForAllAccounts`
  has removed takes an update for done that is not.
- *Broker on iOS.*  The test and the setting of the current controller are apart, so two requests
  that start at once both pass it.  A caller that fails before the launch is told and its completion
  block stays.  When the source application is known the nonce of the answer is not compared, so a
  late answer to an earlier request is given to the later one.
- *XPC on macOS.*  An interrupted connection is not invalidated.  The compare and set of the endpoint
  compares only the provider type: a switch there and back while the dispatcher is asked leaves the
  other provider's endpoint (the exception in `CacheOfProvider`).  A manual selection or a reset may
  overwrite a provider told in between.  A retry may send a request that the broker has processed
  already, and the reply of the first attempt is dropped when it comes late; an interactive request,
  which has no watchdog, may then wait forever.  `clearCachedBrokerInstanceEndpoint` clears also the
  fresh endpoint of another request.

## 5. What is proved

The proofs hold for every value of the constants that satisfies the assumption of the module: any
number of requests, clients, threads, keys or providers, and no bound on faults and changes.  Each
proof module starts with the invariant it uses and says there what its parts are for.  The argument
is always the same: the invariant holds initially, each action preserves each part, and the property
follows from it.  What is added to the property is described here.  Every safety invariant and action
property that a passing run checks is a theorem, and so are the refinements: that of `LRUOrder`, and
those of `CompletionBlock` by four components.

**CompletionBlock.**  `PromiseKept` of `SilentTokenRequestProofs`, `InteractiveRequestProofs`,
`BrokerInteractiveProofs` and `XpcSingleSignOnProofs` (`Spec => KeepsPromise`).  Each maps every step to `Ask`,
`Reply` or `Lose`, or to a stutter, and rests on the invariant the module has anyway; what is added is
this.

- `SilentTokenRequest`: no step of a request leads back to idle, since its stage rises, and a request
  that is done has one of the six results; so a step is `Ask`, `Reply` or nothing.  Killing a client
  is one `Lose` of all its requests, none of which is idle: an idle request has no client, which
  needs the assumption that "nobody" is the name of none.  The run of this module does not check
  `KeepsPromise`, as its other properties fill the time; TLC does confirm it on the same
  instance (6,094,074 states without symmetry, five minutes).
- `WebviewSession`: the start that finds its controller gone (`Show`) is `Lose`, and a lost session
  has no block anywhere that a later step could call.
- `BrokerInteractive`: the end of the process is `Lose` of all who wait.  Who answers is a controller
  that still has its block, and a block is the witness that its caller waits in this process (`Once`);
  so an answer to a request of an earlier process finds none.
- `XpcSingleSignOn`: a request has been made when its first attempt has begun, and no later record of
  it looks like one that has not, because it keeps `useCachedEndpoint` (`Stays`, `GoesOn`).  A claim is
  `Reply`, since an attempt that has not completed finds nothing answered; what else the callbacks, the
  timers and the second attempt do is a stutter.

**LRUCache** (assumption `LRUAssumption`: sizes are natural numbers, the signatures are finite, the
dummies, NIL, keys, records and nodes are different things).  `TypeCorrect`, `LinksAlwaysAgree`,
`NodesHaveOneKey`, `NeverOverfull`.  That both directions of the links agree is not inductive: a
list whose links agree may have a second, detached ring, and evicting the node before the tail must
not unlink the head.  The strengthening is `Chained`: there is a sequence of distinct addresses from
HEAD to TAIL that contains every node, each linked to the next.  `UnlinkChain` and `PushChain` show
what the two rewriting steps do to such a sequence: drop one inner element, insert one after the
head.  From these follow `TouchInv`, `SetNewInv`, `RemoveInv`, `RemoveAllInv`, one for each kind of
operation, `StepInv`, and `Invariance`.  `NeverOverfull` needs finiteness of the live nodes
(`LiveFinite`) and the library's facts about cardinality.  `LinksAgree` follows from the chain
(`ChainLinks`).

`IsAnOrder` is the refinement: every behaviour of `LRUCache` is one of `LRUOrder`, under the mapping
`Order`, `Value`, `Dangling`.  A chain whose inner addresses are those of a sequence of keys is
`Linked`; `LinkedUnlink` and `LinkedPush` say that the two rewriting steps take a key out of that
sequence and put one in front, which is what the operations of `LRUOrder` do.  `Order` is a choice, so
it must be shown that there is no other: the links determine the sequence (`LinksDetermine`), as the
first place where two of them differed would have two successors.  `StepImplements` goes through the
operations: eviction of the last key is eviction of the last node, and the key it leaves mapped is the
one that dangles.

**Throttling** (`ThrottlingAssumption`: strict and full thumbprints differ, the lengths are positive,
NIL is no record, thumbprint, time or delay). `RefusedWithOwnError`, `RefusedForALimitedTime`,
`SuccessLiftsDemand`, `RemovesWhatItSaw`, `TypeCorrect`, `DatabaseInOrder`. `Stored`: a record is under
the thumbprint its kind gives to the request whose error it holds, and lasts no longer than its model
allows. `Sees`: the same of the record a request has looked up, which may have been replaced since;
`Current`: what is there by now is that record or one stored later. `Refused`: what the decision was
made from; about the last success it speaks for requests that are not in `unread`. `Remembered`: the
time in the keychain is that of the last success that was saved, in whole seconds, and no earlier than
what any request in progress had before it; so `SuccessLiftsDemand` holds however many later saves fail.
None of this depends on which key the database evicts, so the order of the keys does not appear there.
It has an invariant of its own, `Orders`: the keys in the order are those that have a record, each is
there once, a key that dangles has none, and there are no more than the database may hold. `TypeCorrect`
needs both.

**AuthorityResolver** (`ResolverAssumption`: metadata are sequences of entries, NIL is no
environment, caller or record).  `TypeCorrect`, `ValidatedWasAccepted`, `AnsweredIsNotAskedAgain`,
`AliasesShareRecord`, `NoHostLookedUpTwice`.
`Waits`: a caller waits for exactly one block, queued or at work, so a block answers the question its
caller asked.  `Vouched`: whatever is stored, or still to be stored, as validated was accepted.
`Settled`: an environment that has been answered for is in the cache, unless the block at work is
just storing it.

- `AliasesShareRecord` (`AliasesAgree`) is about a record that is stored alias by alias while others
  read the cache.  `Sharing`: the environment of a block that has sent its request is not in the cache;
  an alias of an entry that is being stored is still to be written or has the entry's record; and an
  alias of any record in the cache has that record, or the block at work will give it to it.  The
  theorem has a hypothesis, `Consistent`: two entries of responses that have an alias in common are
  the same entry.  Without it the property is false: the code stores what it is told, and a
  response that moved a host to another entry would leave the old record under the other aliases of
  the old one.  The metadata of the run satisfy it.
- `NoHostLookedUpTwice` (`LookupsDistinct`) has the hypothesis `AliasesListedOnce`: no entry lists an
  alias twice.  The loop does not look for such a repetition, so it would repeat it.  `OthersAre` is
  the lemma on the loop: it collects the aliases that are not skipped, and each once if each is
  listed once.

**AccountMetadata** (`MetadataAssumption`: each thread has one cache, the items at the start are
items, NIL is no account, metadata or item).  `TypeCorrect`, `RemembersWhatWasStored`,
`WritesKeepOthers`, `UpdatesAreInEffect`.  A copy in a memory (`Kept`) or with a thread (`Copies`)
that has the present version is a copy of what the keychain holds; so an edit of it changes nothing
else, and a comparison with it that finds no difference may skip the save.

**BrokerInteractive** (`BrokerAssumption`: NIL is no request). `TypeCorrect`, `AnsweredOnce`,
`OneInProgress`, `TokensReachOwner`, `PromiseKept`. The completion block of a controller is the witness that its
caller waits (`Once`), with one exception: a request that could not be prepared is answered and its
block stays. Such a controller is referred to by no static, no handler and no open under way, so
nothing can call the block again. `ForKnown`: the main thread has work for no controller only in two
kinds of steps.

`OneInProgress` (`ProgressAgrees`) and `TokensReachOwner` (`OwnTokens`) hold as long as nothing has
crossed that usually does not (`crossed`: two requests start at once, or one starts, or waits for
the outcome of an open, while the main thread handles an event). The invariant is `Agree`. `Alone`:
nothing crosses now, either. `Started`: a request that starts has the statics its stage says and
finds no controller set. `InProgress`: an open is for the current controller, and the current
controller, the current request and the resume dictionary agree unless the main thread is at the end
of a request; what is left of its steps tells which of the three are reset already (`ToEnd`,
`Ended`). `TokensAgree`: tokens whose nonce was compared with the resume dictionary are of the
request they are given to. `Completes` names the lists of steps literally for that reason.

**XpcSingleSignOn** (`XpcAssumption`: the preferred provider is one of the providers, NIL is none,
silent requests are requests).  `TypeCorrect`, `AnsweredAtMostOnce`, `OwnEndIsNoFailure`,
`FailureAfterDispatcher`, `EndpointOfProvider`, `PromiseKept`.  `InTurn`: the attempts of a request follow each
other; as long as one is open, or is to be repeated, nothing has been answered, and the second begins
only when the first can no longer answer.  `Sound`: which callbacks may be due, by what an attempt
has behind it.  `CacheOfProvider` with its exception is inductive by itself.

**SilentTokenRequest** (`TokenCacheAssumption`, `SilentAssumption`: members are clients, no
client is called "nobody", no two clients got the same answer before).  `TypeCorrect`, `RequestsMoveOn`, `RejectedStaysGone`,
`InteractionIsNeeded`, which are all the properties of the run, and `PromiseKept`.

- Every step of one request is a `Moves`: its record has its type, what it holds fits its place
  (`Placed`), its stage rises, a token it goes on to present was read from its entry, and what it
  saves is what it saved before or a new answer.  The lemmas `HandlesMoves` and `FaultyMoves` go
  through the thirty actions; the rest rests on `Moves` and on `CacheSteps`, which says the same of
  the cache: an entry keeps its token, loses it, or gets the one this request is writing there.
- `RejectedStaysGone` needs that no save under way puts a rejected token back.  `Known`: nobody knows
  a token that has not been issued; `Apart`: no two requests save the same answer; `Pending`: a token
  yet to be written to an entry has not been in such an entry, and nobody has presented it from
  there.  So what is written is never what was rejected (`NotPutBack`), and the entry holds a
  rejected token only while the request that rejected it is removing it (`Removed`).
- `InteractionIsNeeded` follows the usable tokens along the request (`Justified`): after the client's
  own token was not found only the family's can be left; with a token in hand, that token, and the
  family's if it is the client's own; after a refusal, not that token.

**WebviewSession** (`WebviewAssumption`: None is no session) and **HttpRequest**
(`TelemetryAssumption`, `HttpAssumption`: errors have a positive size, the archive holds at least one,
the limits are natural numbers, NIL is no request and no list of errors).  An interactive request goes
through the one and then the other; they share no state, and each has its invariant in
`InteractiveRequestProofs`.

- `Invariance`, `TypeCorrect`, `CallerAnsweredOnce`, `AloneWithoutCancel`, `PromiseKept` of `WebviewSession`.
  `OneBlock`: the completion block of a caller not yet answered is in one place, with the controller
  or with the main thread.  `EndedFirst`: what is being dismissed or answered has ended.  `OfCurrent`:
  without a cancellation everything that can still answer is of the current session.
- `HttpTypeCorrect`, `OldestIsCut`, `ForgetsWhatWasReported` of `HttpRequest`.  `Recorded`: in memory,
  in the item and in the file the errors are in the order of recording, and no more than the archive
  holds; so the place where a string is cut separates the newer from the older ones (`Splits`), and a
  list read from the file at a restart goes on in that order.  `Attempts`: a completion block is added
  for an attempt, and there is one fewer than attempts allowed while none is under way.  `Accounted`:
  every error waiting is in the last string made, was recorded after it, or is kept by the item;
  recording, trimming, further resets and the end of the request leave that true, and so a success,
  which leaves what the item keeps, forgets nothing else.  The sizes of the errors do not matter: that
  there is a place to cut is shown without the sum (`RoomExists`).

The theorems of `AccountMetadata`, `SilentTokenRequest`, `XpcSingleSignOn` and the others hold for all
interleavings, faults and restarts the modules allow, without the bounds of the runs.

Only model-checked: the liveness properties (`EveryCallerAnswered`, `EveryRequestCompletes`,
`EndedIsAnswered`, `AnswerComes`, `AnswersCome`), since liveness under fairness and ENABLED are out of
the prover's reach; and the three violations of section 4.  Not used in the proofs: the library's
theorems of induction, which take an operator as a parameter.  Where induction is needed (the links
determine the order; the error string has a place to be cut; what the loop over the aliases collects)
the least number for which the claim fails is taken instead (`Least`, from the library's theorem that
a well-founded set has a minimal element).  A recursive function is met by the same argument: a
function that satisfies the equations exists, and two that do are equal.

## 6. What is not modelled, and what comes next

PROJECT.json lists every component with its status and the reason.  Conversions, cryptography,
logging, parameters and calls of the system's keychain, URL session and web view are left to the
platform or have no state.  One hazard is listed without a property, a completion block of the
resolver that waits for another authority: what such a block does belongs to its caller.

The system web views are left out for a reason of their own: what they do after a cancellation
depends on whether the operating system still calls the block of a cancelled
`ASWebAuthenticationSession`, which the code does not settle (`dismiss` guards against such a call,
`cancelProgrammatically` does not).  A model would have to leave it open.

What would come next, in this order:

1. The fallback chain of the silent and interactive controllers above `SilentTokenRequest`,
   `BrokerInteractive` and `XpcSingleSignOn`.  All three implement `CompletionBlock`, so the chain can
   be modelled over that module in their place, and should implement it itself.
2. The interactive request above `WebviewSession`; system web views, switch-browser operations and
   background tasks, challenge handlers.
3. The mode of the silent request that tries single family refresh tokens first, and bound refresh
   tokens; the legacy accessor as a fallback.
4. The in-memory cache of macOS, the Intune caches, the flush of telemetry events.
5. Theorems: every safety property the runs check is proved; next are properties the runs do not
   state yet, the size of the telemetry string (which adds the sums of `TextSize`) and the refinement
   of `CompletionBlock` by the chain of item 1.

## 7. Running

In this directory: `tlc -workers 2 -config MCLRUCache.cfg MCLRUCache.tla` and so on for each
configuration (PROJECT.json pairs them), and `tlapm LRUCacheProofs.tla` and so on for each of the
eight modules whose name ends in `Proofs`.  The longest runs, `broker`, `metadata`, `silent` and `throttling`,
take two to three minutes each; the longest proof module, `SilentTokenRequestProofs`, about one.
