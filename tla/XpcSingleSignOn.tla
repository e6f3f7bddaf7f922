-------------------------- MODULE XpcSingleSignOn --------------------------
(***************************************************************************)
(* Requests to a broker over XPC on macOS (MSIDXpcSingleSignOnProvider)    *)
(* and the cache they share (MSIDXpcProviderCache).  A request first asks  *)
(* a dispatcher for the endpoint of a broker instance, or takes the one    *)
(* the cache keeps, connects to it and sends its message.  An attempt on a *)
(* cached endpoint that fails is repeated once through the dispatcher.     *)
(*                                                                         *)
(* Every callback (replies, handlers of the two connections, timers) runs  *)
(* on a queue of its own, and those of one attempt meet in two flags and a *)
(* claim, each behind a lock.  todo holds the callbacks of an attempt that *)
(* are still to run, or are between two accesses; they run in any order.   *)
(* An access to the provider cache is one block on its queue, one step.    *)
(*                                                                         *)
(* Dispatchers, broker instances and the applications they are part of are *)
(* external.  An endpoint is known by its provider: whether the instance   *)
(* behind it still runs is left open, as it may be silent or break a       *)
(* connection at any time.                                                 *)
(***************************************************************************)
EXTENDS Naturals, Sequences, FiniteSets

CONSTANTS
    Requests,
    Silent,       \* the silent ones among them: they have a reply watchdog
    Providers,    \* the applications with a broker
    Preferred,    \* the one chosen when nothing else is known
    NIL,          \* no endpoint, an unknown provider
    MaxRequests,  \* bound: requests followed; OtherStores and OtherClears are the rest
    MaxChanges    \* bound: changes from outside, checks

ASSUME XpcAssumption ==
    /\ Silent \subseteq Requests
    /\ NIL \notin Providers /\ Preferred \in Providers
    /\ MaxRequests \in Nat /\ MaxChanges \in Nat

\* Two attempts are what the code makes; the third is there to be ruled out.
Attempts == Requests \X (1..3)

VARIABLES
    provider,   \* cachedXpcProviderType, and the configuration made from it
    cached,     \* cachedBrokerInstanceEndpoint
    attempt,    \* attempt[<<r, n>>] : the n-th attempt of request r
    answers,    \* answers[r] : what continueBlock of r was called with
    checker,    \* a call of canPerformRequest
    installed,  \* the providers on the device
    changes     \* those bounded by MaxChanges

cache == <<provider, cached>>
world == <<installed, changes>>
vars == <<cache, attempt, answers, checker, world>>

Callbacks == {"config", "capture", "name", "endpoint", "open", "ready", "failed", "failing",
              "invalidated", "closing", "retry", "reply", "replying", "timeout"}

\* lookup and link: the connections to the dispatcher and to the instance.
\* outerCompleted says who has claimed the completion.
Attempt == [fromCache : BOOLEAN, useCachedEndpoint : BOOLEAN, todo : SUBSET Callbacks,
            captured : Providers \cup {NIL}, target : Providers \cup {NIL},
            endpoint : Providers \cup {NIL},
            lookup : {"none", "open", "timed", "closed"},
            link : {"none", "up", "refused", "interrupted", "closed"},
            message : {"none", "sent", "gone"}, watch : {"off", "on"},
            requestReplyReceived : BOOLEAN,
            outerCompleted : {"no", "failing", "closing", "replying", "timeout"}]

NotBegun == [fromCache |-> FALSE, useCachedEndpoint |-> FALSE, todo |-> {},
             captured |-> NIL, target |-> NIL, endpoint |-> NIL, lookup |-> "none",
             link |-> "none", message |-> "none", watch |-> "off", requestReplyReceived |-> FALSE,
             outerCompleted |-> "no"]

\* attemptBrokerRequest: the cached endpoint, or the way by the dispatcher.
Begun(useCached) ==
    LET found == IF useCached THEN cached ELSE NIL
    IN [NotBegun EXCEPT !.fromCache = found # NIL, !.useCachedEndpoint = useCached,
                        !.endpoint = found, !.todo = {"config"}]

Completed(a) == attempt[a].outerCompleted # "no"
Runs(a, callback) == callback \in attempt[a].todo
Then(a, from, next) == (attempt[a].todo \ {from}) \cup next

Idle == [at |-> "idle", flags |-> {}, choice |-> NIL]

TypeOK ==
    /\ provider \in Providers \cup {NIL}
    /\ cached \in Providers \cup {NIL}
    /\ attempt \in [Attempts -> Attempt]
    /\ answers \in [Requests -> Seq({"transport", "timeout", "reply"})]
    /\ checker \in [at : {"idle", "wait", "validate", "switch", "reset"},
                    flags : SUBSET Providers, choice : {NIL}]
                   \cup [at : {"select"}, flags : SUBSET Providers, choice : Providers]
    /\ installed \subseteq Providers
    /\ changes \in 0..MaxChanges

Init ==
    /\ provider \in Providers \cup {NIL}
    /\ cached = NIL
    /\ attempt = [a \in Attempts |-> NotBegun]
    /\ answers = [r \in Requests |-> <<>>]
    /\ checker = Idle
    /\ installed \in {Providers, {Preferred}}
    /\ changes = 0

-----------------------------------------------------------------------------
(* The dispatcher: getXpcService:requestCompleted:withContinueBlock: *)

Set(a, new) == attempt' = [attempt EXCEPT ![a] = new]
Only(a, new) == Set(a, new) /\ UNCHANGED <<cache, answers, checker, world>>

\* handleRequestParam:, with the instance cache switched on.
Start(r) ==
    /\ attempt[<<r, 1>>] = NotBegun
    /\ Cardinality({q \in Requests : attempt[<<q, 1>>] # NotBegun}) < MaxRequests
    /\ Only(<<r, 1>>, Begun(TRUE))

\* Either way the configuration must be there when it is first read.  It is read
\* again for the name of the dispatcher and for the instance, and may be gone.
CheckConfiguration(a) ==
    /\ Runs(a, "config")
    /\ LET next == IF provider = NIL THEN "failed"
                   ELSE IF attempt[a].fromCache THEN "open" ELSE "capture"
       IN Only(a, [attempt[a] EXCEPT !.todo = Then(a, "config", {next})])

\* The provider type is read for the cache.
Capture(a) ==
    /\ Runs(a, "capture")
    /\ Only(a, [attempt[a] EXCEPT !.todo = Then(a, "capture", {"name"}), !.captured = provider])

\* The name of the dispatcher is taken from the configuration; the connection is
\* resumed, the message sent and the lookup timer started.
OpenLookup(a) ==
    /\ Runs(a, "name")
    /\ Only(a, [attempt[a] EXCEPT !.todo = Then(a, "name", {}),
                                  !.target = provider, !.lookup = "open"])

\* Once the request is completed, what comes from the dispatcher is dropped.
Looking(a) == attempt[a].lookup \in {"open", "timed"} /\ ~Completed(a)

\* The dispatcher gives the endpoint of the instance that runs.
LookupReplies(a) ==
    /\ Looking(a) /\ attempt[a].target \in installed
    /\ Only(a, [attempt[a] EXCEPT !.lookup = "closed", !.endpoint = attempt[a].target,
                                  !.todo = @ \cup {"endpoint"}])

\* An error from the dispatcher, an interruption, an invalidation.
LookupFails(a) ==
    /\ Looking(a)
    /\ Only(a, [attempt[a] EXCEPT !.lookup = "closed", !.todo = @ \cup {"failed"}])

\* MSIDXpcDispatcherEndpointLookupTimeout: the timer tests that nothing has come;
\* the answer may come while it goes on.
LookupTimer(a) ==
    /\ Looking(a) /\ attempt[a].lookup = "open"
    /\ Only(a, [attempt[a] EXCEPT !.lookup = "timed", !.todo = @ \cup {"failed"}])

\* Deviation: the endpoint is stored whatever the provider is by now.
StoresAlways(a) == TRUE

\* setCachedBrokerInstanceEndpoint:forProviderType: compares before it stores.
Stores(a) == provider = attempt[a].captured

StoreEndpoint(a) ==
    /\ Runs(a, "endpoint")
    /\ cached' = IF Stores(a) THEN attempt[a].endpoint ELSE cached
    /\ Set(a, [attempt[a] EXCEPT !.todo = Then(a, "endpoint", {"open"})])
    /\ UNCHANGED <<provider, answers, checker, world>>

-----------------------------------------------------------------------------
(* The connection to the instance, and the end of an attempt. *)

\* The connection demands the signature of the configured provider's broker, which
\* nobody has without a configuration.  Its handlers are there before it is resumed.
OpenDirect(a) ==
    /\ Runs(a, "open")
    /\ Only(a, [attempt[a] EXCEPT
                  !.todo = Then(a, "open", {"ready"}),
                  !.link = IF provider = attempt[a].endpoint THEN "up" ELSE "refused"])

\* Deviation: the watchdog is set on the way by the dispatcher only.
WatchedByDispatcher(a) == a[1] \in Silent /\ ~attempt[a].fromCache

\* brokerReplyTimeout > 0
Watched(a) == a[1] \in Silent

\* continueBlockInternal with a service: the watchdog is set and the message sent.
\* On a connection that has ended the message fails.
Ready(a) ==
    /\ Runs(a, "ready")
    /\ LET dead == attempt[a].link = "closed"
       IN Only(a, IF Completed(a)
                  THEN [attempt[a] EXCEPT !.todo = Then(a, "ready", {"invalidated"}),
                                          !.link = "closed"]
                  ELSE [attempt[a] EXCEPT !.todo = Then(a, "ready", IF dead THEN {"failed"} ELSE {}),
                                          !.message = IF dead THEN "gone" ELSE "sent",
                                          !.watch = IF Watched(a) THEN "on" ELSE "off"])

\* The other side interrupts or ends the connection; what was sent is lost.  Once the
\* request is completed, the handlers do nothing.
ConnectionFails(a) ==
    /\ attempt[a].link \in {"up", "refused"} /\ ~Completed(a)
    /\ Only(a, [attempt[a] EXCEPT !.link = IF @ = "up" THEN "interrupted" ELSE "closed",
                                  !.message = IF @ = "sent" THEN "gone" ELSE @,
                                  !.todo = @ \cup {"failed"}])

BrokerReplies(a) ==
    /\ attempt[a].message = "sent" /\ attempt[a].link \in {"up", "interrupted"}
    /\ attempt[a].endpoint \in installed
    /\ Only(a, [attempt[a] EXCEPT !.message = "gone", !.todo = @ \cup {"reply"}])

\* continueBlockInternal without a service, from a handler of a connection that
\* failed or that the attempt itself has closed: first the tests ...
NoteFailure(a) ==
    \E step \in {<<"failed", "failing">>, <<"invalidated", "closing">>} :
        /\ Runs(a, step[1])
        /\ Only(a, [attempt[a] EXCEPT
                      !.todo = Then(a, step[1],
                                    IF Completed(a) \/ attempt[a].requestReplyReceived
                                    THEN {} ELSE {step[2]})])

Claimed(a, by) == [attempt[a] EXCEPT !.todo = Then(a, by, {}), !.outerCompleted = by]
Dropped(a, by) == [attempt[a] EXCEPT !.todo = Then(a, by, {})]
Answered(r, how) == answers' = [answers EXCEPT ![r] = Append(@, how)]

\* ... and then the claim.  The failure is told, or the attempt repeated.
ClaimFailure(a) ==
    \E by \in {"failing", "closing"} :
        /\ Runs(a, by)
        /\ IF Completed(a)
           THEN Only(a, Dropped(a, by))
           ELSE IF attempt[a].fromCache /\ attempt[a].useCachedEndpoint
           THEN Only(a, [Claimed(a, by) EXCEPT !.todo = @ \cup {"retry"}])
           ELSE /\ Set(a, Claimed(a, by)) /\ Answered(a[1], "transport")
                /\ UNCHANGED <<cache, checker, world>>

\* Deviation: the second attempt takes the cached endpoint again, before it is cleared.
SecondUsesCache == TRUE

SecondUseCachedEndpoint == FALSE

\* clearCachedBrokerInstanceEndpoint, and the recursive attemptBrokerRequest.
Retry(a) ==
    /\ Runs(a, "retry") /\ a[2] < 3
    /\ cached' = NIL
    /\ attempt' = [attempt EXCEPT ![a].todo = Then(a, "retry", {}),
                                  ![<<a[1], a[2] + 1>>] = Begun(SecondUseCachedEndpoint)]
    /\ UNCHANGED <<provider, answers, checker, world>>

\* MSIDXpcBrokerReplyTimeout
Watchdog(a) ==
    /\ attempt[a].watch = "on"
    /\ Only(a, [attempt[a] EXCEPT
                  !.watch = "off",
                  !.todo = IF attempt[a].requestReplyReceived THEN @ ELSE @ \cup {"timeout"}])

ClaimTimeout(a) ==
    /\ Runs(a, "timeout")
    /\ IF Completed(a)
       THEN Only(a, Dropped(a, "timeout"))
       ELSE /\ Set(a, [Claimed(a, "timeout") EXCEPT !.todo = @ \cup {"invalidated"},
                                                   !.link = "closed", !.message = "gone"])
            /\ Answered(a[1], "timeout")
            /\ UNCHANGED <<cache, checker, world>>

\* Deviation: the reply is not marked as received.
UnmarkedReply(a) == FALSE

\* markReplyReceived
MarkedReply(a) == TRUE

\* The broker's reply: it is marked before the connection is invalidated.
NoteReply(a) ==
    /\ Runs(a, "reply")
    /\ Only(a, IF Completed(a)
               THEN [Dropped(a, "reply") EXCEPT !.requestReplyReceived = MarkedReply(a)]
               ELSE [attempt[a] EXCEPT !.todo = Then(a, "reply", {"replying", "invalidated"}),
                                       !.requestReplyReceived = MarkedReply(a),
                                       !.link = "closed"])

\* Deviation: the reply is told without a claim.
ReplyTakes(a) == TRUE

\* claimCompletion, for the reply.
MayReply(a) == ~Completed(a)

ClaimReply(a) ==
    /\ Runs(a, "replying")
    /\ IF MayReply(a)
       THEN /\ Set(a, Claimed(a, "replying")) /\ Answered(a[1], "reply")
            /\ UNCHANGED <<cache, checker, world>>
       ELSE Only(a, Dropped(a, "replying"))

-----------------------------------------------------------------------------
(* canPerformRequest: and the choice of a provider *)

Change == changes < MaxChanges /\ changes' = changes + 1

Checker(new) == checker' = new /\ UNCHANGED <<cache, attempt, answers, world>>

\* The installed providers are looked up.  Without a configuration the extension, if
\* it is there, is asked for its device info, for one second; the check ends if that
\* request cannot be made.
BeginCheck ==
    /\ Change /\ checker.at = "idle"
    /\ \E next \in IF provider = NIL THEN {"idle", "wait", "validate"} ELSE {"validate"} :
          checker' = IF installed = {} \/ next = "idle" THEN Idle
                     ELSE [at |-> next, flags |-> installed, choice |-> NIL]
    /\ UNCHANGED <<cache, attempt, answers, installed>>

EndWait ==
    /\ checker.at = "wait"
    /\ Checker([checker EXCEPT !.at = "validate"])

Choose(p) == Checker([checker EXCEPT !.at = "select", !.choice = p])

\* validateCacheXpcProvider: without a configuration one of the providers found ...
Validate ==
    /\ checker.at = "validate"
    /\ IF provider = NIL
       THEN \E p \in checker.flags :
               (Preferred \in checker.flags => p = Preferred) /\ Choose(p)
       ELSE Checker(IF provider \in installed THEN Idle ELSE [checker EXCEPT !.at = "switch"])

\* ... and for a provider that has gone another one, if there is one.
Switch ==
    /\ checker.at = "switch"
    /\ IF provider = NIL \/ checker.flags \subseteq {provider}
       THEN Checker([checker EXCEPT !.at = "reset"])
       ELSE \E p \in checker.flags \ {provider} : Choose(p)

\* setCachedXpcProviderType:
SetProvider(p) == provider' = p /\ cached' = NIL

\* The choice is stored; an unknown provider, if there was none.
Select ==
    /\ checker.at \in {"select", "reset"}
    /\ SetProvider(checker.choice)
    /\ checker' = Idle
    /\ UNCHANGED <<attempt, answers, world>>

\* updateSsoProviderType: a device info that names its provider is received.
Told(p) ==
    /\ Change
    /\ SetProvider(p)
    /\ UNCHANGED <<attempt, answers, checker, installed>>

-----------------------------------------------------------------------------
(* The surroundings *)

\* What the other requests of the process do to the cache.
OtherStores(p) ==
    /\ Change /\ provider = p /\ cached' = p
    /\ UNCHANGED <<provider, attempt, answers, checker, installed>>

OtherClears ==
    /\ Change /\ cached # NIL /\ cached' = NIL
    /\ UNCHANGED <<provider, attempt, answers, checker, installed>>

Uninstall(p) ==
    /\ Change /\ p \in installed
    /\ installed' = installed \ {p}
    /\ UNCHANGED <<cache, attempt, answers, checker>>

-----------------------------------------------------------------------------
\* What runs by itself: callbacks that are due, and timers.
Own(a) ==
    \/ CheckConfiguration(a) \/ Capture(a) \/ OpenLookup(a) \/ LookupTimer(a)
    \/ StoreEndpoint(a) \/ OpenDirect(a) \/ Ready(a)
    \/ NoteFailure(a) \/ ClaimFailure(a) \/ Retry(a)
    \/ Watchdog(a) \/ ClaimTimeout(a) \/ NoteReply(a) \/ ClaimReply(a)

Other(a) == LookupReplies(a) \/ LookupFails(a) \/ ConnectionFails(a) \/ BrokerReplies(a)

Next ==
    \/ \E r \in Requests : Start(r)
    \/ \E a \in Attempts : Own(a) \/ Other(a)
    \/ BeginCheck \/ EndWait \/ Validate \/ Switch \/ Select
    \/ \E p \in Providers : Told(p) \/ OtherStores(p) \/ Uninstall(p)
    \/ OtherClears

Spec == Init /\ [][Next]_vars

\* The queues run what is due on them, and the timers end.
FairSpec == Spec /\ \A r \in Requests : WF_vars(\E n \in 1..3 : Own(<<r, n>>))

-----------------------------------------------------------------------------
\* The caller's block is called at most once, over all callbacks of both attempts.
AtMostOneAnswer == \A r \in Requests : Len(answers[r]) <= 1

\* What a caller may rely on, over both attempts: one answer, after the request was made.
\* The second attempt adds nothing to what the first has answered.
Standing == [r \in Requests |->
    IF answers[r] # <<>> THEN "answered"
    ELSE IF attempt[<<r, 1>>] = NotBegun THEN "new" ELSE "waiting"]

Promise == INSTANCE CompletionBlock
    WITH Callers <- Requests, Replies <- {"transport", "timeout", "reply"},
         standing <- Standing, replies <- answers

\* All callbacks and timers of both attempts together treat continueBlock as CompletionBlock
\* says.
KeepsPromise == Promise!Spec

\* The end of a connection that the attempt itself has closed, after the reply, the
\* timeout or another failure, is never taken for a failure of the broker.
NoFalseFailure == \A a \in Attempts : attempt[a].outerCompleted # "closing"

\* A request tries twice at most, and its failure is told only when it has been to the
\* dispatcher.
TriedDispatcher ==
    \A r \in Requests :
        /\ attempt[<<r, 3>>] = NotBegun
        /\ answers[r] = <<"transport">> =>
              \E n \in 1..2 : ~attempt[<<r, n>>].fromCache /\ Completed(<<r, n>>)

\* The endpoint kept is one of the provider that is set: a switch of the provider while
\* the dispatcher is asked does not leave the other's endpoint behind.  The exception is
\* a switch there and back around the reading of the dispatcher's name.
CacheOfProvider ==
    cached # NIL /\ cached # provider =>
        \E a \in Attempts : /\ attempt[a].captured = provider
                            /\ attempt[a].target = cached

\* A silent request is answered whatever its broker does; an interactive one, which has
\* no watchdog, when its way by the dispatcher has failed.
AnswersCome ==
    \A r \in Requests :
        IF r \in Silent THEN attempt[<<r, 1>>] # NotBegun ~> answers[r] # <<>>
        ELSE (\E n \in 1..3 : ~attempt[<<r, n>>].fromCache /\ Runs(<<r, n>>, "failed"))
                ~> answers[r] # <<>>

\* Said of the cache: it is cleared on every failure of a connection made from it.  When
\* a failure is told, the endpoint of that attempt is no longer kept.
FailedEndpointDropped ==
    [][\A a \in Attempts :
          attempt[a].fromCache /\ ~Completed(a) /\ answers'[a[1]] \in {<<"transport">>, <<"timeout">>}
          => cached' # attempt[a].endpoint]_vars
=============================================================================
