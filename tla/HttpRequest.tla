---------------------------- MODULE HttpRequest ----------------------------
(***************************************************************************)
(* MSIDHttpRequest and MSIDAADRequestErrorHandler: token requests that are *)
(* sent, retried, answered to PKeyAuth challenges and completed, and what  *)
(* each of those steps does to the telemetry all requests share.           *)
(*                                                                         *)
(* Every response is given a completion block that updates the telemetry   *)
(* and then calls the block the attempt was sent with.  A retry and the    *)
(* answer to a challenge are sent with that completion block, so a request *)
(* of n attempts unwinds n blocks and updates the telemetry n times.       *)
(***************************************************************************)
EXTENDS RequestTelemetry

CONSTANTS
    Requests,       \* MSIDHttpRequest objects, each may be used again
    RetryCount,     \* s_retryCount
    OtherFlows,     \* whether other flows update the telemetry meanwhile
    MaxSends,       \* bound on the requests started
    MaxChallenges   \* bound on the challenges of one request

ASSUME HttpAssumption ==
    /\ {RetryCount, MaxSends, MaxChallenges} \subseteq Nat
    /\ OtherFlows \in BOOLEAN
    /\ NIL \notin Requests

VARIABLES
    pc,             \* where the request is
    retryCounter,   \* retryCounter
    blocks,         \* completion blocks between the response and the caller
    challenges,     \* challenges answered
    outcome,        \* what the completion blocks are called with
    string,         \* the last-request string of the latest attempt
    started,        \* requests started (history)
    since,          \* request -> `recorded' when it serialized (history)
    latest          \* the request whose item the telemetry keeps (history)

request  == <<pc, retryCounter, blocks, challenges, outcome, string>>
history  == <<started, since, latest>>
httpVars == <<telemetry, request, history>>

NoString == [carried |-> {}, marks |-> 0, size |-> 0]

HttpInit ==
    /\ InitTelemetry
    /\ pc = [r \in Requests |-> "idle"]
    /\ retryCounter = [r \in Requests |-> RetryCount]
    /\ blocks = [r \in Requests |-> 0]
    /\ challenges = [r \in Requests |-> 0]
    /\ outcome = [r \in Requests |-> NIL]
    /\ string = [r \in Requests |-> NoString]
    /\ started = 0
    /\ since = [r \in Requests |-> 0]
    /\ latest = NIL

Goto(r, there) == pc' = [pc EXCEPT ![r] = there]

-----------------------------------------------------------------------------
\* The objects of the requests S are gone: the next one is initialised.
Release(S) ==
    LET Fresh(f, v) == [r \in Requests |-> IF r \in S THEN v ELSE f[r]]
    IN /\ pc' = Fresh(pc, "idle")
       /\ retryCounter' = Fresh(retryCounter, RetryCount)
       /\ blocks' = Fresh(blocks, 0)
       /\ challenges' = Fresh(challenges, 0)
       /\ outcome' = Fresh(outcome, NIL)
       /\ string' = Fresh(string, NoString)
       /\ since' = Fresh(since, 0)

\* A caller makes a request.
Start(r) ==
    /\ pc[r] = "idle" /\ started < MaxSends
    /\ Goto(r, "send")
    /\ started' = started + 1
    /\ UNCHANGED <<telemetry, retryCounter, blocks, challenges, outcome, string,
                   since, latest>>

\* sendWithBlock and sendRequestWithCompletionBlock, for the first attempt, a
\* retry or the answer to a challenge: the telemetry is put in the headers and
\* the data task, with one more completion block, is resumed.
Send(r) ==
    /\ pc[r] = "send"
    /\ Goto(r, "network")
    /\ Serialize
    /\ string' = [string EXCEPT ![r] = String]
    /\ blocks' = [blocks EXCEPT ![r] = @ + 1]
    /\ since' = [since EXCEPT ![r] = recorded]
    /\ latest' = r
    /\ UNCHANGED <<retryCounter, challenges, outcome, started>>

Complete(r, o) ==
    /\ Goto(r, "unwinding")
    /\ outcome' = [outcome EXCEPT ![r] = o]
    /\ UNCHANGED <<telemetry, retryCounter, blocks, challenges, string,
                   started, since, latest>>

\* Deviation: the counter is compared but not decremented.
RetriesLeft(r) == retryCounter

\* handleError: the counter after a retry.
Decremented(r) == [retryCounter EXCEPT ![r] = @ - 1]

\* handleError: the request is sent again after retryInterval.
Retry(r) ==
    /\ retryCounter[r] > 0
    /\ Goto(r, "send")
    /\ retryCounter' = Decremented(r)
    /\ UNCHANGED <<telemetry, blocks, challenges, outcome, string,
                   started, since, latest>>

\* A response that is parsed: 200, or 400 and 401 without a PKeyAuth header.
ResponseParsed(r) ==
    pc[r] = "network" /\ Complete(r, "ok")

\* A response that cannot be parsed, or whose status is another one.
ResponseRejected(r) ==
    pc[r] = "network" /\ Complete(r, "error")

\* A 5xx response.
ServerError(r) ==
    /\ pc[r] = "network"
    /\ Retry(r) \/ (retryCounter[r] = 0 /\ Complete(r, "error"))

\* Deviation: a failure that is not retried is not passed on.
NetworkFailsQuietly(r) ==
    /\ pc[r] = "network"
    /\ \/ Retry(r)
       \/ /\ retryCounter[r] = 0
          /\ Goto(r, "unwinding") /\ blocks' = [blocks EXCEPT ![r] = 0]
          /\ UNCHANGED <<telemetry, retryCounter, challenges, outcome, string,
                         started, since, latest>>

\* No response: a network error of the kind that is retried.
NetworkFails(r) ==
    /\ pc[r] = "network"
    /\ Retry(r) \/ (retryCounter[r] = 0 /\ Complete(r, "error"))

\* No response: any other error.
TransportFails(r) ==
    pc[r] = "network" /\ Complete(r, "error")

\* 400 or 401 with a PKeyAuth header: the handler's answer, which is never
\* blank, is sent.  An ADFS server's challenge that the device can sign is
\* recorded as an error.
Challenge(r) ==
    /\ pc[r] = "network" /\ challenges[r] < MaxChallenges
    /\ Goto(r, "send")
    /\ challenges' = [challenges EXCEPT ![r] = @ + 1]
    /\ UNCHANGED telemetry \/ \E size \in Sizes : AddError(size)
    /\ UNCHANGED <<retryCounter, blocks, outcome, string, started, since, latest>>

\* A completion block updates the telemetry and calls the one it was sent
\* with, the first attempt's calls the caller's.
Unwind(r) ==
    /\ pc[r] = "unwinding"
    /\ \E size \in Sizes : Update(outcome[r], size)
    /\ \/ blocks[r] = 1 /\ Release({r})
       \/ /\ blocks[r] > 1
          /\ blocks' = [blocks EXCEPT ![r] = @ - 1]
          /\ UNCHANGED <<pc, retryCounter, challenges, outcome, string, since>>
    /\ UNCHANGED <<started, latest>>

\* Silent requests that count a token from the cache, and flows that record
\* an error of their own: the family token status of the token cache accessor,
\* the failed redemption of a bound token.
OtherFlow ==
    /\ OtherFlows
    /\ \/ IncreaseSilent
       \/ /\ recorded < MaxRecorded
          /\ \E size \in Sizes : AddError(size)
    /\ UNCHANGED <<request, history>>

\* The app is killed and started again.
Restart ==
    /\ LoadFromDisk
    /\ Release(Requests)
    /\ latest' = NIL
    /\ UNCHANGED started

Responds(r) ==
    \/ ResponseParsed(r) \/ ResponseRejected(r)
    \/ ServerError(r) \/ NetworkFails(r) \/ TransportFails(r) \/ Challenge(r)

HttpNext ==
    \/ \E r \in Requests : Start(r) \/ Send(r) \/ Responds(r) \/ Unwind(r)
    \/ OtherFlow
    \/ Restart

\* A data task ends with a response or at requestTimeoutInterval, and the
\* global queue runs its blocks.
HttpFairness ==
    \A r \in Requests :
       WF_httpVars(Send(r)) /\ WF_httpVars(Responds(r)) /\ WF_httpVars(Unwind(r))

HttpSpec == HttpInit /\ [][HttpNext]_httpVars /\ HttpFairness

-----------------------------------------------------------------------------
(* Types.  A request is never retried more often than its counter allows    *)
(* (MSIDHttpRequest.m, retryCounter), challenges in between or not: its      *)
(* completion blocks are at most one for each attempt allowed.              *)
HttpTypeOK ==
    /\ TelemetryTypeOK
    /\ pc \in [Requests -> {"idle", "send", "network", "unwinding"}]
    /\ retryCounter \in [Requests -> 0..RetryCount]
    /\ challenges \in [Requests -> 0..MaxChallenges]
    /\ \A r \in Requests :
          blocks[r] \in 0..1 + (RetryCount - retryCounter[r]) + challenges[r]
    /\ outcome \in [Requests -> {"ok", "error", NIL}]

(* A string reports the newest errors: what the item cut off is older than  *)
(* everything in the string (serializeErrorsInfoWithCurrentStringSize goes  *)
(* from the last index down), so a string that is too long delays the       *)
(* oldest errors and not the ones just recorded.                            *)
CutIsOldest ==
    latest # NIL /\ cut # NIL =>
        \A old \in Ids(cut), new \in string[latest].carried : old < new

Confirms(r) == outcome[r] = "ok" /\ Unwind(r)

Forgotten == Ids(errors) \ Ids(errors')

(* A success makes the telemetry forget only what the request reported or   *)
(* could not know of when it was sent: while its item is the current one,   *)
(* it forgets what its own string carried and what was recorded while it    *)
(* was in progress, nothing else (resetTelemetry keeps what the item cut    *)
(* off), whatever attempts, challenges and restarts came before.  With one  *)
(* request at a time that means nothing is forgotten unreported.            *)
ForgetsOwnOrLate ==
    [][\A r \in Requests : Confirms(r) /\ latest = r =>
          \A id \in Forgotten : id \in string[r].carried \/ id > since[r]]_httpVars

(* Every request is completed: retries and challenges end, and each chain of *)
(* completion blocks reaches the caller's.                                  *)
EveryRequestCompletes ==
    \A r \in Requests : pc[r] # "idle" ~> pc[r] = "idle"
=============================================================================
