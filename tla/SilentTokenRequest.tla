------------------------- MODULE SilentTokenRequest -------------------------
(***************************************************************************)
(* MSIDSilentTokenRequest with MSIDDefaultSilentTokenRequest: one request  *)
(* looks for an access token in the cache, and else redeems refresh        *)
(* tokens, the client's own before the family's.  Several requests of      *)
(* several clients share the cache (module TokenCache); each access to the *)
(* keychain is a step of its own.                                          *)
(*                                                                         *)
(* The server is external: it may revoke any refresh token, delete the     *)
(* account, be unavailable, or refuse.                                     *)
(***************************************************************************)
EXTENDS TokenCache

CONSTANTS
    Requests,   \* silent requests, each executed once
    Histories,  \* who signed in before: h[c] is the answer c got, or None
    MaxFaults,  \* bound: failed accesses to the keychain and killed clients
    MaxRevoked, \* bound: refresh tokens revoked
    MaxAged     \* bound: access tokens that get older

\* "nobody" stands for the client of a request that has not been made.
ASSUME SilentAssumption ==
    /\ "nobody" \notin Clients
    /\ \A h \in Histories :
         /\ h \in [Clients -> Ids \cup {None}]
         /\ \A c, d \in Clients : h[c] = h[d] /\ c # d => h[c] = None
    /\ MaxFaults \in Nat /\ MaxRevoked \in Nat /\ MaxAged \in Nat

VARIABLES
    request,    \* request[r] : where request r is, and what it holds
    issued,     \* answers with tokens so far
    dead,       \* refresh tokens the server no longer takes
    gone,       \* the account has been deleted
    age,        \* age[i] : of access token i
    faults,     \* failed accesses to the keychain and killed clients so far
    usable      \* history: usable[r] holds the refresh tokens that were in
                \* the cache and good for r all the time since r started

server == <<issued, dead, gone, age>>
vars == <<cache, request, server, faults, usable>>

(***************************************************************************)
(* The ages of an access token, in their order: good; good, but due for a  *)
(* refresh (refresh_in); past its expiry, but in its extended lifetime;    *)
(* expired.                                                                *)
(***************************************************************************)
Ages == <<"fresh", "refresh", "extended", "expired">>

Idle == [pc |-> "idle", client |-> "nobody", kind |-> "app", token |-> None,
         unexpired |-> None, extended |-> None, write |-> 0,
         outcome |-> "none", excused |-> FALSE, rejected |-> {}]

(***************************************************************************)
(* Initially some clients have signed in with interactive requests; the    *)
(* last of the members wrote the family token.                             *)
(***************************************************************************)
Init ==
    /\ \E h \in Histories :
         LET signedIn == {c \in Clients : h[c] # None}
             last == {m \in Members \cap signedIn :
                         \A o \in Members : h[o] <= h[m]}
         IN  /\ accessToken = h
             /\ idToken = [c \in Clients |-> c \in signedIn]
             /\ refreshToken = h
             /\ familyRefreshToken \in
                  IF last = {} THEN {NoFamilyToken}
                  ELSE {[secret |-> h[c], owner |-> c] : c \in last}
             /\ familyId = [c \in Clients |-> IF c \notin signedIn THEN "no entry"
                                              ELSE IF c \in Members THEN "member"
                                              ELSE "blank"]
             /\ issued \in 0..MaxIssued
             /\ {h[c] : c \in signedIn} = 1..issued
    /\ request = [r \in Requests |-> Idle]
    /\ dead = {}
    /\ gone = FALSE
    /\ age = [i \in Ids |-> "fresh"]
    /\ faults = 0
    /\ usable = [r \in Requests |-> {}]

At(r, pc) == request[r].pc = pc
Client(r) == request[r].client

\* Where a request goes; Completes calls its completion block, and what the
\* request held is released.  A request is excused if what it went through may
\* ask for interaction by itself.
Goes(r, pc) == request' = [request EXCEPT ![r].pc = pc]
Ended(r, how) ==
    [Idle EXCEPT !.pc = "done", !.client = Client(r), !.outcome = how,
                 !.excused = request[r].excused, !.rejected = request[r].rejected]
Completes(r, how) == request' = [request EXCEPT ![r] = Ended(r, how)]
CompletesExcused(r, how) ==
    request' = [request EXCEPT ![r] = [Ended(r, how) EXCEPT !.excused = TRUE]]

\* An access to the keychain that fails leaves the cache as it is.
Fault == /\ faults < MaxFaults
         /\ faults' = faults + 1
         /\ UNCHANGED <<cache, server>>

(***************************************************************************)
(* executeRequestWithCompletion: after the authority is resolved.  A       *)
(* request that forces a refresh, or has claims, skips the access token.   *)
(***************************************************************************)
Start(r, c, force) ==
    /\ At(r, "idle")
    /\ request' = [request EXCEPT ![r].client = c,
                                  ![r].pc = IF force THEN "app token"
                                                     ELSE "access token"]
    /\ UNCHANGED <<cache, server, faults>>

(***************************************************************************)
(* executeRequestImpl.  What is found decides: a good access token is      *)
(* returned if there is an ID token for the result; one that is due for a  *)
(* refresh, or in its extended lifetime, is kept in case the server is     *)
(* unavailable; an expired one is removed.                                 *)
(***************************************************************************)
ReadAccessToken(r) ==
    /\ At(r, "access token")
    /\ LET t == accessToken[Client(r)]
       IN  \/ /\ t = None
              /\ Goes(r, "app token")
           \/ /\ t # None /\ age[t] = "fresh"
              /\ Goes(r, "result")
           \/ /\ t # None /\ age[t] = "refresh"
              /\ request' = [request EXCEPT ![r].pc = "app token",
                                            ![r].unexpired = t]
           \/ /\ t # None /\ age[t] = "extended"
              /\ request' = [request EXCEPT ![r].pc = "app token",
                                            ![r].extended = t]
           \/ /\ t # None /\ age[t] = "expired"
              /\ Goes(r, "remove access token")
    /\ UNCHANGED <<cache, server, faults>>

AccessTokenUnreadable(r) ==
    /\ At(r, "access token")
    /\ Fault
    /\ Completes(r, "error")

\* resultWithAccessToken for an access token from the cache.
Result(r) ==
    /\ At(r, "result")
    /\ IF idToken[Client(r)] THEN Completes(r, "cached")
                             ELSE Goes(r, "app token")
    /\ UNCHANGED <<cache, server, faults>>

\* The access token is removed by its key.
RemoveExpired(r) ==
    /\ At(r, "remove access token")
    /\ RemoveAccessToken(Client(r))
    /\ Goes(r, "app token")
    /\ UNCHANGED <<server, faults>>

RemoveExpiredFails(r) ==
    /\ At(r, "remove access token")
    /\ Fault
    /\ Goes(r, "app token")

(***************************************************************************)
(* fetchCachedTokenAndCheckForFRTFirst: the client's own refresh token,    *)
(* and if there is none, the family's.                                     *)
(***************************************************************************)
Tries(r, kind, t) ==
    request' = [request EXCEPT ![r].pc = "redeem", ![r].kind = kind,
                               ![r].token = t]

ReadAppToken(r) ==
    /\ At(r, "app token")
    /\ LET t == refreshToken[Client(r)]
       IN  IF t = None THEN Goes(r, "family token") ELSE Tries(r, "app", t)
    /\ UNCHANGED <<cache, server, faults>>

\* An error of the first lookup counts as no token.
AppTokenUnreadable(r) ==
    /\ At(r, "app token")
    /\ Fault
    /\ request' = [request EXCEPT ![r].pc = "family token", ![r].excused = TRUE]

ReadFamilyToken(r) ==
    /\ At(r, "family token")
    /\ LET t == FamilyTokenFor(Client(r))
       IN  IF t = None THEN Completes(r, "interaction")
                       ELSE Tries(r, "family", t)
    /\ UNCHANGED <<cache, server, faults>>

FamilyTokenUnreadable(r) ==
    /\ At(r, "family token")
    /\ Fault
    /\ CompletesExcused(r, "interaction")

(***************************************************************************)
(* redeemAccessTokenWith: the metadata of the authority is loaded, and the *)
(* throttling service asked, before the token is sent.  Metadata that      *)
(* cannot be loaded is an error; an endpoint in another cloud asks for     *)
(* interaction; a throttled request gets the error of an earlier one,      *)
(* which is handled like the server's.                                     *)
(***************************************************************************)
Send(r) ==
    /\ At(r, "redeem")
    /\ Goes(r, "sent")
    /\ UNCHANGED <<cache, server, faults>>

WrongCloud(r) ==
    /\ At(r, "redeem")
    /\ CompletesExcused(r, "interaction")
    /\ UNCHANGED <<cache, server, faults>>

\* An error that interaction does not help: no metadata, no network, too
\* many requests, invalid scope or client, protection policies.
Fails(r) ==
    /\ At(r, "redeem") \/ At(r, "sent")
    /\ Completes(r, "error")
    /\ UNCHANGED <<cache, server, faults>>

\* The server, or the throttling service for it, asks for interaction.
Refused(r) ==
    /\ At(r, "redeem") \/ At(r, "sent")
    /\ request' = [request EXCEPT ![r].pc = "refused", ![r].excused = TRUE]
    /\ UNCHANGED <<cache, server, faults>>

(***************************************************************************)
(* sendTokenRequestImpl: the answers.  The server takes a refresh token it *)
(* has not revoked, from any client if it is the client's own and from     *)
(* members if it is the family's.                                          *)
(***************************************************************************)
Good(c, kind, t) == t \notin dead /\ ~gone /\ (kind = "family" => c \in Members)

Answered(r) == At(r, "sent") /\ UNCHANGED <<cache, dead, gone, age, faults>>

Succeeds(r) ==
    /\ Answered(r)
    /\ Good(Client(r), request[r].kind, request[r].token)
    /\ issued < MaxIssued
    /\ issued' = issued + 1
    /\ request' = [request EXCEPT ![r].pc = "saving", ![r].write = 1,
                                  ![r].token = issued + 1]

Presented(r) == <<request[r].kind, request[r].token>>

\* invalid_grant with bad_token.
BadToken(r) ==
    /\ Answered(r)
    /\ request[r].token \in dead /\ ~gone
    /\ request' = [request EXCEPT ![r].pc = "validate",
                                  ![r].rejected = @ \cup {Presented(r)}]
    /\ UNCHANGED issued

\* invalid_grant with another suberror.
InvalidGrant(r) ==
    /\ Answered(r)
    /\ request[r].token \in dead /\ ~gone
    /\ Goes(r, "refused")
    /\ UNCHANGED issued

\* From the server, or from the throttling service for it.
ClientMismatch(r) ==
    /\ At(r, "redeem") \/ At(r, "sent")
    /\ request[r].kind = "family" /\ Client(r) \notin Members /\ ~gone
    /\ Goes(r, "mismatch")
    /\ UNCHANGED <<cache, server, faults>>

UserDeleted(r) ==
    /\ Answered(r)
    /\ gone
    /\ Goes(r, "clear")
    /\ UNCHANGED issued

\* 5xx: the access token kept for the case, if a result can be made of it.
Unavailable(r) ==
    /\ Answered(r)
    /\ Completes(r,
         IF ~idToken[Client(r)] THEN "error"
         ELSE IF request[r].unexpired # None THEN "unexpired"
         ELSE IF request[r].extended # None THEN "extended"
         ELSE "error")
    /\ UNCHANGED issued

(***************************************************************************)
(* saveTokensWithConfiguration: one write after another.  If one fails the *)
(* rest are left out, and the caller gets the tokens all the same.         *)
(***************************************************************************)
Save(r) ==
    /\ At(r, "saving")
    /\ LET c == Client(r)
           w == request[r].write
       IN  /\ Write(Writes(c)[w], c, request[r].token)
           /\ IF w = Len(Writes(c))
              THEN Completes(r, "token")
              ELSE request' = [request EXCEPT ![r].write = w + 1]
    /\ UNCHANGED <<server, faults>>

SaveFails(r) ==
    /\ At(r, "saving")
    /\ Fault
    /\ Completes(r, "token")

(***************************************************************************)
(* validateAndRemoveRefreshToken: reads the entry the refused token came   *)
(* from, and removes that entry if it still holds the token.               *)
(***************************************************************************)
Held(r) == Entry(Client(r), request[r].kind)

Validate(r) ==
    /\ At(r, "validate")
    /\ Goes(r, IF Held(r) = request[r].token THEN "remove" ELSE "refused")
    /\ UNCHANGED <<cache, server, faults>>

Remove(r) ==
    /\ At(r, "remove")
    /\ RemoveEntry(Client(r), request[r].kind)
    /\ Goes(r, "refused")
    /\ UNCHANGED <<server, faults>>

\* The token stays, as far as this request is concerned.
RemoveFails(r) ==
    /\ At(r, "validate") \/ At(r, "remove")
    /\ Fault
    /\ request' = [request EXCEPT ![r].pc = "refused", ![r].rejected = @ \ {Presented(r)}]

\* removeAccountArtifacts
Clear(r) ==
    /\ At(r, "clear")
    /\ ClearAccount(Client(r))
    /\ Goes(r, "refused")
    /\ UNCHANGED <<server, faults>>

ClearFails(r) ==
    /\ At(r, "clear")
    /\ Fault
    /\ Goes(r, "refused")

(***************************************************************************)
(* tryRefreshToken after an error that interaction can help: a refused app *)
(* token is followed by the family token if that is another one.           *)
(***************************************************************************)
\* Deviation: whatever kind of token was refused.
OtherTokenAgain(r) == FamilyTokenFor(Client(r))

\* Deviation: only if the client has no token of its own.
OtherTokenIfNone(r) ==
    IF refreshToken[Client(r)] = None THEN FamilyTokenFor(Client(r)) ELSE None

\* The token to try next: the family's after the client's.
OtherToken(r) ==
    IF request[r].kind = "app" THEN FamilyTokenFor(Client(r)) ELSE None

AfterRefusal(r) ==
    /\ At(r, "refused")
    /\ LET t == OtherToken(r)
       IN  IF t \notin {None, request[r].token}
           THEN Tries(r, "family", t)
           ELSE Completes(r, "interaction")
    /\ UNCHANGED <<cache, server, faults>>

RefusalUnreadable(r) ==
    /\ At(r, "refused") /\ request[r].kind = "app"
    /\ Fault
    /\ CompletesExcused(r, "interaction")

\* updateFamilyIdCacheWithServerError: the client is no member.
LeaveFamily(r) ==
    /\ At(r, "mismatch")
    /\ SaveAppMetadata(Client(r), "blank")
    /\ Completes(r, "interaction")
    /\ UNCHANGED <<server, faults>>

LeaveFamilyFails(r) ==
    /\ At(r, "mismatch")
    /\ Fault
    /\ Completes(r, "interaction")

(***************************************************************************)
(* Others.  An interactive request of client c ends with tokens, which it  *)
(* saves in the same way; the process of c is killed with its requests;    *)
(* the server revokes a refresh token, or deletes the account; an access   *)
(* token gets older.                                                       *)
(***************************************************************************)
SignIn(r, c) ==
    /\ At(r, "idle")
    /\ ~gone /\ issued < MaxIssued
    /\ issued' = issued + 1
    /\ request' = [request EXCEPT ![r].client = c, ![r].pc = "saving",
                                  ![r].write = 1, ![r].token = issued + 1]
    /\ UNCHANGED <<cache, dead, gone, age, faults>>

Killed(c) ==
    /\ \E r \in Requests : Client(r) = c /\ ~At(r, "done")
    /\ Fault
    /\ request' = [r \in Requests |->
                     IF Client(r) = c /\ ~At(r, "done")
                     THEN [Ended(r, "killed") EXCEPT !.rejected = {}]
                     ELSE request[r]]

Revoke(t) ==
    /\ t \in 1..issued \ dead
    /\ Cardinality(dead) < MaxRevoked
    /\ dead' = dead \cup {t}
    /\ UNCHANGED <<cache, request, issued, gone, age, faults>>

DeleteAccount ==
    /\ ~gone
    /\ gone' = TRUE
    /\ UNCHANGED <<cache, request, issued, dead, age, faults>>

GetsOlder(i) ==
    /\ \E c \in Clients : accessToken[c] = i
    /\ Cardinality({j \in Ids \ {i} : age[j] # "fresh"}) < MaxAged
    /\ \E m, n \in DOMAIN Ages :
         m < n /\ age[i] = Ages[m] /\ age' = [age EXCEPT ![i] = Ages[n]]
    /\ UNCHANGED <<cache, request, issued, dead, gone, faults>>

(***************************************************************************)
(* What each request does, and the next-state relation with its history.   *)
(***************************************************************************)
Handles(r) ==
    \/ ReadAccessToken(r) \/ Result(r) \/ RemoveExpired(r)
    \/ ReadAppToken(r) \/ ReadFamilyToken(r)
    \/ Send(r) \/ WrongCloud(r) \/ Fails(r) \/ Refused(r)
    \/ Succeeds(r) \/ BadToken(r) \/ InvalidGrant(r) \/ ClientMismatch(r)
    \/ UserDeleted(r) \/ Unavailable(r)
    \/ Save(r) \/ Validate(r) \/ Remove(r) \/ Clear(r)
    \/ AfterRefusal(r) \/ LeaveFamily(r)

Faulty(r) ==
    \/ AccessTokenUnreadable(r) \/ RemoveExpiredFails(r)
    \/ AppTokenUnreadable(r) \/ FamilyTokenUnreadable(r)
    \/ SaveFails(r) \/ RemoveFails(r) \/ ClearFails(r)
    \/ RefusalUnreadable(r) \/ LeaveFamilyFails(r)

Step ==
    \/ \E r \in Requests :
         \/ \E c \in Clients, force \in BOOLEAN : Start(r, c, force)
         \/ \E c \in Clients : SignIn(r, c)
         \/ Handles(r)
         \/ Faulty(r)
    \/ \E c \in Clients : Killed(c)
    \/ \E t \in Ids : Revoke(t)
    \/ DeleteAccount
    \/ \E i \in Ids : GetsOlder(i)

\* The refresh tokens in the cache that the server would take from client c.
Usable == [c \in Clients |->
    {u \in {<<"app", refreshToken[c]>>, <<"family", FamilyTokenFor(c)>>} :
        u[2] # None /\ Good(c, u[1], u[2])}]

Remembers ==
    usable' = [r \in Requests |->
                 LET n == request'[r]
                 IN  CASE n.pc = "idle" -> {}
                       [] n.pc = "done" ->
                            IF n.outcome = "interaction" THEN usable[r] ELSE {}
                       [] OTHER ->
                            IF At(r, "idle") THEN Usable'[n.client]
                                             ELSE usable[r] \cap Usable'[n.client]]

Next == Step /\ Remembers

Spec == Init /\ [][Next]_vars

(***************************************************************************)
(* Type of the state.                                                      *)
(***************************************************************************)
Tokens == Ids \cup {None}

TypeOK ==
    /\ CacheTypeOK
    /\ request \in [Requests ->
         [pc : {"idle", "access token", "result", "remove access token",
                "app token", "family token", "redeem", "sent", "saving",
                "validate", "remove", "clear", "refused", "mismatch", "done"},
          client : Clients \cup {"nobody"}, kind : {"app", "family"},
          token : Tokens, unexpired : Tokens, extended : Tokens, write : 0..6,
          outcome : {"none", "cached", "token", "unexpired", "extended",
                     "interaction", "error", "killed"},
          excused : BOOLEAN,
          rejected : SUBSET ({"app", "family"} \X Ids)]]
    /\ issued \in 0..MaxIssued
    /\ dead \in SUBSET (1..issued)
    /\ gone \in BOOLEAN
    /\ age \in [Ids -> {Ages[n] : n \in DOMAIN Ages}]
    /\ faults \in 0..MaxFaults
    /\ \A r \in Requests : usable[r] \subseteq {"app", "family"} \X Ids

(***************************************************************************)
(* The user is not asked without need: a request that ends with            *)
(* "interaction required" had no refresh token in the cache that the       *)
(* server would have taken all the time since the request started - unless *)
(* the server or the throttling service asked for interaction, or a read   *)
(* of the keychain failed.  Clients in between save, revoke and remove     *)
(* both tokens.                                                            *)
(***************************************************************************)
NoNeedlessInteraction ==
    \A r \in Requests :
        request[r].outcome = "interaction" /\ ~request[r].excused
            => usable[r] = {}

(***************************************************************************)
(* A token the server called bad is not sent again from where it was: when *)
(* the request ends, the entry it was read from does not hold it, and none *)
(* of the saves under way puts it back later.                              *)
(***************************************************************************)
RejectedTokenGone ==
    \A r \in Requests :
        At(r, "done") =>
            \A p \in request[r].rejected : Entry(Client(r), p[1]) # p[2]

(***************************************************************************)
(* A request moves on: it never goes back to where it was, and tries at    *)
(* most two refresh tokens, the client's and then the family's, whatever   *)
(* is saved under them in between.  (With calls that return, this is why   *)
(* every request completes.)                                               *)
(***************************************************************************)
Stage(q) ==
    (IF q.kind = "family" THEN 20 ELSE 0) + q.write +
    CASE q.pc = "idle" -> 0
      [] q.pc = "access token" -> 1
      [] q.pc \in {"result", "remove access token"} -> 2
      [] q.pc = "app token" -> 3
      [] q.pc = "family token" -> 4
      [] q.pc = "redeem" -> 5
      [] q.pc = "sent" -> 6
      [] q.pc \in {"saving", "validate", "clear", "mismatch"} -> 7
      [] q.pc = "remove" -> 8
      [] q.pc = "refused" -> 9
      [] q.pc = "done" -> 50

MovesOn ==
    [][\A r \in Requests :
         request'[r] # request[r] => Stage(request'[r]) > Stage(request[r])]_vars

(***************************************************************************)
(* What a caller may rely on (CompletionBlock): its completion block gets  *)
(* one of these, once, after the request was made; the requests of a       *)
(* process that is killed are lost with it.                                *)
(***************************************************************************)
Results == {"cached", "token", "unexpired", "extended", "interaction", "error"}

Standing == [r \in Requests |->
    IF At(r, "idle") THEN "new"
    ELSE IF ~At(r, "done") THEN "waiting"
    ELSE IF request[r].outcome = "killed" THEN "lost" ELSE "answered"]

Told == [r \in Requests |->
    IF Standing[r] = "answered" THEN <<request[r].outcome>> ELSE <<>>]

Promise == INSTANCE CompletionBlock
    WITH Callers <- Requests, Replies <- Results, standing <- Standing, replies <- Told

\* Every path of executeRequestWithCompletion: treats the block of its caller as
\* CompletionBlock says.
KeepsPromise == Promise!Spec
=============================================================================
