----------------------- MODULE XpcSingleSignOnProofs -----------------------
(***************************************************************************)
(* Proofs about XpcSingleSignOn for any requests, any number of them at    *)
(* once, any providers and any number of changes.  That the caller is      *)
(* answered once rests on the attempts of a request being one after the    *)
(* other (InTurn): as long as one of them is open, or is to be repeated,   *)
(* nothing has been answered, and the second begins only when the first    *)
(* can no longer answer.                                                   *)
(***************************************************************************)
EXTENDS XpcSingleSignOn, TLAPS

\* What an attempt may have before it, by what it has behind it.
Sound(t) ==
    /\ "invalidated" \in t.todo => t.outerCompleted # "no" \/ t.requestReplyReceived
    /\ "closing" \notin t.todo /\ t.outerCompleted # "closing"
    /\ "config" \in t.todo => "capture" \notin t.todo /\ "name" \notin t.todo
    /\ "capture" \in t.todo => "name" \notin t.todo
    /\ "config" \in t.todo \/ "capture" \in t.todo \/ "name" \in t.todo =>
          t.lookup = "none" /\ t.target = NIL /\ "endpoint" \notin t.todo
    /\ "endpoint" \in t.todo => t.endpoint = t.target

\* The attempts of a request follow each other.
InTurn(r) ==
    LET first == attempt[<<r, 1>>]  second == attempt[<<r, 2>>] IN
    /\ first = NotBegun => second = NotBegun /\ answers[r] = <<>>
    /\ first # NotBegun => first.useCachedEndpoint
    /\ first.outerCompleted = "no" => answers[r] = <<>>
    /\ "retry" \in first.todo => first.outerCompleted # "no" /\ answers[r] = <<>>
    /\ second # NotBegun => first.outerCompleted # "no" /\ "retry" \notin first.todo
    /\ second # NotBegun /\ second.outerCompleted = "no" => answers[r] = <<>>
    /\ "retry" \notin second.todo /\ ~second.useCachedEndpoint /\ ~second.fromCache
    /\ attempt[<<r, 3>>] = NotBegun

\* The parts of AtMostOneAnswer and TriedDispatcher that are about one request.
RightAnswer(r) ==
    /\ Len(answers[r]) <= 1
    /\ answers[r] = <<"transport">> =>
          \E n \in 1..2 : /\ ~attempt[<<r, n>>].fromCache
                          /\ attempt[<<r, n>>].outerCompleted # "no"

IInv ==
    /\ TypeOK
    /\ \A a \in Attempts : Sound(attempt[a])
    /\ \A r \in Requests : InTurn(r) /\ RightAnswer(r)
    /\ CacheOfProvider

-----------------------------------------------------------------------------
(* Steps of one attempt *)

\* What no step of an attempt that has begun takes back.
Continues(s, t) ==
    /\ s # NotBegun
    /\ t \in Attempt /\ Sound(t)
    /\ t.fromCache = s.fromCache /\ t.useCachedEndpoint = s.useCachedEndpoint
    /\ s.target # NIL => t.target = s.target /\ t.captured = s.captured
    /\ s.outerCompleted # "no" => t.outerCompleted # "no"

\* Another record of attempt a, and nothing else of the attempts.
Step(a, t) == attempt' = [attempt EXCEPT ![a] = t] /\ Continues(attempt[a], t)

\* One attempt is changed, the others are not.
LEMMA StepAt ==
    ASSUME TypeOK, NEW a \in Attempts, NEW t, Step(a, t)
    PROVE  /\ attempt' \in [Attempts -> Attempt]
           /\ attempt'[a] = t
           /\ \A b \in Attempts : b # a => attempt'[b] = attempt[b]
  BY DEF TypeOK, Step, Continues

\* A step that asks for no repetition and answers nothing keeps what the answers rest on.
LEMMA StepInTurn ==
    ASSUME IInv, NEW a \in Attempts, NEW t, Step(a, t), answers' = answers,
           "retry" \in t.todo => "retry" \in attempt[a].todo,
           NEW r \in Requests
    PROVE  InTurn(r)' /\ RightAnswer(r)'
<1> DEFINE one == <<r, 1>>  two == <<r, 2>>  three == <<r, 3>>
<1>1. TypeOK /\ InTurn(r) /\ RightAnswer(r)
  BY DEF IInv
<1>2. one \in Attempts /\ two \in Attempts /\ three \in Attempts
      /\ one # two /\ one # three /\ two # three
  BY DEF Attempts
<1>3. a # three
  BY <1>1 DEF InTurn, Step, Continues
<1>4. attempt'[three] = NotBegun
  BY <1>1, <1>2, <1>3, StepAt DEF InTurn
<1>5. CASE a # one /\ a # two
  BY <1>1, <1>2, <1>4, <1>5, StepAt DEF InTurn, RightAnswer
<1>6. CASE a = one
  <2>1. attempt'[one] = t /\ attempt'[two] = attempt[two] /\ attempt[one] # NotBegun
    BY <1>1, <1>2, <1>6, StepAt DEF Step, Continues
  <2>2. t.useCachedEndpoint /\ t # NotBegun
    BY <1>1, <1>6, <2>1 DEF InTurn, Step, Continues, NotBegun
  <2>3. InTurn(r)'
    BY <1>1, <1>4, <1>6, <2>1, <2>2 DEF InTurn, Step, Continues
  <2>4. RightAnswer(r)'
    <3>1. SUFFICES ASSUME answers[r] = <<"transport">>
                   PROVE  \E n \in 1..2 : /\ ~attempt'[<<r, n>>].fromCache
                                          /\ attempt'[<<r, n>>].outerCompleted # "no"
      BY <1>1 DEF RightAnswer
    <3>2. PICK n \in 1..2 : /\ ~attempt[<<r, n>>].fromCache
                            /\ attempt[<<r, n>>].outerCompleted # "no"
      BY <1>1, <3>1 DEF RightAnswer
    <3>3. CASE n = 1
      BY <1>6, <2>1, <3>2, <3>3 DEF Step, Continues
    <3>4. CASE n = 2
      BY <2>1, <3>2, <3>4
    <3>. QED  BY <3>3, <3>4
  <2>. QED  BY <2>3, <2>4
<1>7. CASE a = two
  <2>1. attempt'[two] = t /\ attempt'[one] = attempt[one] /\ attempt[two] # NotBegun
    BY <1>1, <1>2, <1>7, StepAt DEF Step, Continues
  <2>2. ~t.useCachedEndpoint /\ ~t.fromCache
    BY <1>1, <1>7 DEF InTurn, Step, Continues
  <2>3. attempt[one] # NotBegun
    BY <1>1, <2>1 DEF InTurn
  <2>4. InTurn(r)'
    BY <1>1, <1>4, <1>7, <2>1, <2>2, <2>3 DEF InTurn, Step, Continues
  <2>5. RightAnswer(r)'
    <3>1. SUFFICES ASSUME answers[r] = <<"transport">>
                   PROVE  \E n \in 1..2 : /\ ~attempt'[<<r, n>>].fromCache
                                          /\ attempt'[<<r, n>>].outerCompleted # "no"
      BY <1>1 DEF RightAnswer
    <3>2. PICK n \in 1..2 : /\ ~attempt[<<r, n>>].fromCache
                            /\ attempt[<<r, n>>].outerCompleted # "no"
      BY <1>1, <3>1 DEF RightAnswer
    <3>3. CASE n = 1
      BY <2>1, <3>2, <3>3
    <3>4. CASE n = 2
      BY <1>7, <2>1, <3>2, <3>4 DEF Step, Continues
    <3>. QED  BY <3>3, <3>4
  <2>. QED  BY <2>4, <2>5
<1>. QED  BY <1>5, <1>6, <1>7

\* The target of an attempt and what it captured stay, so the endpoint kept keeps its origin.
LEMMA StepCacheOfProvider ==
    ASSUME IInv, NEW a \in Attempts, NEW t, Step(a, t), UNCHANGED cache
    PROVE  CacheOfProvider'
<1>1. SUFFICES ASSUME cached # NIL, cached # provider
               PROVE  \E b \in Attempts : attempt'[b].captured = provider /\ attempt'[b].target = cached
  BY DEF CacheOfProvider, cache
<1>2. PICK b \in Attempts : attempt[b].captured = provider /\ attempt[b].target = cached
  BY <1>1 DEF IInv, CacheOfProvider
<1>3. TypeOK
  BY DEF IInv
<1>4. CASE b = a
  BY <1>1, <1>2, <1>3, <1>4, StepAt DEF Step, Continues
<1>5. CASE b # a
  BY <1>2, <1>3, <1>5, StepAt
<1>. QED  BY <1>4, <1>5

\* A step that adds no repetition and answers nothing, whatever becomes of the cache.
LEMMA StepOnly ==
    ASSUME IInv, NEW a \in Attempts, NEW t, Step(a, t), answers' = answers,
           "retry" \in t.todo => "retry" \in attempt[a].todo,
           provider' \in Providers \cup {NIL}, cached' \in Providers \cup {NIL},
           UNCHANGED <<checker, world>>, CacheOfProvider'
    PROVE  IInv'
<1>1. TypeOK
  BY DEF IInv
<1>2. TypeOK'
  BY <1>1, StepAt DEF TypeOK, world
<1>3. ASSUME NEW b \in Attempts PROVE Sound(attempt[b])'
  <2>1. CASE b = a
    BY <1>1, <2>1, StepAt DEF Step, Continues, Sound
  <2>2. CASE b # a
    BY <1>1, <2>2, StepAt DEF IInv, Sound
  <2>. QED  BY <2>1, <2>2
<1>4. ASSUME NEW r \in Requests PROVE InTurn(r)' /\ RightAnswer(r)'
  BY StepInTurn
<1>. QED  BY <1>2, <1>3, <1>4 DEF IInv

\* So an ordinary step of an attempt keeps the invariant.
LEMMA StepKeeps ==
    ASSUME IInv, NEW a \in Attempts, NEW t, Step(a, t), UNCHANGED <<cache, answers, checker, world>>,
           "retry" \in t.todo => "retry" \in attempt[a].todo
    PROVE  IInv'
<1>1. provider' \in Providers \cup {NIL} /\ cached' \in Providers \cup {NIL}
  BY DEF IInv, TypeOK, cache
<1>2. CacheOfProvider'
  BY StepCacheOfProvider
<1>. QED  BY <1>1, <1>2, StepOnly

-----------------------------------------------------------------------------
(* The actions that only go on with one attempt *)

\* Something due, or something open, is of an attempt that has begun.
LEMMA HasBegun ==
    ASSUME NEW a \in Attempts,
           \/ attempt[a].todo # {}
           \/ attempt[a].lookup # "none" \/ attempt[a].link # "none"
           \/ attempt[a].message # "none" \/ attempt[a].watch # "off"
    PROVE  attempt[a] # NotBegun
  BY DEF NotBegun

\* What the invariant says of attempt a.
LEMMA AttemptSound ==
    ASSUME IInv, NEW a \in Attempts
    PROVE  /\ attempt[a] \in Attempt /\ Sound(attempt[a])
           /\ provider \in Providers \cup {NIL} /\ cached \in Providers \cup {NIL}
  BY DEF IInv, TypeOK

\* It is enough that the record of the attempt goes on, without a new repetition.
LEMMA OnlyKeeps ==
    ASSUME IInv, NEW a \in Attempts, NEW t, Only(a, t), Continues(attempt[a], t),
           "retry" \in t.todo => "retry" \in attempt[a].todo
    PROVE  IInv'
  BY StepKeeps DEF Only, Set, Step

\* The values of the fields of an attempt, by name.
Ends == Providers \cup {NIL}
Lookups == {"none", "open", "timed", "closed"}
Links == {"none", "up", "refused", "interrupted", "closed"}
Messages == {"none", "sent", "gone"}
Watches == {"off", "on"}
Claims == {"no", "failing", "closing", "replying", "timeout"}

LEMMA AttemptIs ==
    Attempt = [fromCache : BOOLEAN, useCachedEndpoint : BOOLEAN, todo : SUBSET Callbacks,
               captured : Ends, target : Ends, endpoint : Ends,
               lookup : Lookups, link : Links, message : Messages, watch : Watches,
               requestReplyReceived : BOOLEAN, outerCompleted : Claims]
  BY DEF Attempt, Ends, Lookups, Links, Messages, Watches, Claims

LEMMA CheckConfigurationKeeps ==
    ASSUME IInv, NEW a \in Attempts, CheckConfiguration(a) PROVE IInv'
<1> DEFINE next == IF provider = NIL THEN "failed"
                   ELSE IF attempt[a].fromCache THEN "open" ELSE "capture"
           t == [attempt[a] EXCEPT !.todo = Then(a, "config", {next})]
<1>1. /\ attempt[a] \in Attempt /\ Sound(attempt[a]) /\ attempt[a] # NotBegun
      /\ "config" \in attempt[a].todo
  BY AttemptSound, HasBegun DEF CheckConfiguration, Runs
<1>2. Only(a, t) /\ next \in {"failed", "open", "capture"}
  BY DEF CheckConfiguration
<1> HIDE DEF next
<1>3. t \in Attempt
  BY <1>1, <1>2 DEF Attempt, Callbacks, Then
<1>4. Sound(t)
  BY <1>1, <1>2 DEF Sound, Attempt, Then
<1>5. Continues(attempt[a], t) /\ ("retry" \in t.todo => "retry" \in attempt[a].todo)
  BY <1>1, <1>2, <1>3, <1>4 DEF Continues, Attempt, Then
<1> HIDE DEF t
<1>. QED  BY <1>2, <1>5, OnlyKeeps

LEMMA CaptureKeeps == ASSUME IInv, NEW a \in Attempts, Capture(a) PROVE IInv'
<1> DEFINE t == [attempt[a] EXCEPT !.todo = Then(a, "capture", {"name"}), !.captured = provider]
<1>1. /\ attempt[a] \in Attempt /\ Sound(attempt[a]) /\ attempt[a] # NotBegun
      /\ provider \in Providers \cup {NIL}
  BY AttemptSound, HasBegun DEF Capture, Runs
<1>2. t \in Attempt
  BY <1>1 DEF Attempt, Callbacks, Then
<1>3. Sound(t)
  BY <1>1 DEF Sound, Attempt, Capture, Runs, Then
<1>4. Continues(attempt[a], t) /\ ("retry" \in t.todo => "retry" \in attempt[a].todo)
  BY <1>1, <1>2, <1>3 DEF Continues, Sound, Attempt, Capture, Runs, Then
<1>5. Only(a, t)
  BY DEF Capture
<1> HIDE DEF t
<1>. QED  BY <1>4, <1>5, OnlyKeeps

LEMMA OpenLookupKeeps == ASSUME IInv, NEW a \in Attempts, OpenLookup(a) PROVE IInv'
<1> DEFINE t == [attempt[a] EXCEPT !.todo = Then(a, "name", {}), !.target = provider, !.lookup = "open"]
<1>1. /\ attempt[a] \in Attempt /\ Sound(attempt[a]) /\ attempt[a] # NotBegun
      /\ provider \in Providers \cup {NIL}
  BY AttemptSound, HasBegun DEF OpenLookup, Runs
<1>2. t \in Attempt
  BY <1>1 DEF Attempt, Callbacks, Then
<1>3. Sound(t)
  BY <1>1 DEF Sound, Attempt, OpenLookup, Runs, Then
<1>4. Continues(attempt[a], t) /\ ("retry" \in t.todo => "retry" \in attempt[a].todo)
  BY <1>1, <1>2, <1>3 DEF Continues, Sound, Attempt, OpenLookup, Runs, Then
<1>5. Only(a, t)
  BY DEF OpenLookup
<1> HIDE DEF t
<1>. QED  BY <1>4, <1>5, OnlyKeeps

LEMMA LookupRepliesKeeps == ASSUME IInv, NEW a \in Attempts, LookupReplies(a) PROVE IInv'
<1> DEFINE t == [attempt[a] EXCEPT !.lookup = "closed", !.endpoint = attempt[a].target,
                                   !.todo = @ \cup {"endpoint"}]
<1>1. /\ attempt[a] \in Attempt /\ Sound(attempt[a]) /\ attempt[a] # NotBegun
      /\ provider \in Providers \cup {NIL}
  BY AttemptSound, HasBegun DEF LookupReplies, Looking
<1>2. t \in Attempt
  BY <1>1 DEF Attempt, Callbacks
<1>3. Sound(t)
  BY <1>1 DEF Sound, Attempt, LookupReplies, Looking
<1>4. Continues(attempt[a], t) /\ ("retry" \in t.todo => "retry" \in attempt[a].todo)
  BY <1>1, <1>2, <1>3 DEF Continues, Sound, Attempt, LookupReplies, Looking
<1>5. Only(a, t)
  BY DEF LookupReplies
<1> HIDE DEF t
<1>. QED  BY <1>4, <1>5, OnlyKeeps

LEMMA LookupFailsKeeps == ASSUME IInv, NEW a \in Attempts, LookupFails(a) PROVE IInv'
<1> DEFINE t == [attempt[a] EXCEPT !.lookup = "closed", !.todo = @ \cup {"failed"}]
<1>1. /\ attempt[a] \in Attempt /\ Sound(attempt[a]) /\ attempt[a] # NotBegun
      /\ provider \in Providers \cup {NIL}
  BY AttemptSound, HasBegun DEF LookupFails, Looking
<1>2. t \in Attempt
  BY <1>1 DEF Attempt, Callbacks
<1>3. Sound(t)
  BY <1>1 DEF Sound, Attempt, LookupFails, Looking
<1>4. Continues(attempt[a], t) /\ ("retry" \in t.todo => "retry" \in attempt[a].todo)
  BY <1>1, <1>2, <1>3 DEF Continues, Sound, Attempt, LookupFails, Looking
<1>5. Only(a, t)
  BY DEF LookupFails
<1> HIDE DEF t
<1>. QED  BY <1>4, <1>5, OnlyKeeps

LEMMA LookupTimerKeeps == ASSUME IInv, NEW a \in Attempts, LookupTimer(a) PROVE IInv'
<1> DEFINE t == [attempt[a] EXCEPT !.lookup = "timed", !.todo = @ \cup {"failed"}]
<1>1. /\ attempt[a] \in Attempt /\ Sound(attempt[a]) /\ attempt[a] # NotBegun
      /\ provider \in Providers \cup {NIL}
  BY AttemptSound, HasBegun DEF LookupTimer, Looking
<1>2. t \in Attempt
  BY <1>1 DEF Attempt, Callbacks
<1>3. Sound(t)
  BY <1>1 DEF Sound, Attempt, LookupTimer, Looking
<1>4. Continues(attempt[a], t) /\ ("retry" \in t.todo => "retry" \in attempt[a].todo)
  BY <1>1, <1>2, <1>3 DEF Continues, Sound, Attempt, LookupTimer, Looking
<1>5. Only(a, t)
  BY DEF LookupTimer
<1> HIDE DEF t
<1>. QED  BY <1>4, <1>5, OnlyKeeps

LEMMA OpenDirectKeeps == ASSUME IInv, NEW a \in Attempts, OpenDirect(a) PROVE IInv'
<1> DEFINE todo == Then(a, "open", {"ready"})
           link == IF provider = attempt[a].endpoint THEN "up" ELSE "refused"
           t == [attempt[a] EXCEPT !.todo = todo, !.link = link]
<1>1. attempt[a] \in Attempt /\ Sound(attempt[a]) /\ attempt[a] # NotBegun
  BY AttemptSound, HasBegun DEF OpenDirect, Runs
<1>2. Only(a, t) /\ link \in Links
  BY DEF OpenDirect, Links
<1>3. todo \in SUBSET Callbacks /\ todo \subseteq attempt[a].todo \cup {"ready"}
  BY <1>1 DEF Attempt, Callbacks, Then
<1> HIDE DEF todo, link
<1>4. t \in Attempt
  BY <1>1, <1>2, <1>3, AttemptIs
<1>5. Sound(t)
  BY <1>1, <1>3 DEF Sound, Attempt
<1>6. Continues(attempt[a], t) /\ ("retry" \in t.todo => "retry" \in attempt[a].todo)
  BY <1>1, <1>3, <1>4, <1>5 DEF Continues, Attempt
<1> HIDE DEF t
<1>. QED  BY <1>2, <1>6, OnlyKeeps

LEMMA ReadyKeeps == ASSUME IInv, NEW a \in Attempts, Ready(a) PROVE IInv'
<1> DEFINE t == LET dead == attempt[a].link = "closed" IN
                IF Completed(a)
                THEN [attempt[a] EXCEPT !.todo = Then(a, "ready", {"invalidated"}), !.link = "closed"]
                ELSE [attempt[a] EXCEPT !.todo = Then(a, "ready", IF dead THEN {"failed"} ELSE {}),
                                        !.message = IF dead THEN "gone" ELSE "sent",
                                        !.watch = IF Watched(a) THEN "on" ELSE "off"]
<1>1. /\ attempt[a] \in Attempt /\ Sound(attempt[a]) /\ attempt[a] # NotBegun
      /\ provider \in Providers \cup {NIL}
  BY AttemptSound, HasBegun DEF Ready, Runs
<1>2. t \in Attempt
  <2>1. CASE Completed(a)
    BY <1>1, <2>1 DEF Attempt, Callbacks, Then
  <2>2. CASE ~Completed(a)
    <3> DEFINE dead == attempt[a].link = "closed"
               message == IF dead THEN "gone" ELSE "sent"
               watch == IF Watched(a) THEN "on" ELSE "off"
               todo == Then(a, "ready", IF dead THEN {"failed"} ELSE {})
    <3>1. todo \subseteq Callbacks
      BY <1>1 DEF Attempt, Callbacks, Then
    <3>2. message \in Messages /\ watch \in Watches
      BY DEF Messages, Watches
    <3>3. t = [attempt[a] EXCEPT !.todo = todo, !.message = message, !.watch = watch]
      BY <2>2
    <3> HIDE DEF todo, message, watch, t
    <3>. QED  BY <1>1, <3>1, <3>2, <3>3, AttemptIs
  <2>. QED  BY <2>1, <2>2
<1>3. Sound(t)
  BY <1>1 DEF Sound, Attempt, Ready, Runs, Then, Completed, Watched
<1>4. Continues(attempt[a], t) /\ ("retry" \in t.todo => "retry" \in attempt[a].todo)
  BY <1>1, <1>2, <1>3 DEF Continues, Sound, Attempt, Ready, Runs, Then, Completed, Watched
<1>5. Only(a, t)
  BY DEF Ready
<1> HIDE DEF t
<1>. QED  BY <1>4, <1>5, OnlyKeeps

LEMMA ConnectionFailsKeeps == ASSUME IInv, NEW a \in Attempts, ConnectionFails(a) PROVE IInv'
<1> DEFINE t == [attempt[a] EXCEPT !.link = IF @ = "up" THEN "interrupted" ELSE "closed",
                                   !.message = IF @ = "sent" THEN "gone" ELSE @,
                                   !.todo = @ \cup {"failed"}]
<1>1. /\ attempt[a] \in Attempt /\ Sound(attempt[a]) /\ attempt[a] # NotBegun
      /\ provider \in Providers \cup {NIL}
  BY AttemptSound, HasBegun DEF ConnectionFails
<1>2. t \in Attempt
  <2> DEFINE link == IF attempt[a].link = "up" THEN "interrupted" ELSE "closed"
             message == IF attempt[a].message = "sent" THEN "gone" ELSE attempt[a].message
  <2>1. link \in Links /\ message \in Messages
    BY <1>1 DEF Attempt, Links, Messages
  <2>2. t = [attempt[a] EXCEPT !.link = link, !.message = message,
                               !.todo = attempt[a].todo \cup {"failed"}]
    OBVIOUS
  <2>3. attempt[a].todo \cup {"failed"} \in SUBSET Callbacks
    BY <1>1 DEF Attempt, Callbacks
  <2> DEFINE todo == attempt[a].todo \cup {"failed"}
  <2> HIDE DEF link, message, todo, t
  <2>. QED  BY <1>1, <2>1, <2>2, <2>3, AttemptIs DEF todo
<1>3. Sound(t)
  BY <1>1 DEF Sound, Attempt, ConnectionFails
<1>4. Continues(attempt[a], t) /\ ("retry" \in t.todo => "retry" \in attempt[a].todo)
  BY <1>1, <1>2, <1>3 DEF Continues, Sound, Attempt, ConnectionFails
<1>5. Only(a, t)
  BY DEF ConnectionFails
<1> HIDE DEF t
<1>. QED  BY <1>4, <1>5, OnlyKeeps

LEMMA BrokerRepliesKeeps == ASSUME IInv, NEW a \in Attempts, BrokerReplies(a) PROVE IInv'
<1> DEFINE t == [attempt[a] EXCEPT !.message = "gone", !.todo = @ \cup {"reply"}]
<1>1. /\ attempt[a] \in Attempt /\ Sound(attempt[a]) /\ attempt[a] # NotBegun
      /\ provider \in Providers \cup {NIL}
  BY AttemptSound, HasBegun DEF BrokerReplies
<1>2. t \in Attempt
  BY <1>1 DEF Attempt, Callbacks
<1>3. Sound(t)
  BY <1>1 DEF Sound, Attempt, BrokerReplies
<1>4. Continues(attempt[a], t) /\ ("retry" \in t.todo => "retry" \in attempt[a].todo)
  BY <1>1, <1>2, <1>3 DEF Continues, Sound, Attempt, BrokerReplies
<1>5. Only(a, t)
  BY DEF BrokerReplies
<1> HIDE DEF t
<1>. QED  BY <1>4, <1>5, OnlyKeeps

LEMMA WatchdogKeeps == ASSUME IInv, NEW a \in Attempts, Watchdog(a) PROVE IInv'
<1> DEFINE t == [attempt[a] EXCEPT
                   !.watch = "off",
                   !.todo = IF attempt[a].requestReplyReceived THEN @ ELSE @ \cup {"timeout"}]
<1>1. /\ attempt[a] \in Attempt /\ Sound(attempt[a]) /\ attempt[a] # NotBegun
      /\ provider \in Providers \cup {NIL}
  BY AttemptSound, HasBegun DEF Watchdog
<1>2. t \in Attempt
  <2> DEFINE todo == IF attempt[a].requestReplyReceived THEN attempt[a].todo
                     ELSE attempt[a].todo \cup {"timeout"}
  <2>1. todo \in SUBSET Callbacks /\ "off" \in Watches
    BY <1>1 DEF Attempt, Callbacks, Watches
  <2>2. t = [attempt[a] EXCEPT !.watch = "off", !.todo = todo]
    OBVIOUS
  <2> HIDE DEF todo, t
  <2>. QED  BY <1>1, <2>1, <2>2, AttemptIs
<1>3. Sound(t)
  BY <1>1 DEF Sound, Attempt, Watchdog
<1>4. Continues(attempt[a], t) /\ ("retry" \in t.todo => "retry" \in attempt[a].todo)
  BY <1>1, <1>2, <1>3 DEF Continues, Sound, Attempt, Watchdog
<1>5. Only(a, t)
  BY DEF Watchdog
<1> HIDE DEF t
<1>. QED  BY <1>4, <1>5, OnlyKeeps

LEMMA NoteReplyKeeps == ASSUME IInv, NEW a \in Attempts, NoteReply(a) PROVE IInv'
<1> DEFINE t == IF Completed(a)
                THEN [Dropped(a, "reply") EXCEPT !.requestReplyReceived = MarkedReply(a)]
                ELSE [attempt[a] EXCEPT !.todo = Then(a, "reply", {"replying", "invalidated"}),
                                        !.requestReplyReceived = MarkedReply(a),
                                        !.link = "closed"]
<1>1. /\ attempt[a] \in Attempt /\ Sound(attempt[a]) /\ attempt[a] # NotBegun
      /\ provider \in Providers \cup {NIL}
  BY AttemptSound, HasBegun DEF NoteReply, Runs
<1>2. t \in Attempt
  <2> DEFINE replying == Then(a, "reply", {"replying", "invalidated"})
  <2>1. Then(a, "reply", {}) \in SUBSET Callbacks /\ replying \in SUBSET Callbacks
        /\ MarkedReply(a) \in BOOLEAN
    BY <1>1 DEF Attempt, Callbacks, Then, MarkedReply
  <2>2. "closed" \in Links
    BY DEF Links
  <2> HIDE DEF replying
  <2>3. CASE Completed(a)
    BY <1>1, <2>1, <2>3, AttemptIs DEF Dropped
  <2>4. CASE ~Completed(a)
    BY <1>1, <2>1, <2>2, <2>4, AttemptIs DEF replying
  <2>. QED  BY <2>3, <2>4
<1>3. Sound(t)
  BY <1>1 DEF Sound, Attempt, NoteReply, Runs, Then, Completed, Dropped, MarkedReply
<1>4. Continues(attempt[a], t) /\ ("retry" \in t.todo => "retry" \in attempt[a].todo)
  BY <1>1, <1>2, <1>3 DEF Continues, Sound, Attempt, NoteReply, Runs, Then, Completed, Dropped, MarkedReply
<1>5. Only(a, t)
  BY DEF NoteReply
<1> HIDE DEF t
<1>. QED  BY <1>4, <1>5, OnlyKeeps

-----------------------------------------------------------------------------
(* The claims, the repetition and the beginning *)

\* What is stored is the target of the attempt that stores it.
LEMMA StoreEndpointKeeps == ASSUME IInv, NEW a \in Attempts, StoreEndpoint(a) PROVE IInv'
<1> DEFINE t == [attempt[a] EXCEPT !.todo = Then(a, "endpoint", {"open"})]
<1>1. /\ attempt[a] \in Attempt /\ Sound(attempt[a]) /\ attempt[a] # NotBegun
      /\ provider \in Providers \cup {NIL} /\ cached \in Providers \cup {NIL} /\ TypeOK
  BY AttemptSound, HasBegun DEF StoreEndpoint, Runs, IInv
<1>2. t \in Attempt /\ Sound(t)
  BY <1>1 DEF Attempt, Callbacks, Then, Sound, StoreEndpoint, Runs
<1>3. Continues(attempt[a], t) /\ ("retry" \in t.todo => "retry" \in attempt[a].todo)
  BY <1>1, <1>2 DEF Continues, Attempt, Then
<1>4. t.target = attempt[a].endpoint /\ t.captured = attempt[a].captured
  BY <1>1 DEF Attempt, Then, Sound, StoreEndpoint, Runs
<1>5. Step(a, t) /\ answers' = answers /\ UNCHANGED <<checker, world>> /\ provider' = provider
      /\ cached' = IF Stores(a) THEN attempt[a].endpoint ELSE cached
  BY <1>3 DEF StoreEndpoint, Set, Step
<1> HIDE DEF t
<1>6. cached' \in Providers \cup {NIL}
  BY <1>1, <1>5 DEF Attempt
<1>7. CacheOfProvider'
  <2>1. CASE ~Stores(a)
    BY <1>5, <2>1, StepCacheOfProvider DEF cache
  <2>2. CASE Stores(a)
    <3>1. attempt'[a] = t /\ cached' = attempt[a].endpoint
      BY <1>1, <1>5, <2>2, StepAt
    <3>2. attempt'[a].captured = provider' /\ attempt'[a].target = cached'
      BY <1>4, <1>5, <2>2, <3>1 DEF Stores
    <3>. QED  BY <3>2 DEF CacheOfProvider
  <2>. QED  BY <2>1, <2>2
<1>. QED  BY <1>1, <1>3, <1>5, <1>6, <1>7, StepOnly

\* A handler of a connection that the attempt has closed itself finds the mark of the
\* reply, or the claim: it never comes to "closing".
LEMMA NoteFailureKeeps == ASSUME IInv, NEW a \in Attempts, NoteFailure(a) PROVE IInv'
<1>1. attempt[a] \in Attempt /\ Sound(attempt[a])
  BY AttemptSound
<1>2. PICK step \in {<<"failed", "failing">>, <<"invalidated", "closing">>} :
        /\ Runs(a, step[1])
        /\ Only(a, [attempt[a] EXCEPT
                      !.todo = Then(a, step[1],
                                    IF Completed(a) \/ attempt[a].requestReplyReceived
                                    THEN {} ELSE {step[2]})])
  BY DEF NoteFailure
<1>3. attempt[a] # NotBegun
  BY <1>2, HasBegun DEF Runs
<1> DEFINE told == IF Completed(a) \/ attempt[a].requestReplyReceived THEN {} ELSE {step[2]}
           t == [attempt[a] EXCEPT !.todo = Then(a, step[1], told)]
<1>4. told = {} \/ (step = <<"failed", "failing">> /\ told = {"failing"})
  BY <1>1, <1>2 DEF Sound, Completed, Runs
<1>5. Only(a, t)
  BY <1>2
<1> HIDE DEF told
<1>6. t \in Attempt /\ Sound(t)
  BY <1>1, <1>4 DEF Attempt, Callbacks, Then, Sound
<1>7. Continues(attempt[a], t) /\ ("retry" \in t.todo => "retry" \in attempt[a].todo)
  BY <1>1, <1>3, <1>4, <1>6 DEF Continues, Attempt, Then
<1> HIDE DEF t
<1>. QED  BY <1>5, <1>7, OnlyKeeps

\* A claim is made once: nothing has been answered before it.
LEMMA NothingAnswered ==
    ASSUME IInv, NEW r \in Requests, NEW n \in 1..3, attempt[<<r, n>>] # NotBegun,
           attempt[<<r, n>>].outerCompleted = "no"
    PROVE  /\ answers[r] = <<>> /\ n # 3
           /\ n = 1 => attempt[<<r, 1>>].useCachedEndpoint /\ attempt[<<r, 2>>] = NotBegun
           /\ n = 2 => /\ ~attempt[<<r, 2>>].fromCache
                       /\ attempt[<<r, 1>>] # NotBegun
                       /\ attempt[<<r, 1>>].outerCompleted # "no"
                       /\ "retry" \notin attempt[<<r, 1>>].todo
           /\ "retry" \notin attempt[<<r, n>>].todo
<1>1. InTurn(r)
  BY DEF IInv
<1>. QED  BY <1>1 DEF InTurn

LEMMA OneAnswerIs ==
    ASSUME NEW how \in {"transport", "timeout", "reply"}
    PROVE  /\ Append(<<>>, how) = <<how>> /\ Len(<<how>>) = 1
           /\ <<how>> \in Seq({"transport", "timeout", "reply"})
  OBVIOUS

\* The claim that tells the caller.
LEMMA ClaimKeeps ==
    ASSUME IInv, NEW a \in Attempts, NEW t, Step(a, t),
           attempt[a].outerCompleted = "no", t.outerCompleted # "no", "retry" \notin t.todo,
           NEW how \in {"transport", "timeout", "reply"}, Answered(a[1], how),
           how = "transport" => ~t.fromCache,
           UNCHANGED <<cache, checker, world>>
    PROVE  IInv'
<1>1. PICK r \in Requests, n \in 1..3 : a = <<r, n>>
  BY DEF Attempts
<1>2. TypeOK /\ attempt[a] # NotBegun /\ a[1] = r
  BY <1>1 DEF IInv, Step, Continues
<1>3. /\ answers[r] = <<>> /\ n # 3
      /\ n = 1 => attempt[<<r, 1>>].useCachedEndpoint /\ attempt[<<r, 2>>] = NotBegun
      /\ n = 2 => /\ ~attempt[<<r, 2>>].fromCache
                  /\ attempt[<<r, 1>>] # NotBegun
                  /\ attempt[<<r, 1>>].outerCompleted # "no"
                  /\ "retry" \notin attempt[<<r, 1>>].todo
  BY <1>1, <1>2, NothingAnswered
<1>4. /\ answers' \in [Requests -> Seq({"transport", "timeout", "reply"})]
      /\ answers'[r] = <<how>>
      /\ \A q \in Requests : q # r => answers'[q] = answers[q]
  BY <1>2, <1>3, OneAnswerIs DEF Answered, TypeOK
<1>5. TypeOK'
  BY <1>2, <1>4, StepAt DEF TypeOK, cache, world
<1>6. ASSUME NEW b \in Attempts PROVE Sound(attempt[b])'
  <2>1. CASE b = a
    BY <1>2, <2>1, StepAt DEF Step, Continues, Sound
  <2>2. CASE b # a
    BY <1>2, <2>2, StepAt DEF IInv, Sound
  <2>. QED  BY <2>1, <2>2
<1>7. ASSUME NEW q \in Requests PROVE InTurn(q)' /\ RightAnswer(q)'
  <2> DEFINE one == <<q, 1>>  two == <<q, 2>>  three == <<q, 3>>
  <2>1. one \in Attempts /\ two \in Attempts /\ three \in Attempts
        /\ one # two /\ one # three /\ two # three
    BY DEF Attempts
  <2>2. InTurn(q) /\ RightAnswer(q)
    BY DEF IInv
  <2>3. CASE q # r
    <3>1. a # one /\ a # two /\ a # three
      BY <1>1, <2>3
    <3>2. attempt'[one] = attempt[one] /\ attempt'[two] = attempt[two]
          /\ attempt'[three] = attempt[three] /\ answers'[q] = answers[q]
      BY <1>2, <1>4, <2>1, <2>3, <3>1, StepAt
    <3>. QED  BY <2>2, <3>2 DEF InTurn, RightAnswer
  <2>4. CASE q = r /\ n = 1
    <3>1. attempt'[one] = t /\ attempt'[two] = attempt[two] /\ attempt'[three] = attempt[three]
      BY <1>1, <1>2, <2>1, <2>4, StepAt
    <3>2. t.useCachedEndpoint /\ t # NotBegun
      BY <1>1, <1>3, <2>4 DEF Step, Continues, NotBegun
    <3>3. InTurn(q)'
      BY <1>3, <2>2, <2>4, <3>1, <3>2 DEF InTurn
    <3>4. ASSUME answers'[q] = <<"transport">> PROVE ~attempt'[one].fromCache
      BY <1>4, <2>4, <3>1, <3>4
    <3>5. RightAnswer(q)'
      BY <1>4, <2>4, <3>1, <3>4, OneAnswerIs DEF RightAnswer
    <3>. QED  BY <3>3, <3>5
  <2>5. CASE q = r /\ n = 2
    <3>1. attempt'[two] = t /\ attempt'[one] = attempt[one] /\ attempt'[three] = attempt[three]
      BY <1>1, <1>2, <2>1, <2>5, StepAt
    <3>2. ~t.useCachedEndpoint /\ ~t.fromCache
      BY <1>1, <1>2, <2>2, <2>5 DEF InTurn, Step, Continues
    <3>3. InTurn(q)'
      BY <1>3, <2>2, <2>5, <3>1, <3>2 DEF InTurn
    <3>4. RightAnswer(q)'
      BY <1>4, <2>5, <3>1, <3>2, OneAnswerIs DEF RightAnswer
    <3>. QED  BY <3>3, <3>4
  <2>. QED  BY <1>3, <2>3, <2>4, <2>5
<1>8. CacheOfProvider'
  BY StepCacheOfProvider
<1>. QED  BY <1>5, <1>6, <1>7, <1>8 DEF IInv

\* A request is repeated only after its first attempt, which took the cached endpoint.
LEMMA RepeatKeeps ==
    ASSUME IInv, NEW a \in Attempts, NEW t, Step(a, t),
           attempt[a].outerCompleted = "no", t.outerCompleted # "no",
           attempt[a].fromCache, UNCHANGED <<cache, answers, checker, world>>
    PROVE  IInv'
<1>1. PICK r \in Requests, n \in 1..3 : a = <<r, n>>
  BY DEF Attempts
<1>2. TypeOK /\ attempt[a] # NotBegun /\ UNCHANGED cache /\ answers' = answers
  BY DEF IInv, Step, Continues
<1>3. n = 1 /\ answers[r] = <<>> /\ attempt[<<r, 1>>].useCachedEndpoint /\ attempt[<<r, 2>>] = NotBegun
  <2>1. attempt[<<r, n>>] # NotBegun /\ attempt[<<r, n>>].outerCompleted = "no"
        /\ attempt[<<r, n>>].fromCache
    BY <1>1, <1>2
  <2>2. answers[r] = <<>> /\ n # 3
        /\ (n = 1 => attempt[<<r, 1>>].useCachedEndpoint /\ attempt[<<r, 2>>] = NotBegun)
        /\ (n = 2 => ~attempt[<<r, 2>>].fromCache)
    BY <2>1, NothingAnswered
  <2>3. n # 2
    BY <2>1, <2>2
  <2>. QED  BY <2>2, <2>3
<1>4. TypeOK'
  BY <1>2, StepAt DEF TypeOK, cache, world
<1>5. ASSUME NEW b \in Attempts PROVE Sound(attempt[b])'
  <2>1. CASE b = a
    BY <1>2, <2>1, StepAt DEF Step, Continues, Sound
  <2>2. CASE b # a
    BY <1>2, <2>2, StepAt DEF IInv, Sound
  <2>. QED  BY <2>1, <2>2
<1>6. ASSUME NEW q \in Requests PROVE InTurn(q)' /\ RightAnswer(q)'
  <2> DEFINE one == <<q, 1>>  two == <<q, 2>>  three == <<q, 3>>
  <2>1. one \in Attempts /\ two \in Attempts /\ three \in Attempts
        /\ one # two /\ one # three /\ two # three
    BY DEF Attempts
  <2>2. InTurn(q) /\ RightAnswer(q)
    BY DEF IInv
  <2>3. attempt'[two] = attempt[two] /\ attempt'[three] = attempt[three]
    BY <1>1, <1>2, <1>3, <2>1, StepAt
  <2>4. CASE q # r
    <3>1. attempt'[one] = attempt[one]
      BY <1>1, <1>2, <2>1, <2>4, StepAt
    <3>. QED  BY <1>2, <2>2, <2>3, <3>1 DEF InTurn, RightAnswer
  <2>5. CASE q = r
    <3>1. attempt'[one] = t
      BY <1>1, <1>2, <1>3, <2>1, <2>5, StepAt
    <3>2. t.useCachedEndpoint /\ t # NotBegun
      BY <1>1, <1>3 DEF Step, Continues, NotBegun
    <3>3. InTurn(q)'
      BY <1>2, <1>3, <2>2, <2>3, <2>5, <3>1, <3>2 DEF InTurn
    <3>4. RightAnswer(q)'
      BY <1>2, <1>3, <2>5 DEF RightAnswer
    <3>. QED  BY <3>3, <3>4
  <2>. QED  BY <2>4, <2>5
<1>7. CacheOfProvider'
  BY <1>2, StepCacheOfProvider
<1>. QED  BY <1>4, <1>5, <1>6, <1>7 DEF IInv

\* An attempt that has begun and is not completed is not to be repeated, ...
LEMMA NoRepetitionDue ==
    ASSUME IInv, NEW a \in Attempts, attempt[a] # NotBegun, ~Completed(a)
    PROVE  "retry" \notin attempt[a].todo /\ (attempt[a].useCachedEndpoint \/ ~attempt[a].fromCache)
<1>1. PICK r \in Requests, n \in 1..3 : a = <<r, n>>
  BY DEF Attempts
<1>2. attempt[<<r, n>>] # NotBegun /\ attempt[<<r, n>>].outerCompleted = "no"
  BY <1>1 DEF Completed
<1>3. /\ "retry" \notin attempt[<<r, n>>].todo /\ n # 3
      /\ n = 1 => attempt[<<r, 1>>].useCachedEndpoint
      /\ n = 2 => ~attempt[<<r, 2>>].fromCache
  BY <1>2, NothingAnswered
<1>4. n = 1 \/ n = 2
  BY <1>3
<1>. QED  BY <1>1, <1>3, <1>4

LEMMA ClaimedAttempt ==
    ASSUME NEW q \in Attempt, NEW todo \in SUBSET Callbacks,
           NEW by \in {"no", "failing", "closing", "replying", "timeout"}
    PROVE  [q EXCEPT !.todo = todo, !.outerCompleted = by] \in Attempt
  BY AttemptIs DEF Claims

\* ... and a claim leaves its record sound.
LEMMA ClaimedSound ==
    ASSUME IInv, NEW a \in Attempts, attempt[a] # NotBegun, ~Completed(a),
           NEW by \in {"failing", "timeout", "replying"}
    PROVE  /\ Claimed(a, by) \in Attempt /\ Sound(Claimed(a, by))
           /\ Continues(attempt[a], Claimed(a, by))
           /\ Claimed(a, by).outerCompleted # "no" /\ "retry" \notin Claimed(a, by).todo
           /\ Claimed(a, by).fromCache = attempt[a].fromCache
<1> DEFINE todo == attempt[a].todo \ {by}
           t == [attempt[a] EXCEPT !.todo = todo, !.outerCompleted = by]
<1>1. attempt[a] \in Attempt /\ Sound(attempt[a]) /\ "retry" \notin attempt[a].todo
  BY AttemptSound, NoRepetitionDue
<1>2. Claimed(a, by) = t
  <2>1. Then(a, by, {}) = todo
    BY DEF Then
  <2>. QED  BY <2>1 DEF Claimed
<1>3. todo \subseteq Callbacks /\ todo \subseteq attempt[a].todo
  BY <1>1 DEF Attempt
<1>4. by \in {"no", "failing", "closing", "replying", "timeout"} /\ by # "no" /\ by # "closing"
  OBVIOUS
<1> HIDE DEF todo
<1>5. /\ t \in Attempt /\ t.todo = todo /\ t.outerCompleted = by
      /\ t.fromCache = attempt[a].fromCache /\ t.useCachedEndpoint = attempt[a].useCachedEndpoint
      /\ t.target = attempt[a].target /\ t.captured = attempt[a].captured
      /\ t.lookup = attempt[a].lookup /\ t.endpoint = attempt[a].endpoint
      /\ t.requestReplyReceived = attempt[a].requestReplyReceived
  <2>1. t \in Attempt
    BY <1>1, <1>3, <1>4, ClaimedAttempt
  <2>. QED  BY <1>1, <2>1 DEF Attempt
<1> HIDE DEF t
<1>6. Sound(t)
  BY <1>1, <1>3, <1>4, <1>5 DEF Sound
<1>7. Continues(attempt[a], t)
  BY <1>4, <1>5, <1>6 DEF Continues
<1>. QED  BY <1>1, <1>2, <1>3, <1>4, <1>5, <1>6, <1>7

LEMMA ClaimFailureKeeps == ASSUME IInv, NEW a \in Attempts, ClaimFailure(a) PROVE IInv'
<1>1. /\ attempt[a] \in Attempt /\ Sound(attempt[a])
      /\ cached \in Providers \cup {NIL}
  BY AttemptSound
<1>2. Runs(a, "failing")
  BY <1>1 DEF ClaimFailure, Sound, Runs
<1>3. attempt[a] # NotBegun
  BY <1>2, HasBegun DEF Runs
<1>4. CASE Completed(a)
  <2> DEFINE t == Dropped(a, "failing")
  <2>1. Only(a, t)
    BY <1>1, <1>4 DEF ClaimFailure, Sound, Runs
  <2>2. t \in Attempt /\ Sound(t)
    BY <1>1 DEF Attempt, Callbacks, Dropped, Then, Sound
  <2>3. Continues(attempt[a], t) /\ ("retry" \in t.todo => "retry" \in attempt[a].todo)
    BY <1>1, <1>3, <2>2 DEF Continues, Attempt, Dropped, Then
  <2> HIDE DEF t
  <2>. QED  BY <2>1, <2>3, OnlyKeeps
<1>5. CASE ~Completed(a) /\ attempt[a].fromCache /\ attempt[a].useCachedEndpoint
  <2> DEFINE c == Claimed(a, "failing")
             t == [c EXCEPT !.todo = @ \cup {"retry"}]
  <2>1. Only(a, t)
    BY <1>1, <1>5 DEF ClaimFailure, Sound, Runs
  <2>2. c \in Attempt /\ Sound(c) /\ Continues(attempt[a], c) /\ c.outerCompleted # "no"
    BY <1>3, <1>5, ClaimedSound
  <2>3. t \in Attempt /\ Sound(t) /\ t.outerCompleted # "no" /\ Continues(attempt[a], t)
    <3> HIDE DEF c
    <3>1. t \in Attempt
      BY <2>2 DEF Attempt, Callbacks
    <3>2. /\ t.todo = c.todo \cup {"retry"} /\ t.outerCompleted = c.outerCompleted
          /\ t.fromCache = c.fromCache /\ t.useCachedEndpoint = c.useCachedEndpoint
          /\ t.target = c.target /\ t.captured = c.captured
          /\ t.lookup = c.lookup /\ t.endpoint = c.endpoint
      BY <2>2 DEF Attempt
    <3>3. Sound(t)
      BY <2>2, <3>2 DEF Sound
    <3>. QED  BY <2>2, <3>1, <3>2, <3>3 DEF Continues
  <2> HIDE DEF t
  <2>. QED  BY <1>5, <2>1, <2>3, RepeatKeeps DEF Only, Set, Step, Completed
<1>6. CASE ~Completed(a) /\ ~(attempt[a].fromCache /\ attempt[a].useCachedEndpoint)
  <2> DEFINE t == Claimed(a, "failing")
  <2>1. Set(a, t) /\ Answered(a[1], "transport") /\ UNCHANGED <<cache, checker, world>>
    BY <1>1, <1>6 DEF ClaimFailure, Sound, Runs
  <2>2. /\ Continues(attempt[a], t) /\ t.outerCompleted # "no" /\ "retry" \notin t.todo
        /\ ~t.fromCache
    BY <1>3, <1>6, ClaimedSound, NoRepetitionDue
  <2> HIDE DEF t
  <2>. QED  BY <1>6, <2>1, <2>2, ClaimKeeps DEF Set, Step, Completed
<1>. QED  BY <1>4, <1>5, <1>6

LEMMA ClaimTimeoutKeeps == ASSUME IInv, NEW a \in Attempts, ClaimTimeout(a) PROVE IInv'
<1>1. attempt[a] \in Attempt /\ Sound(attempt[a]) /\ attempt[a] # NotBegun
  BY AttemptSound, HasBegun DEF ClaimTimeout, Runs
<1>2. CASE Completed(a)
  <2> DEFINE t == Dropped(a, "timeout")
  <2>1. Only(a, t)
    BY <1>2 DEF ClaimTimeout
  <2>2. t \in Attempt /\ Sound(t)
    BY <1>1 DEF Attempt, Callbacks, Dropped, Then, Sound
  <2>3. Continues(attempt[a], t) /\ ("retry" \in t.todo => "retry" \in attempt[a].todo)
    BY <1>1, <2>2 DEF Continues, Attempt, Dropped, Then
  <2> HIDE DEF t
  <2>. QED  BY <2>1, <2>3, OnlyKeeps
<1>3. CASE ~Completed(a)
  <2> DEFINE c == Claimed(a, "timeout")
             t == [c EXCEPT !.todo = @ \cup {"invalidated"}, !.link = "closed", !.message = "gone"]
  <2>1. Set(a, t) /\ Answered(a[1], "timeout") /\ UNCHANGED <<cache, checker, world>>
    BY <1>3 DEF ClaimTimeout
  <2>2. /\ c \in Attempt /\ Sound(c) /\ Continues(attempt[a], c)
        /\ c.outerCompleted # "no" /\ "retry" \notin c.todo
    BY <1>1, <1>3, ClaimedSound
  <2>3. Continues(attempt[a], t) /\ t.outerCompleted # "no" /\ "retry" \notin t.todo
    <3> HIDE DEF c
    <3>1. t \in Attempt
      BY <2>2 DEF Attempt, Callbacks
    <3>2. /\ t.todo = c.todo \cup {"invalidated"} /\ t.outerCompleted = c.outerCompleted
          /\ t.fromCache = c.fromCache /\ t.useCachedEndpoint = c.useCachedEndpoint
          /\ t.target = c.target /\ t.captured = c.captured
          /\ t.lookup = c.lookup /\ t.endpoint = c.endpoint
      BY <2>2 DEF Attempt
    <3>3. Sound(t)
      BY <2>2, <3>2 DEF Sound
    <3>. QED  BY <2>2, <3>1, <3>2, <3>3 DEF Continues
  <2> HIDE DEF t
  <2>. QED  BY <1>3, <2>1, <2>3, ClaimKeeps DEF Set, Step, Completed
<1>. QED  BY <1>2, <1>3

LEMMA ClaimReplyKeeps == ASSUME IInv, NEW a \in Attempts, ClaimReply(a) PROVE IInv'
<1>1. attempt[a] \in Attempt /\ Sound(attempt[a]) /\ attempt[a] # NotBegun
  BY AttemptSound, HasBegun DEF ClaimReply, Runs
<1>2. CASE Completed(a)
  <2> DEFINE t == Dropped(a, "replying")
  <2>1. Only(a, t)
    BY <1>2 DEF ClaimReply, MayReply
  <2>2. t \in Attempt /\ Sound(t)
    BY <1>1 DEF Attempt, Callbacks, Dropped, Then, Sound
  <2>3. Continues(attempt[a], t) /\ ("retry" \in t.todo => "retry" \in attempt[a].todo)
    BY <1>1, <2>2 DEF Continues, Attempt, Dropped, Then
  <2> HIDE DEF t
  <2>. QED  BY <2>1, <2>3, OnlyKeeps
<1>3. CASE ~Completed(a)
  <2> DEFINE t == Claimed(a, "replying")
  <2>1. Set(a, t) /\ Answered(a[1], "reply") /\ UNCHANGED <<cache, checker, world>>
    BY <1>3 DEF ClaimReply, MayReply
  <2>2. Continues(attempt[a], t) /\ t.outerCompleted # "no" /\ "retry" \notin t.todo
    BY <1>1, <1>3, ClaimedSound
  <2> HIDE DEF t
  <2>. QED  BY <1>3, <2>1, <2>2, ClaimKeeps DEF Set, Step, Completed
<1>. QED  BY <1>2, <1>3

\* An attempt at its beginning.
LEMMA BegunSound ==
    ASSUME NEW useCached \in BOOLEAN, cached \in Providers \cup {NIL}
    PROVE  LET begun == Begun(useCached) IN
           /\ begun \in Attempt /\ Sound(begun) /\ begun # NotBegun
           /\ begun.useCachedEndpoint = useCached /\ begun.outerCompleted = "no"
           /\ "retry" \notin begun.todo
           /\ begun.fromCache => useCached
<1> DEFINE found == IF useCached THEN cached ELSE NIL
           from == found # NIL
           todo == {"config"}
           begun == [NotBegun EXCEPT !.fromCache = from, !.useCachedEndpoint = useCached,
                                     !.endpoint = found, !.todo = todo]
<1>1. Begun(useCached) = begun
  BY DEF Begun
<1>2. /\ found \in Providers \cup {NIL} /\ from \in BOOLEAN /\ (from => useCached)
      /\ todo \subseteq Callbacks /\ todo = {"config"}
  BY DEF Callbacks
<1>3. NotBegun \in Attempt /\ NotBegun.todo = {} /\ NotBegun.lookup = "none"
      /\ NotBegun.target = NIL /\ NotBegun.outerCompleted = "no"
  BY DEF NotBegun, Attempt
<1> HIDE DEF found, from, todo
<1>4. begun \in Attempt
  BY <1>2, <1>3, AttemptIs DEF Ends
<1>5. /\ begun.todo = todo /\ begun.fromCache = from /\ begun.useCachedEndpoint = useCached
      /\ begun.lookup = "none" /\ begun.target = NIL /\ begun.outerCompleted = "no"
  BY <1>2, <1>3 DEF Attempt
<1> HIDE DEF begun
<1>6. Sound(begun)
  BY <1>2, <1>5 DEF Sound
<1>7. begun # NotBegun /\ "retry" \notin begun.todo
  BY <1>2, <1>3, <1>5
<1>. QED  BY <1>1, <1>2, <1>4, <1>5, <1>6, <1>7

LEMMA RetryKeeps == ASSUME IInv, NEW a \in Attempts, Retry(a) PROVE IInv'
<1>1. PICK r \in Requests, n \in 1..3 : a = <<r, n>>
  BY DEF Attempts
<1>2. /\ TypeOK /\ InTurn(r) /\ RightAnswer(r)
      /\ attempt[a] \in Attempt /\ Sound(attempt[a]) /\ attempt[a] # NotBegun
  BY AttemptSound, HasBegun DEF IInv, Retry, Runs
<1>3. n = 1
  BY <1>1, <1>2 DEF Retry, Runs, InTurn
<1> DEFINE one == <<r, 1>>  two == <<r, 2>>  three == <<r, 3>>
           t == [attempt[a] EXCEPT !.todo = Then(a, "retry", {})]
           begun == Begun(SecondUseCachedEndpoint)
<1>4. SecondUseCachedEndpoint = FALSE /\ cached \in Providers \cup {NIL}
  BY <1>2 DEF SecondUseCachedEndpoint, TypeOK
<1>5. begun \in Attempt /\ Sound(begun) /\ begun # NotBegun
      /\ ~begun.useCachedEndpoint /\ ~begun.fromCache /\ "retry" \notin begun.todo
  BY <1>4, BegunSound
<1>6. t \in Attempt /\ Sound(t) /\ t.outerCompleted = attempt[a].outerCompleted
      /\ t.useCachedEndpoint = attempt[a].useCachedEndpoint /\ "retry" \notin t.todo
      /\ t.fromCache = attempt[a].fromCache
  BY <1>2 DEF Attempt, Callbacks, Then, Sound
<1>7. a = one /\ one \in Attempts /\ two \in Attempts /\ three \in Attempts
      /\ one # two /\ one # three /\ two # three
  BY <1>1, <1>3 DEF Attempts
<1>8. attempt' = [attempt EXCEPT ![one] = t, ![two] = begun]
  BY <1>1, <1>3 DEF Retry
<1> HIDE DEF t, begun
<1>9. /\ attempt' \in [Attempts -> Attempt]
      /\ attempt'[one] = t /\ attempt'[two] = begun
      /\ \A b \in Attempts : b # one /\ b # two => attempt'[b] = attempt[b]
  BY <1>2, <1>5, <1>6, <1>7, <1>8 DEF TypeOK
<1>10. cached' = NIL /\ UNCHANGED <<provider, answers, checker, world>>
  BY DEF Retry
<1>11. TypeOK'
  BY <1>2, <1>9, <1>10 DEF TypeOK, world
<1>12. ASSUME NEW b \in Attempts PROVE Sound(attempt[b])'
  <2>1. CASE b = one
    BY <1>6, <1>9, <2>1 DEF Sound
  <2>2. CASE b = two
    BY <1>5, <1>9, <2>2 DEF Sound
  <2>3. CASE b # one /\ b # two
    BY <1>9, <2>3 DEF IInv, Sound
  <2>. QED  BY <2>1, <2>2, <2>3
<1>13. ASSUME NEW q \in Requests PROVE InTurn(q)' /\ RightAnswer(q)'
  <2>1. InTurn(q) /\ RightAnswer(q)
    BY DEF IInv
  <2>2. CASE q # r
    <3>1. /\ <<q, 1>> \in Attempts /\ <<q, 2>> \in Attempts /\ <<q, 3>> \in Attempts
          /\ <<q, 1>> # one /\ <<q, 1>> # two /\ <<q, 2>> # one /\ <<q, 2>> # two
          /\ <<q, 3>> # one /\ <<q, 3>> # two
      BY <2>2 DEF Attempts
    <3>2. attempt'[<<q, 1>>] = attempt[<<q, 1>>] /\ attempt'[<<q, 2>>] = attempt[<<q, 2>>]
          /\ attempt'[<<q, 3>>] = attempt[<<q, 3>>]
      BY <1>9, <3>1
    <3>. QED  BY <1>10, <2>1, <3>2 DEF InTurn, RightAnswer
  <2>3. CASE q = r
    <3>1. answers[r] = <<>> /\ attempt[one].outerCompleted # "no" /\ attempt[one].useCachedEndpoint
      BY <1>2, <1>7 DEF InTurn, Retry, Runs
    <3>2. t # NotBegun
      BY <1>6, <1>7, <3>1 DEF NotBegun
    <3>3. attempt'[three] = NotBegun
      BY <1>2, <1>7, <1>9 DEF InTurn
    <3>4. InTurn(q)'
      BY <1>5, <1>6, <1>7, <1>9, <1>10, <2>3, <3>1, <3>2, <3>3 DEF InTurn
    <3>5. RightAnswer(q)'
      BY <1>10, <2>3, <3>1 DEF RightAnswer
    <3>. QED  BY <3>4, <3>5
  <2>. QED  BY <2>2, <2>3
<1>14. CacheOfProvider'
  BY <1>10 DEF CacheOfProvider
<1>. QED  BY <1>11, <1>12, <1>13, <1>14 DEF IInv

LEMMA StartKeeps == ASSUME IInv, NEW r \in Requests, Start(r) PROVE IInv'
<1> DEFINE one == <<r, 1>>  two == <<r, 2>>  three == <<r, 3>>
           begun == Begun(TRUE)
<1>1. /\ TypeOK /\ InTurn(r) /\ RightAnswer(r) /\ cached \in Providers \cup {NIL}
      /\ attempt[one] = NotBegun
  BY DEF IInv, TypeOK, Start
<1>2. begun \in Attempt /\ Sound(begun) /\ begun # NotBegun
      /\ begun.useCachedEndpoint /\ begun.outerCompleted = "no" /\ "retry" \notin begun.todo
  BY <1>1, BegunSound
<1>3. attempt' = [attempt EXCEPT ![one] = begun] /\ UNCHANGED <<cache, answers, checker, world>>
  BY DEF Start, Only, Set
<1> HIDE DEF begun
<1>4. one \in Attempts /\ two \in Attempts /\ three \in Attempts /\ one # two /\ one # three
  BY DEF Attempts
<1>5. /\ attempt' \in [Attempts -> Attempt]
      /\ attempt'[one] = begun
      /\ \A b \in Attempts : b # one => attempt'[b] = attempt[b]
  BY <1>1, <1>2, <1>3, <1>4 DEF TypeOK
<1>6. TypeOK'
  BY <1>1, <1>3, <1>5 DEF TypeOK, cache, world
<1>7. ASSUME NEW b \in Attempts PROVE Sound(attempt[b])'
  <2>1. CASE b = one
    BY <1>2, <1>5, <2>1 DEF Sound
  <2>2. CASE b # one
    BY <1>5, <2>2 DEF IInv, Sound
  <2>. QED  BY <2>1, <2>2
<1>8. ASSUME NEW q \in Requests PROVE InTurn(q)' /\ RightAnswer(q)'
  <2>1. InTurn(q) /\ RightAnswer(q)
    BY DEF IInv
  <2>2. <<q, 2>> \in Attempts /\ <<q, 3>> \in Attempts /\ <<q, 2>> # one /\ <<q, 3>> # one
    BY DEF Attempts
  <2>3. attempt'[<<q, 2>>] = attempt[<<q, 2>>] /\ attempt'[<<q, 3>>] = attempt[<<q, 3>>]
    BY <1>5, <2>2
  <2>4. CASE q # r
    <3>1. <<q, 1>> \in Attempts /\ <<q, 1>> # one
      BY <2>4 DEF Attempts
    <3>2. attempt'[<<q, 1>>] = attempt[<<q, 1>>]
      BY <1>5, <3>1
    <3>. QED  BY <1>3, <2>1, <2>3, <3>2 DEF InTurn, RightAnswer
  <2>5. CASE q = r
    <3>1. answers[r] = <<>> /\ attempt[two] = NotBegun
      BY <1>1 DEF InTurn
    <3>2. InTurn(q)'
      BY <1>2, <1>3, <1>5, <2>1, <2>3, <2>5, <3>1 DEF InTurn
    <3>3. RightAnswer(q)'
      BY <1>3, <2>5, <3>1 DEF RightAnswer
    <3>. QED  BY <3>2, <3>3
  <2>. QED  BY <2>4, <2>5
<1>9. CacheOfProvider'
  <2>1. SUFFICES ASSUME cached # NIL, cached # provider
                 PROVE  \E b \in Attempts :
                           attempt'[b].captured = provider /\ attempt'[b].target = cached
    BY <1>3 DEF CacheOfProvider, cache
  <2>2. PICK b \in Attempts : attempt[b].captured = provider /\ attempt[b].target = cached
    BY <2>1 DEF IInv, CacheOfProvider
  <2>3. b # one
    BY <1>1, <2>1, <2>2 DEF NotBegun
  <2>. QED  BY <1>5, <2>2, <2>3
<1>. QED  BY <1>6, <1>7, <1>8, <1>9 DEF IInv

-----------------------------------------------------------------------------
(* The check of the providers, what is told, and the surroundings *)

\* The attempts and their answers are left alone.
LEMMA AttemptsLeft ==
    ASSUME IInv, UNCHANGED <<attempt, answers>>, TypeOK',
           cached' = NIL \/ cached' = provider' \/ UNCHANGED cache
    PROVE  IInv'
<1>1. CacheOfProvider'
  <2>1. CASE cached' = NIL \/ cached' = provider'
    BY <2>1 DEF CacheOfProvider
  <2>2. CASE UNCHANGED cache
    BY <2>2 DEF IInv, CacheOfProvider, cache
  <2>. QED  BY <2>1, <2>2
<1>2. ASSUME NEW r \in Requests PROVE InTurn(r)' /\ RightAnswer(r)'
  BY DEF IInv, InTurn, RightAnswer
<1>3. ASSUME NEW b \in Attempts PROVE Sound(attempt[b])'
  BY DEF IInv, Sound
<1>. QED  BY <1>1, <1>2, <1>3 DEF IInv

LEMMA OthersKeep ==
    ASSUME IInv,
           \/ BeginCheck \/ EndWait \/ Validate \/ Switch \/ Select \/ OtherClears
           \/ \E p \in Providers : Told(p) \/ OtherStores(p) \/ Uninstall(p)
    PROVE  IInv'
<1> USE XpcAssumption
<1>1. TypeOK
  BY DEF IInv
<1>2. CASE BeginCheck
  <2>1. TypeOK'
    BY <1>1, <1>2 DEF TypeOK, BeginCheck, Change, Idle, cache
  <2>. QED  BY <1>2, <2>1, AttemptsLeft DEF BeginCheck
<1>3. CASE EndWait
  <2>1. TypeOK'
    BY <1>1, <1>3 DEF TypeOK, EndWait, Checker, cache, world
  <2>. QED  BY <1>3, <2>1, AttemptsLeft DEF EndWait, Checker
<1>4. CASE Validate
  <2>1. UNCHANGED <<cache, attempt, answers, world>>
    BY <1>4 DEF Validate, Choose, Checker
  <2>2. checker \in [at : {"validate"}, flags : SUBSET Providers, choice : {NIL}]
    BY <1>1, <1>4 DEF TypeOK, Validate
  <2>3. \/ checker' = Idle
        \/ checker' = [checker EXCEPT !.at = "switch"]
        \/ \E p \in checker.flags : checker' = [checker EXCEPT !.at = "select", !.choice = p]
    BY <1>4 DEF Validate, Choose, Checker
  <2>4. checker' \in [at : {"idle", "wait", "validate", "switch", "reset"},
                      flags : SUBSET Providers, choice : {NIL}]
                     \cup [at : {"select"}, flags : SUBSET Providers, choice : Providers]
    <3>1. CASE checker' = Idle
      BY <3>1 DEF Idle
    <3>2. CASE checker' = [checker EXCEPT !.at = "switch"]
      BY <2>2, <3>2
    <3>3. ASSUME NEW p \in checker.flags,
                 checker' = [checker EXCEPT !.at = "select", !.choice = p]
          PROVE  checker' \in [at : {"select"}, flags : SUBSET Providers, choice : Providers]
      <4>1. p \in Providers
        BY <2>2, <3>3
      <4>. QED  BY <2>2, <3>3, <4>1
    <3>. QED  BY <2>3, <3>1, <3>2, <3>3
  <2>5. TypeOK'
    BY <1>1, <2>1, <2>4 DEF TypeOK, cache, world
  <2>. QED  BY <2>1, <2>5, AttemptsLeft
<1>5. CASE Switch
  <2>1. UNCHANGED <<cache, attempt, answers, world>>
    BY <1>5 DEF Switch, Choose, Checker
  <2>2. TypeOK'
    BY <1>1, <1>5, <2>1 DEF TypeOK, Switch, Choose, Checker, cache, world
  <2>. QED  BY <2>1, <2>2, AttemptsLeft
<1>6. CASE Select
  <2>1. TypeOK'
    BY <1>1, <1>6 DEF TypeOK, Select, SetProvider, Idle, world
  <2>. QED  BY <1>6, <2>1, AttemptsLeft DEF Select, SetProvider
<1>7. CASE OtherClears
  <2>1. TypeOK'
    BY <1>1, <1>7 DEF TypeOK, OtherClears, Change
  <2>. QED  BY <1>7, <2>1, AttemptsLeft DEF OtherClears
<1>8. ASSUME NEW p \in Providers, Told(p) PROVE IInv'
  <2>1. TypeOK'
    BY <1>1, <1>8 DEF TypeOK, Told, SetProvider, Change
  <2>. QED  BY <1>8, <2>1, AttemptsLeft DEF Told, SetProvider
<1>9. ASSUME NEW p \in Providers, OtherStores(p) PROVE IInv'
  <2>1. TypeOK'
    BY <1>1, <1>9 DEF TypeOK, OtherStores, Change
  <2>. QED  BY <1>9, <2>1, AttemptsLeft DEF OtherStores
<1>10. ASSUME NEW p \in Providers, Uninstall(p) PROVE IInv'
  <2>1. TypeOK'
    BY <1>1, <1>10 DEF TypeOK, Uninstall, Change, cache
  <2>. QED  BY <1>10, <2>1, AttemptsLeft DEF Uninstall
<1>. QED  BY <1>2, <1>3, <1>4, <1>5, <1>6, <1>7, <1>8, <1>9, <1>10

-----------------------------------------------------------------------------
(* The theorems *)

LEMMA Initially == Init => IInv
<1> SUFFICES ASSUME Init PROVE IInv
  OBVIOUS
<1> USE XpcAssumption DEF Init
<1>1. NotBegun \in Attempt /\ Sound(NotBegun) /\ ~NotBegun.useCachedEndpoint /\ ~NotBegun.fromCache
      /\ NotBegun.todo = {} /\ NotBegun.outerCompleted = "no"
  BY DEF NotBegun, Attempt, Callbacks, Sound
<1>2. TypeOK
  <2>1. answers \in [Requests -> Seq({"transport", "timeout", "reply"})]
    OBVIOUS
  <2>. QED  BY <1>1, <2>1 DEF TypeOK, Idle
<1>3. ASSUME NEW a \in Attempts PROVE Sound(attempt[a])
  BY <1>1
<1>4. ASSUME NEW r \in Requests PROVE InTurn(r) /\ RightAnswer(r)
  <2>1. /\ attempt[<<r, 1>>] = NotBegun /\ attempt[<<r, 2>>] = NotBegun
        /\ attempt[<<r, 3>>] = NotBegun /\ answers[r] = <<>>
    BY DEF Attempts
  <2>. QED  BY <1>1, <2>1 DEF InTurn, RightAnswer
<1>. QED  BY <1>2, <1>3, <1>4 DEF IInv, CacheOfProvider

LEMMA NextKeeps == IInv /\ [Next]_vars => IInv'
<1> SUFFICES ASSUME IInv, [Next]_vars PROVE IInv'
  OBVIOUS
<1>1. CASE UNCHANGED vars
  <2>1. UNCHANGED <<provider, cached, attempt, answers, checker, installed, changes>>
    BY <1>1 DEF vars, cache, world
  <2>2. TypeOK'
    BY <2>1 DEF IInv, TypeOK
  <2>. QED  BY <2>1, <2>2, AttemptsLeft DEF cache
<1>2. ASSUME NEW r \in Requests, Start(r) PROVE IInv'
  BY <1>2, StartKeeps
<1>3. ASSUME NEW a \in Attempts, Own(a) PROVE IInv'
  BY <1>3, CheckConfigurationKeeps, CaptureKeeps, OpenLookupKeeps, LookupTimerKeeps,
     StoreEndpointKeeps, OpenDirectKeeps, ReadyKeeps, NoteFailureKeeps, ClaimFailureKeeps, RetryKeeps, WatchdogKeeps,
     ClaimTimeoutKeeps, NoteReplyKeeps, ClaimReplyKeeps DEF Own
<1>4. ASSUME NEW a \in Attempts, Other(a) PROVE IInv'
  BY <1>4, LookupRepliesKeeps, LookupFailsKeeps, ConnectionFailsKeeps, BrokerRepliesKeeps DEF Other
<1>. QED  BY <1>1, <1>2, <1>3, <1>4, OthersKeep DEF Next

LEMMA Inductive == Spec => []IInv
  BY Initially, NextKeeps, PTL DEF Spec

\* Whatever the callbacks do in whatever order, the records of the attempts, the answers and
\* the check of the providers keep their shape, and the cache holds providers only.
THEOREM TypeCorrect == Spec => []TypeOK
<1>1. IInv => TypeOK
  BY DEF IInv
<1>. QED  BY <1>1, Inductive, PTL

\* The caller of handleRequestParam: is called at most once, whatever the replies, the
\* handlers of the connections, the timers and the second attempt do in whatever order.
THEOREM AnsweredAtMostOnce == Spec => []AtMostOneAnswer
<1>1. IInv => AtMostOneAnswer
  BY DEF IInv, AtMostOneAnswer, RightAnswer
<1>. QED  BY <1>1, Inductive, PTL

-----------------------------------------------------------------------------
(***************************************************************************)
(* The promise of the completion block.  A request has been made when its  *)
(* first attempt has begun; no record of a first attempt goes back to that *)
(* of one that has not begun, since it keeps its useCachedEndpoint.        *)
(***************************************************************************)

\* Nobody begins by this step, and no first attempt is forgotten.
NoneBegins == \A r \in Requests : (attempt'[<<r, 1>>] = NotBegun) <=> (attempt[<<r, 1>>] = NotBegun)

\* A step of attempt a that leaves its useCachedEndpoint, and the other attempts, as they are.
Stays(a) ==
    /\ attempt'[a].useCachedEndpoint = attempt[a].useCachedEndpoint
    /\ \A b \in Attempts : b # a => attempt'[b] = attempt[b]

LEMMA GoesOn ==
    ASSUME IInv, NEW a \in Attempts, attempt[a] # NotBegun, Stays(a)
    PROVE  NoneBegins
<1>1. SUFFICES ASSUME NEW r \in Requests
               PROVE  (attempt'[<<r, 1>>] = NotBegun) <=> (attempt[<<r, 1>>] = NotBegun)
  BY DEF NoneBegins
<1>2. <<r, 1>> \in Attempts /\ InTurn(r)
  BY DEF Attempts, IInv
<1>3. CASE a = <<r, 1>>
  <2>1. attempt'[<<r, 1>>].useCachedEndpoint
    BY <1>2, <1>3 DEF InTurn, Stays
  <2>2. ~NotBegun.useCachedEndpoint
    BY DEF NotBegun
  <2>. QED  BY <1>3, <2>1, <2>2
<1>4. CASE a # <<r, 1>>
  BY <1>2, <1>4 DEF Stays
<1>. QED  BY <1>3, <1>4

LEMMA NobodyMoves ==
    ASSUME answers' = answers, NoneBegins PROVE UNCHANGED Promise!vars
<1>1. Standing' = Standing
  BY DEF Standing, NoneBegins
<1>. QED  BY <1>1 DEF Promise!vars

LEMMA CallerIsAnswered ==
    ASSUME IInv, NEW r \in Requests, NEW how \in {"transport", "timeout", "reply"},
           answers[r] = <<>>, Answered(r, how), NoneBegins
    PROVE  Promise!Next
<1>1. answers' = [answers EXCEPT ![r] = <<how>>]
  <2>1. Append(<<>>, how) = <<how>>
    BY OneAnswerIs
  <2>. QED  BY <2>1 DEF Answered
<1>2. answers'[r] # <<>> /\ \A q \in Requests : q # r => answers'[q] = answers[q]
  BY <1>1 DEF IInv, TypeOK
<1>3. Standing[r] \in {"new", "waiting"}
  BY DEF Standing
<1>4. Standing' = [Standing EXCEPT ![r] = "answered"]
  BY <1>2 DEF Standing, NoneBegins
<1>. QED  BY <1>1, <1>3, <1>4 DEF Promise!Next, Promise!Reply

\* An attempt that has not completed claims the completion and answers.
LEMMA ClaimPromised ==
    ASSUME IInv, NEW a \in Attempts, attempt[a] # NotBegun, ~Completed(a), Stays(a),
           NEW how \in {"transport", "timeout", "reply"}, Answered(a[1], how)
    PROVE  Promise!Next
<1>1. PICK r \in Requests, n \in 1..3 : a = <<r, n>>
  BY DEF Attempts
<1>2. attempt[<<r, n>>] # NotBegun /\ attempt[<<r, n>>].outerCompleted = "no"
  BY <1>1 DEF Completed
<1>3. answers[r] = <<>>
  BY <1>2, NothingAnswered
<1>4. NoneBegins
  BY GoesOn
<1>. QED  BY <1>1, <1>3, <1>4, CallerIsAnswered

LEMMA StartPromised == ASSUME IInv, NEW r \in Requests, Start(r) PROVE Promise!Next
<1>1. <<r, 1>> \in Attempts /\ InTurn(r) /\ attempt[<<r, 1>>] = NotBegun
  BY DEF Attempts, IInv, Start
<1>2. answers[r] = <<>>
  BY <1>1 DEF InTurn
<1> DEFINE begun == Begun(TRUE)
<1>3. begun # NotBegun
  BY BegunSound, AttemptSound, <1>1
<1>4. attempt' = [attempt EXCEPT ![<<r, 1>>] = begun] /\ answers' = answers
  BY DEF Start, Only, Set
<1> HIDE DEF begun
<1>5. /\ attempt'[<<r, 1>>] # NotBegun
      /\ \A q \in Requests : q # r => attempt'[<<q, 1>>] = attempt[<<q, 1>>]
  BY <1>1, <1>3, <1>4 DEF IInv, TypeOK, Attempts
<1>6. Standing[r] = "new"
  BY <1>1, <1>2 DEF Standing
<1>7. Standing' = [Standing EXCEPT ![r] = "waiting"]
  BY <1>2, <1>4, <1>5 DEF Standing
<1>. QED  BY <1>4, <1>6, <1>7 DEF Promise!Next, Promise!Ask

\* A record of the attempt with the same useCachedEndpoint is put in its place.
LEMMA SetStays ==
    ASSUME IInv, NEW a \in Attempts, NEW t, Set(a, t),
           t.useCachedEndpoint = attempt[a].useCachedEndpoint
    PROVE  Stays(a)
  BY DEF IInv, TypeOK, Set, Stays

\* What an attempt does without the claim.
LEMMA WorkStays ==
    ASSUME IInv, NEW a \in Attempts,
           \/ CheckConfiguration(a) \/ Capture(a) \/ OpenLookup(a) \/ LookupTimer(a)
           \/ LookupReplies(a) \/ LookupFails(a) \/ StoreEndpoint(a) \/ OpenDirect(a) \/ Ready(a) \/ ConnectionFails(a) \/ BrokerReplies(a)
           \/ NoteFailure(a) \/ Watchdog(a) \/ NoteReply(a)
    PROVE  Stays(a) /\ answers' = answers
<1>1. attempt[a] \in Attempt
  BY AttemptSound
<1>2. attempt \in [Attempts -> Attempt]
  BY DEF IInv, TypeOK
<1>3. CASE Capture(a)
  BY <1>1, <1>2, <1>3, AttemptIs DEF Capture, Only, Set, Stays
<1>4. CASE OpenLookup(a)
  BY <1>1, <1>2, <1>4, AttemptIs DEF OpenLookup, Only, Set, Stays
<1>5. CASE LookupTimer(a)
  BY <1>1, <1>2, <1>5, AttemptIs DEF LookupTimer, Only, Set, Stays
<1>6. CASE LookupReplies(a)
  BY <1>1, <1>2, <1>6, AttemptIs DEF LookupReplies, Only, Set, Stays
<1>7. CASE LookupFails(a)
  BY <1>1, <1>2, <1>7, AttemptIs DEF LookupFails, Only, Set, Stays
<1>8. CASE StoreEndpoint(a)
  BY <1>1, <1>2, <1>8, AttemptIs DEF StoreEndpoint, Set, Stays
<1>9. CASE OpenDirect(a)
  BY <1>1, <1>2, <1>9, AttemptIs DEF OpenDirect, Only, Set, Stays
<1>10. CASE Ready(a)
  BY <1>1, <1>2, <1>10, AttemptIs DEF Ready, Only, Set, Stays
<1>11. CASE ConnectionFails(a)
  BY <1>1, <1>2, <1>11, AttemptIs DEF ConnectionFails, Only, Set, Stays
<1>12. CASE BrokerReplies(a)
  BY <1>1, <1>2, <1>12, AttemptIs DEF BrokerReplies, Only, Set, Stays
<1>13. CASE NoteFailure(a)
  BY <1>1, <1>2, <1>13, AttemptIs DEF NoteFailure, Only, Set, Stays
<1>14. CASE Watchdog(a)
  BY <1>1, <1>2, <1>14, AttemptIs DEF Watchdog, Only, Set, Stays
<1>15. CASE NoteReply(a)
  BY <1>1, <1>2, <1>15, AttemptIs DEF NoteReply, Dropped, Only, Set, Stays
<1>16. CASE CheckConfiguration(a)
  BY <1>1, <1>2, <1>16, AttemptIs DEF CheckConfiguration, Only, Set, Stays
<1>. QED  BY <1>3, <1>4, <1>5, <1>6, <1>7, <1>8, <1>9, <1>10, <1>11, <1>12, <1>13, <1>14, <1>15, <1>16

\* A record of attempt a after a claim, or after one that was not made, is set like any other.
LEMMA ClaimStays ==
    ASSUME IInv, NEW a \in Attempts,
           ClaimFailure(a) \/ ClaimTimeout(a) \/ ClaimReply(a)
    PROVE  Stays(a)
<1>1. attempt[a] \in Attempt
  BY AttemptSound
<1>2. ASSUME NEW by PROVE /\ Claimed(a, by).useCachedEndpoint = attempt[a].useCachedEndpoint
                          /\ Dropped(a, by).useCachedEndpoint = attempt[a].useCachedEndpoint
                          /\ DOMAIN Claimed(a, by) = DOMAIN attempt[a]
  BY <1>1, AttemptIs DEF Claimed, Dropped
<1>3. CASE ClaimFailure(a)
  <2>1. PICK by \in {"failing", "closing"} :
           \/ Set(a, Dropped(a, by)) \/ Set(a, Claimed(a, by))
           \/ Set(a, [Claimed(a, by) EXCEPT !.todo = @ \cup {"retry"}])
    BY <1>3 DEF ClaimFailure, Only
  <2> DEFINE c == Claimed(a, by)
             t == [c EXCEPT !.todo = @ \cup {"retry"}]
  <2>2. c.useCachedEndpoint = attempt[a].useCachedEndpoint
        /\ Dropped(a, by).useCachedEndpoint = attempt[a].useCachedEndpoint
    BY <1>2
  <2>3. t.useCachedEndpoint = c.useCachedEndpoint
    <3>1. "useCachedEndpoint" \in DOMAIN c
      BY <1>1, <1>2, AttemptIs
    <3> HIDE DEF c
    <3>. QED  BY <3>1
  <2>4. Set(a, Dropped(a, by)) \/ Set(a, c) \/ Set(a, t)
    BY <2>1
  <2> HIDE DEF c, t
  <2>. QED  BY <2>2, <2>3, <2>4, SetStays
<1>4. CASE ClaimTimeout(a)
  <2> DEFINE c == Claimed(a, "timeout")
             t == [c EXCEPT !.todo = @ \cup {"invalidated"}, !.link = "closed", !.message = "gone"]
  <2>1. Set(a, Dropped(a, "timeout")) \/ Set(a, t)
    BY <1>4 DEF ClaimTimeout, Only
  <2>2. c.useCachedEndpoint = attempt[a].useCachedEndpoint
        /\ Dropped(a, "timeout").useCachedEndpoint = attempt[a].useCachedEndpoint
    BY <1>2
  <2>3. t.useCachedEndpoint = c.useCachedEndpoint
    <3>1. "useCachedEndpoint" \in DOMAIN c
      BY <1>1, <1>2, AttemptIs
    <3> HIDE DEF c
    <3>. QED  BY <3>1
  <2> HIDE DEF c, t
  <2>. QED  BY <2>1, <2>2, <2>3, SetStays
<1>5. CASE ClaimReply(a)
  <2>1. Set(a, Dropped(a, "replying")) \/ Set(a, Claimed(a, "replying"))
    BY <1>5 DEF ClaimReply, Only
  <2>. QED  BY <1>2, <2>1, SetStays
<1>. QED  BY <1>3, <1>4, <1>5

\* A claim tells the caller, or has the attempt repeated, or comes too late.
LEMMA ClaimStepPromised ==
    ASSUME IInv, NEW a \in Attempts,
           ClaimFailure(a) \/ ClaimTimeout(a) \/ ClaimReply(a)
    PROVE  Promise!Next \/ UNCHANGED Promise!vars
<1>1. attempt[a] # NotBegun
  BY HasBegun DEF ClaimFailure, ClaimTimeout, ClaimReply, Runs
<1>2. Stays(a)
  BY ClaimStays
<1>3. NoneBegins
  BY <1>1, <1>2, GoesOn
<1>4. \/ answers' = answers
      \/ ~Completed(a) /\ \E how \in {"transport", "timeout", "reply"} : Answered(a[1], how)
  BY DEF ClaimFailure, ClaimTimeout, ClaimReply, MayReply, Only
<1>. QED  BY <1>1, <1>2, <1>3, <1>4, NobodyMoves, ClaimPromised

\* The second attempt is not the first of any request.
LEMMA RetryPromised == ASSUME IInv, NEW a \in Attempts, Retry(a) PROVE UNCHANGED Promise!vars
<1>1. PICK r \in Requests, n \in 1..3 : a = <<r, n>>
  BY DEF Attempts
<1>2. InTurn(r) /\ attempt[a] \in Attempt /\ attempt[a] # NotBegun
  BY AttemptSound, HasBegun DEF IInv, Retry, Runs
<1>3. n = 1
  BY <1>1, <1>2 DEF Retry, Runs, InTurn
<1> DEFINE one == <<r, 1>>  two == <<r, 2>>
           t == [attempt[a] EXCEPT !.todo = Then(a, "retry", {})]
           begun == Begun(SecondUseCachedEndpoint)
<1>4. a = one /\ one \in Attempts /\ two \in Attempts /\ one # two
  BY <1>1, <1>3 DEF Attempts
<1>5. attempt' = [attempt EXCEPT ![one] = t, ![two] = begun] /\ answers' = answers
  BY <1>1, <1>3 DEF Retry
<1>6. t.useCachedEndpoint
  BY <1>2, <1>4, AttemptIs DEF InTurn
<1> HIDE DEF t, begun
<1>7. attempt'[one] = t /\ \A b \in Attempts : b # one /\ b # two => attempt'[b] = attempt[b]
  BY <1>4, <1>5 DEF IInv, TypeOK
<1>8. NoneBegins
  <2>1. SUFFICES ASSUME NEW q \in Requests
                 PROVE  (attempt'[<<q, 1>>] = NotBegun) <=> (attempt[<<q, 1>>] = NotBegun)
    BY DEF NoneBegins
  <2>2. CASE q = r
    <3>1. ~NotBegun.useCachedEndpoint
      BY DEF NotBegun
    <3>. QED  BY <1>2, <1>4, <1>6, <1>7, <2>2, <3>1
  <2>3. CASE q # r
    <3>1. <<q, 1>> \in Attempts /\ <<q, 1>> # one /\ <<q, 1>> # two
      BY <2>3 DEF Attempts
    <3>. QED  BY <1>7, <3>1
  <2>. QED  BY <2>2, <2>3
<1>. QED  BY <1>5, <1>8, NobodyMoves

LEMMA StepPromised ==
    ASSUME IInv, [Next]_vars
    PROVE  Promise!Next \/ UNCHANGED Promise!vars
<1>1. CASE attempt' = attempt /\ answers' = answers
  BY <1>1, NobodyMoves DEF NoneBegins
<1>2. CASE \E r \in Requests : Start(r)
  BY <1>2, StartPromised
<1>3. ASSUME NEW a \in Attempts, Own(a) \/ Other(a)
      PROVE  Promise!Next \/ UNCHANGED Promise!vars
  <2>1. CASE ClaimFailure(a) \/ ClaimTimeout(a) \/ ClaimReply(a)
    BY <2>1, ClaimStepPromised
  <2>2. CASE Retry(a)
    BY <2>2, RetryPromised
  <2>3. CASE \/ CheckConfiguration(a) \/ Capture(a) \/ OpenLookup(a) \/ LookupTimer(a) \/ LookupReplies(a)
             \/ LookupFails(a) \/ StoreEndpoint(a) \/ OpenDirect(a) \/ Ready(a)
             \/ ConnectionFails(a) \/ BrokerReplies(a) \/ NoteFailure(a) \/ Watchdog(a)
             \/ NoteReply(a)
    <3>1. Stays(a) /\ answers' = answers
      BY <2>3, WorkStays
    <3>2. attempt[a] # NotBegun
      BY <2>3, HasBegun DEF CheckConfiguration, Capture, OpenLookup, LookupTimer, LookupReplies, LookupFails, Looking,
         StoreEndpoint, OpenDirect, Ready, ConnectionFails, BrokerReplies, NoteFailure,
         Watchdog, NoteReply, Runs
    <3>. QED  BY <3>1, <3>2, GoesOn, NobodyMoves
  <2>. QED  BY <1>3, <2>1, <2>2, <2>3 DEF Own, Other
<1>4. CASE \/ BeginCheck \/ EndWait \/ Validate \/ Switch \/ Select \/ OtherClears
           \/ \E p \in Providers : Told(p) \/ OtherStores(p) \/ Uninstall(p)
  <2>1. attempt' = attempt /\ answers' = answers
    BY <1>4 DEF BeginCheck, EndWait, Validate, Switch, Select, OtherClears, Told, OtherStores,
       Uninstall, Checker, Choose
  <2>. QED  BY <1>1, <2>1
<1>5. CASE UNCHANGED vars
  BY <1>1, <1>5 DEF vars
<1>. QED  BY <1>2, <1>3, <1>4, <1>5 DEF Next

\* The continuation block handed to handleRequestParam: is called as CompletionBlock says,
\* whatever the callbacks of both attempts do: never before the request, once, with one
\* answer.
THEOREM PromiseKept == Spec => KeepsPromise
<1>1. Init => Promise!Init
  <2>1. SUFFICES ASSUME Init PROVE Promise!Init
    OBVIOUS
  <2>2. \A r \in Requests : answers[r] = <<>> /\ attempt[<<r, 1>>] = NotBegun
    BY <2>1 DEF Init, Attempts
  <2>. QED  BY <2>1, <2>2 DEF Init, Promise!Init, Standing
<1>2. IInv /\ [Next]_vars => [Promise!Next]_(Promise!vars)
  BY StepPromised
<1>. QED  BY <1>1, <1>2, Inductive, PTL DEF Spec, KeepsPromise, Promise!Spec

\* The handler of a connection that the attempt closed itself never claims the completion:
\* the mark of the reply, or the claim, is there before the connection is invalidated.
THEOREM OwnEndIsNoFailure == Spec => []NoFalseFailure
<1>1. IInv => NoFalseFailure
  BY DEF IInv, NoFalseFailure, Sound
<1>. QED  BY <1>1, Inductive, PTL

\* A failure is told only after an attempt by the dispatcher, and there is no third attempt.
THEOREM FailureAfterDispatcher == Spec => []TriedDispatcher
<1>1. IInv => TriedDispatcher
  BY DEF IInv, TriedDispatcher, InTurn, RightAnswer, Completed
<1>. QED  BY <1>1, Inductive, PTL

\* The compare-and-store of setCachedBrokerInstanceEndpoint:forProviderType: keeps the
\* endpoint of another provider out, up to a switch there and back.
THEOREM EndpointOfProvider == Spec => []CacheOfProvider
<1>1. IInv => CacheOfProvider
  BY DEF IInv
<1>. QED  BY <1>1, Inductive, PTL
=============================================================================
