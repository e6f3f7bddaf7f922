------------------------- MODULE BrokerInteractive -------------------------
(***************************************************************************)
(* Interactive requests that an iOS application hands to the broker        *)
(* application (MSIDBrokerInteractiveController).  The request leaves by a *)
(* URL that opens the broker; the answer is another URL, or none: then the *)
(* application notices that it is back in the foreground.  Two statics     *)
(* hold the controller and the broker request in progress.  A resume       *)
(* dictionary in the user defaults and an onboarding status in the         *)
(* keychain, which other applications share, outlive the process.          *)
(*                                                                         *)
(* The start of a request runs on any thread, one access to what is shared *)
(* at a time.  The main thread takes one event after the other: the        *)
(* outcome of an open, an answer, a return to the foreground.  The rest of *)
(* a handler is a list of steps still to do (main.todo).                   *)
(*                                                                         *)
(* A call of MSIDOnboardingStatusCache, which reads and writes, is one     *)
(* step.  What the broker and the other applications do is external.       *)
(***************************************************************************)
EXTENDS Naturals, Sequences

CONSTANTS
    Requests,   \* each with a controller and a thread of its own
    NIL         \* no request, no status

ASSUME BrokerAssumption == NIL \notin Requests

Statuses == [by : {"app", "other"}, phase : {"progress", "failed"}]

VARIABLES
    current,        \* s_currentExecutingController
    brokerRequest,  \* s_currentBrokerRequest
    block,          \* block[r] : the controller of r has a completion block
    flow,           \* flow[r] : how far the start of r got, or its end
    watching,       \* the notifications observed
    opening,        \* opens asked for: <<controller, request>>
    main,           \* what the main thread has still to do
    app,            \* the state of the application
    resume,         \* the request of the resume dictionary
    status,         \* the onboarding status
    atBroker,       \* requests the broker has and has not answered
    answers,        \* answers[r] : what the caller of r has got
    crossed         \* history: events crossed that usually do not (Crossing)

process == <<current, brokerRequest, block, flow, watching, opening, main>>
vars == <<process, app, resume, status, atBroker, answers, crossed>>

Starting == {"checked", "request", "status", "resume", "launch"}
Flows == {"new", "waiting", "local", "done", "gone"} \cup Starting

\* Tokens are those of some request; known: the source application was.
Answers == [kind : {"error", "busy", "local", "tokens"}, of : Requests \cup {NIL},
            known : BOOLEAN]
Plain(kind) == [kind |-> kind, of |-> NIL, known |-> FALSE]
Todo == {"complete", "get", "mark", "clear", "answer", "uncurrent", "unrequest", "unresume"}
Idle == [todo |-> <<>>, for |-> NIL, answer |-> Plain("error"), copy |-> NIL]

TypeOK ==
    /\ current \in Requests \cup {NIL} /\ brokerRequest \in Requests \cup {NIL}
    /\ block \in [Requests -> BOOLEAN]
    /\ flow \in [Requests -> Flows]
    /\ watching \subseteq {"foreground", "active"}
    /\ opening \subseteq Requests \X Requests
    /\ main \in [todo : Seq(Todo), for : Requests \cup {NIL}, answer : Answers,
                 copy : Statuses \cup {NIL}]
    /\ app \in {"active", "background", "foregrounding"}
    /\ resume \in Requests \cup {NIL}
    /\ status \in Statuses \cup {NIL}
    /\ atBroker \subseteq Requests
    /\ answers \in [Requests -> Seq(Answers)]
    /\ crossed \in BOOLEAN

Init ==
    /\ current = NIL /\ brokerRequest = NIL
    /\ block = [r \in Requests |-> FALSE]
    /\ flow = [r \in Requests |-> "new"]
    /\ watching = {} /\ opening = {} /\ main = Idle
    /\ app = "active"
    /\ resume = NIL /\ status = NIL /\ atBroker = {}
    /\ answers = [r \in Requests |-> <<>>]
    /\ crossed = FALSE

-----------------------------------------------------------------------------
(***************************************************************************)
(* The start of request r: acquireTokenImpl.                               *)
(***************************************************************************)
Moves(r, from, to) ==
    /\ flow[r] = from
    /\ flow' = [flow EXCEPT ![r] = to]

Answered(r, a) == answers' = [answers EXCEPT ![r] = Append(@, a)]

Refused(r) ==
    /\ current # NIL
    /\ Moves(r, "new", "done")
    /\ Answered(r, Plain("busy"))
    /\ UNCHANGED <<current, brokerRequest, block, watching, opening, main, app,
                   resume, status, atBroker>>

Checked(r) ==
    /\ current = NIL
    /\ Moves(r, "new", "checked")
    /\ UNCHANGED <<current, brokerRequest, block, watching, opening, main, app,
                   resume, status, atBroker, answers>>

\* No broker key, or no broker request: the caller is told, the block stays.
Unprepared(r) ==
    /\ Moves(r, "checked", "done")
    /\ block' = [block EXCEPT ![r] = TRUE]
    /\ Answered(r, Plain("error"))
    /\ UNCHANGED <<current, brokerRequest, watching, opening, main, app,
                   resume, status, atBroker>>

Prepared(r) ==
    /\ Moves(r, "checked", "request")
    /\ block' = [block EXCEPT ![r] = TRUE]
    /\ UNCHANGED <<current, brokerRequest, watching, opening, main, app,
                   resume, status, atBroker, answers>>

SetRequest(r) ==
    /\ Moves(r, "request", "status")
    /\ brokerRequest' = r
    /\ UNCHANGED <<current, block, watching, opening, main, app, resume, status,
                   atBroker, answers>>

\* setWithStatus refuses to replace the status of another application,
\* which is only logged.
MaySet(by) == status # NIL => status.by = by

SetStatus(r) ==
    /\ Moves(r, "status", "resume")
    /\ \/ MaySet("app") /\ status' = [by |-> "app", phase |-> "progress"]
       \/ UNCHANGED status      \* refused, or the keychain failed
    /\ UNCHANGED <<current, brokerRequest, block, watching, opening, main, app,
                   resume, atBroker, answers>>

\* Deviation: a resume dictionary left behind is kept.
KeepsResume(r) == resume' = IF resume = NIL THEN r ELSE resume

SavesResume(r) == resume' = r

SaveResume(r) ==
    /\ Moves(r, "resume", "launch")
    /\ SavesResume(r)
    /\ UNCHANGED <<current, brokerRequest, block, watching, opening, main, app,
                   status, atBroker, answers>>

\* Deviation: the application state is not watched.
CallBrokerUnwatched(c, q, observed) ==
    /\ current' = c
    /\ watching' = observed
    /\ opening' = opening \cup {<<c, q>>}

\* callBrokerWithRequest: by controller c, with these notifications observed.
CallBroker(c, q, observed) ==
    /\ current' = c
    /\ watching' = observed \cup {"foreground"}
    /\ opening' = opening \cup {<<c, q>>}

Launch(r) ==
    /\ Moves(r, "launch", "waiting")
    /\ CallBroker(r, r, watching)
    /\ UNCHANGED <<brokerRequest, block, main, app, resume, status, atBroker, answers>>

-----------------------------------------------------------------------------
(***************************************************************************)
(* Events on the main thread.                                              *)
(***************************************************************************)
Free == main.todo = <<>>

\* completeAcquireTokenWithResult: of the controller c; both of its callers
\* remove the resume dictionary after it.
Completes(c, a) ==
    /\ main' = [todo |-> IF a.kind = "tokens"
                  THEN <<"clear", "answer", "uncurrent", "unrequest", "unresume">>
                  ELSE <<"get", "mark", "answer", "uncurrent", "unrequest", "unresume">>,
                for |-> c, answer |-> a, copy |-> NIL]
    /\ watching' = {}

Opens(c, q) ==
    /\ Free /\ <<c, q>> \in opening /\ app = "active"
    /\ opening' = opening \ {<<c, q>>}
    /\ app' = "background"
    /\ atBroker' = atBroker \cup {q}
    /\ UNCHANGED <<current, brokerRequest, block, flow, watching, main, resume,
                   status, answers>>

\* handleFailedOpenURL: the local controller takes over, if there is one and
\* the broker was not to be installed first.
OpenFails(c, q) ==
    /\ Free /\ <<c, q>> \in opening
    /\ opening' = opening \ {<<c, q>>}
    /\ watching' = {}
    /\ \E a \in {Plain("error"), Plain("local")} :
        main' = [todo |-> <<"uncurrent", "unrequest", "clear", "answer">>,
                 for |-> c, answer |-> a, copy |-> NIL]
    /\ UNCHANGED <<current, brokerRequest, block, flow, app, resume, status,
                   atBroker, answers>>

\* The user turns to another application, and back (appEnteredForeground).
Leave ==
    /\ Free /\ app = "active"
    /\ app' = "background"
    /\ UNCHANGED <<process, resume, status, atBroker, answers>>

Foreground ==
    /\ Free /\ app = "background"
    /\ app' = "foregrounding"
    /\ watching' = IF "foreground" \in watching
                   THEN (watching \ {"foreground"}) \cup {"active"} ELSE watching
    /\ UNCHANGED <<current, brokerRequest, block, flow, opening, main, resume,
                   status, atBroker, answers>>

\* The application is active again, and checkTokenResponse sees to it if it
\* is observed and a request is in progress: the broker gets the request
\* again if this application's status says so, the broker is installed and
\* the broker request is known.
Unconcerned ==
    /\ Free /\ app = "foregrounding"
    /\ "active" \notin watching \/ current = NIL
    /\ app' = "active"
    /\ watching' = watching \ {"active"}
    /\ UNCHANGED <<current, brokerRequest, block, flow, opening, main, resume,
                   status, atBroker, answers>>

Concerned ==
    /\ Free /\ app = "foregrounding" /\ "active" \in watching /\ current # NIL
    /\ app' = "active"

\* Deviation: the broker request is not looked at.
ReturnsToBrokerBlindly == status = [by |-> "app", phase |-> "progress"]

ReturnsToBroker ==
    /\ status = [by |-> "app", phase |-> "progress"]
    /\ brokerRequest # NIL

Replay ==
    /\ Concerned /\ ReturnsToBroker
    /\ CallBroker(current, brokerRequest, watching \ {"active"})
    /\ UNCHANGED <<brokerRequest, block, flow, main, resume, status, atBroker, answers>>

GivesUp ==
    /\ Concerned        \* not to return, or the broker is not installed
    /\ Completes(current, Plain("error"))
    /\ UNCHANGED <<current, brokerRequest, block, flow, opening, resume, status,
                   atBroker, answers>>

\* Deviation: the nonce is not compared.
NonceAcceptedAlways(q, known) == TRUE

NonceAccepted(q, known) == known \/ q = resume

\* completeAcquireToken: the broker's answer to request q arrives.  An answer
\* that nobody waits for is ignored; without the resume dictionary, with the
\* wrong nonce or if the broker failed it is an error.  known: the system
\* named the source application.
Handled == resume # NIL \/ (current # NIL /\ block[current])

Arrives(q) ==
    /\ Free /\ app \in {"foregrounding", "active"} /\ q \in atBroker
    /\ atBroker' = atBroker \ {q}
    /\ UNCHANGED <<current, brokerRequest, block, flow, watching, opening, app,
                   resume, status, answers>>

Ignored(q) == Arrives(q) /\ ~Handled /\ UNCHANGED main

Receive(q, known) ==
    /\ Arrives(q) /\ Handled
    /\ \E a \in {Plain("error"), [kind |-> "tokens", of |-> q, known |-> known]} :
        /\ a.kind = "tokens" => resume # NIL /\ NonceAccepted(q, known)
        /\ main' = [Idle EXCEPT !.todo = <<"complete">>, !.answer = a]

-----------------------------------------------------------------------------
(***************************************************************************)
(* The steps of the handlers.                                              *)
(***************************************************************************)
Does(step) == main.todo # <<>> /\ Head(main.todo) = step
Goes == main' = IF Len(main.todo) = 1 THEN Idle ELSE [main EXCEPT !.todo = Tail(@)]

\* The answer has been handled, its tokens saved: who is waiting?
Complete ==
    /\ Does("complete")
    /\ IF current = NIL
       THEN main' = [main EXCEPT !.todo = <<"unresume">>] /\ UNCHANGED watching
       ELSE Completes(current, main.answer)
    /\ UNCHANGED <<current, brokerRequest, block, flow, opening, app, resume,
                   status, atBroker, answers>>

\* A failure marks the status it finds, whoever's it is.
Get ==
    /\ Does("get")
    /\ main' = [main EXCEPT !.todo = Tail(@), !.copy = status]
    /\ UNCHANGED <<current, brokerRequest, block, flow, watching, opening, app,
                   resume, status, atBroker, answers>>

Mark ==
    /\ Does("mark") /\ Goes
    /\ \/ /\ main.copy # NIL /\ MaySet(main.copy.by)
          /\ status' = [main.copy EXCEPT !.phase = "failed"]
       \/ UNCHANGED status      \* none, refused, or the keychain failed
    /\ UNCHANGED <<current, brokerRequest, block, flow, watching, opening, app,
                   resume, atBroker, answers>>

Clear ==
    /\ Does("clear") /\ Goes
    /\ \/ status # NIL /\ status.by = "app" /\ status' = NIL
       \/ UNCHANGED status
    /\ UNCHANGED <<current, brokerRequest, block, flow, watching, opening, app,
                   resume, atBroker, answers>>

\* Deviation: the block is copied and not cleared.
TakesBlockNot(c) == UNCHANGED block

\* copyAndClearCompletionBlock
TakesBlock(c) == block' = [block EXCEPT ![c] = FALSE]

Answer ==
    LET c == main.for IN
    /\ Does("answer") /\ Goes
    /\ CASE ~block[c] -> UNCHANGED <<block, flow, answers>>
         [] block[c] /\ main.answer.kind = "local" ->
                /\ TakesBlock(c)
                /\ flow' = [flow EXCEPT ![c] = "local"]
                /\ UNCHANGED answers
         [] block[c] /\ main.answer.kind # "local" ->
                /\ TakesBlock(c)
                /\ flow' = [flow EXCEPT ![c] = "done"]
                /\ Answered(c, main.answer)
    /\ UNCHANGED <<current, brokerRequest, watching, opening, app, resume, status,
                   atBroker>>

Uncurrent ==
    /\ Does("uncurrent") /\ Goes
    /\ current' = NIL
    /\ UNCHANGED <<brokerRequest, block, flow, watching, opening, app, resume,
                   status, atBroker, answers>>

Unrequest ==
    /\ Does("unrequest") /\ Goes
    /\ brokerRequest' = NIL
    /\ UNCHANGED <<current, block, flow, watching, opening, app, resume, status,
                   atBroker, answers>>

Unresume ==
    /\ Does("unresume") /\ Goes
    /\ resume' = NIL
    /\ UNCHANGED <<current, brokerRequest, block, flow, watching, opening, app,
                   status, atBroker, answers>>

-----------------------------------------------------------------------------
(***************************************************************************)
(* Around the controllers: the local controller's answer, the other        *)
(* applications and the passing of time, the end of the process.           *)
(***************************************************************************)
LocalAnswers(r) ==
    /\ Moves(r, "local", "done")
    /\ Answered(r, Plain("local"))
    /\ UNCHANGED <<current, brokerRequest, block, watching, opening, main, app,
                   resume, status, atBroker>>

OtherSets ==
    /\ MaySet("other")
    /\ status' \in {NIL, [by |-> "other", phase |-> "progress"]} \ {status}
    /\ UNCHANGED <<process, app, resume, atBroker, answers>>

\* A status is nothing 15 minutes after it was set.
Expire ==
    /\ status # NIL
    /\ status' = NIL
    /\ UNCHANGED <<process, app, resume, atBroker, answers>>

\* What is in memory is lost; the next return starts the application anew.
Killed ==
    /\ current' = NIL /\ brokerRequest' = NIL
    /\ block' = [r \in Requests |-> FALSE]
    /\ flow' = [r \in Requests |-> IF flow[r] \in {"new", "done"} THEN flow[r] ELSE "gone"]
    /\ watching' = {} /\ opening' = {} /\ main' = Idle
    /\ app' = "background"
    /\ UNCHANGED <<resume, status, atBroker, answers>>

Starts(r) ==
    \/ Refused(r) \/ Checked(r) \/ Unprepared(r) \/ Prepared(r)
    \/ SetRequest(r) \/ SetStatus(r) \/ SaveResume(r) \/ Launch(r)

Outcome(c, q) == Opens(c, q) \/ OpenFails(c, q)

Active == Unconcerned \/ Replay \/ GivesUp

Handles ==
    Complete \/ Get \/ Mark \/ Clear \/ Answer \/ Uncurrent \/ Unrequest \/ Unresume

Steps ==
    \/ \E r \in Requests :
        Starts(r) \/ LocalAnswers(r) \/ Ignored(r) \/ \E k \in BOOLEAN : Receive(r, k)
    \/ \E c, q \in Requests : Outcome(c, q)
    \/ Leave \/ Foreground \/ Active \/ Handles
    \/ OtherSets \/ Expire \/ Killed

(***************************************************************************)
(* Two requests start at once, one starts while the main thread handles an *)
(* event, or an event is handled before the outcome of an open is known.   *)
(***************************************************************************)
Crossing ==
    LET starting == {r \in Requests : flow[r] \in Starting} IN
    \/ \E r, q \in starting : r # q
    \/ ~Free /\ (starting # {} \/ opening # {})

Step(A) == A /\ crossed' = (crossed \/ Crossing')

Next == Step(Steps)

\* The threads run, opens have an outcome, the user comes back, time passes,
\* and the local controller answers.
Fairness ==
    /\ \A r \in Requests : WF_vars(Step(Starts(r))) /\ WF_vars(Step(LocalAnswers(r)))
    /\ \A c, q \in Requests : WF_vars(Step(Outcome(c, q)))
    /\ WF_vars(Step(Foreground)) /\ WF_vars(Step(Active)) /\ WF_vars(Step(Handles))
    /\ WF_vars(Step(Expire))

Spec == Init /\ [][Next]_vars /\ Fairness

-----------------------------------------------------------------------------
(***************************************************************************)
(* However events cross, no caller is answered twice: not by an answer     *)
(* that arrives after the application gave up, nor by an open that fails   *)
(* after an answer.                                                        *)
(***************************************************************************)
OneAnswer == \A r \in Requests : Len(answers[r]) <= 1

(***************************************************************************)
(* What a caller may rely on, however events cross and whenever the        *)
(* process ends: one answer, after the request, or none if the process     *)
(* ended before; an answer for a request of an earlier process, which the  *)
(* broker still had, reaches nobody.                                       *)
(***************************************************************************)
Standing == [r \in Requests |->
    IF answers[r] # <<>> THEN "answered"
    ELSE IF flow[r] = "new" THEN "new"
    ELSE IF flow[r] = "gone" THEN "lost" ELSE "waiting"]

Promise == INSTANCE CompletionBlock
    WITH Callers <- Requests, Replies <- Answers, standing <- Standing, replies <- answers

\* Starts, answers by URL, returns without an answer, failed opens and the end of the process
\* together treat the block of each caller as CompletionBlock says.
KeepsPromise == Promise!Spec

(***************************************************************************)
(* A caller gets the tokens of another request only if the source was      *)
(* known, so that the nonce was not compared, or events crossed.           *)
(***************************************************************************)
OwnTokens ==
    \A r \in Requests : \A i \in DOMAIN answers[r] : LET a == answers[r][i] IN
        a.kind = "tokens" /\ ~a.known /\ ~crossed => a.of = r

(***************************************************************************)
(* Unless events crossed, the request in progress is the one that can be   *)
(* sent again and the one whose answer the resume dictionary admits,       *)
(* whatever earlier requests and earlier processes left behind.            *)
(***************************************************************************)
ProgressAgrees ==
    ~crossed /\ Free /\ current # NIL => brokerRequest = current /\ resume = current

(***************************************************************************)
(* Unless events crossed or the process ended, every caller is answered,   *)
(* though the broker may never answer and is tried again.                  *)
(***************************************************************************)
AnswerComes ==
    \A r \in Requests :
        flow[r] # "new" ~> (answers[r] # <<>> \/ flow[r] = "gone" \/ crossed)

(***************************************************************************)
(* This application leaves the status of another one alone, as the comment *)
(* in setWithStatusLocked has it.                                          *)
(***************************************************************************)
OthersStatusKept ==
    [][status # NIL /\ status.by = "other" /\ status' # status
        => OtherSets \/ Expire]_vars
=============================================================================
