--------------------------- MODULE WebviewSession ---------------------------
(***************************************************************************)
(* Interactive sessions in the embedded web view.                          *)
(* MSIDWebviewAuthorization keeps the one current session of the process;  *)
(* MSIDOAuth2EmbeddedWebviewController shows its view and completes it.    *)
(*                                                                         *)
(* Two threads take steps.  The main thread starts sessions, ends them     *)
(* when a navigation reaches the redirect URI, fails, or the user closes   *)
(* the view, and completes them when the view is gone.  Another thread of  *)
(* the app calls cancelCurrentSession.  The class lock is held for all of  *)
(* cancelCurrentSession and within set and clear; reads of the current     *)
(* session elsewhere, and of complete, take no lock.                       *)
(***************************************************************************)
EXTENDS Naturals, FiniteSets, Sequences

CONSTANTS
    Sessions,   \* sessions, each started once
    MaxCancels, \* bound: calls of cancelCurrentSession
    None        \* no session

ASSUME WebviewAssumption == None \notin Sessions /\ MaxCancels \in Nat

VARIABLES
    current,    \* s_currentSession
    phase,      \* phase[s] : how far the start of session s got
    complete,   \* complete[s] : its web authorization has ended
    handler,    \* handler[s] : its controller holds a completion block
    closing,    \* views being dismissed, each with what ended it
    main,       \* what the main thread is in the middle of
    canceller,  \* what the other thread is in the middle of
    cancels,    \* calls of cancelCurrentSession so far
    answers     \* answers[s] : what the caller of session s has got

vars == <<current, phase, complete, handler, closing, main, canceller,
          cancels, answers>>

Free == [at |-> "free", session |-> None, what |-> "none"]
Within(where, s, w) == [at |-> where, session |-> s, what |-> w]

Init ==
    /\ current = None
    /\ phase = [s \in Sessions |-> "idle"]
    /\ complete = [s \in Sessions |-> FALSE]
    /\ handler = [s \in Sessions |-> FALSE]
    /\ closing = {}
    /\ main = Free
    /\ canceller = Free
    /\ cancels = 0
    /\ answers = [s \in Sessions |-> <<>>]

Locked == canceller # Free

(***************************************************************************)
(* startSession on the main thread: set the current session, under the     *)
(* lock, or answer that there is one.                                      *)
(***************************************************************************)
Claim(s) ==
    /\ main = Free /\ phase[s] = "idle" /\ ~Locked
    /\ current = None
    /\ current' = s
    /\ phase' = [phase EXCEPT ![s] = "claimed"]
    /\ main' = Within("start", s, "none")
    /\ UNCHANGED <<complete, handler, closing, canceller, cancels, answers>>

Refuse(s) ==
    /\ main = Free /\ phase[s] = "idle" /\ ~Locked
    /\ current # None
    /\ phase' = [phase EXCEPT ![s] = "refused"]
    /\ answers' = [answers EXCEPT ![s] = Append(@, "already running")]
    /\ UNCHANGED <<current, complete, handler, closing, main, canceller, cancels>>

\* The rest of startSession: the current session, if it is still there, is
\* read again, and its controller gets the block and shows its view.
Show ==
    /\ main.at = "start"
    /\ LET s == main.session
       IN  /\ handler' = [handler EXCEPT ![s] = current = s]
           /\ phase' = [phase EXCEPT ![s] = IF current = s THEN "shown"
                                                           ELSE "lost"]
    /\ main' = Free
    /\ UNCHANGED <<current, complete, closing, canceller, cancels, answers>>

(***************************************************************************)
(* endWebAuthWithURL on the main thread: complete is tested, then set, and *)
(* the view is dismissed.                                                  *)
(***************************************************************************)
End(s, w) ==
    /\ main = Free /\ phase[s] = "shown"
    /\ ~complete[s]
    /\ main' = Within("end", s, w)
    /\ UNCHANGED <<current, phase, complete, handler, closing, canceller,
                   cancels, answers>>

Dismisses(s, w) ==
    /\ complete' = [complete EXCEPT ![s] = TRUE]
    /\ closing' = closing \cup {<<s, w>>}

\* Deviation: the next session may start before this one's view is gone.
EndSetFreesSlot ==
    /\ main.at = "end" /\ ~Locked
    /\ Dismisses(main.session, main.what)
    /\ current' = None
    /\ main' = Free
    /\ UNCHANGED <<phase, handler, canceller, cancels, answers>>

EndSet ==
    /\ main.at = "end"
    /\ Dismisses(main.session, main.what)
    /\ main' = Free
    /\ UNCHANGED <<current, phase, handler, canceller, cancels, answers>>

(***************************************************************************)
(* cancelCurrentSession on the other thread, with endWebAuthWithURL inside *)
(* it; the dismissal is left to the main thread.                           *)
(***************************************************************************)
CancelBegin ==
    /\ ~Locked /\ cancels < MaxCancels
    /\ current # None
    /\ cancels' = cancels + 1
    /\ canceller' = Within(IF complete[current] THEN "clear" ELSE "set",
                           current, "error")
    /\ UNCHANGED <<current, phase, complete, handler, closing, main, answers>>

CancelSet ==
    /\ canceller.at = "set"
    /\ Dismisses(canceller.session, canceller.what)
    /\ canceller' = Within("clear", canceller.session, canceller.what)
    /\ UNCHANGED <<current, phase, handler, main, cancels, answers>>

CancelClear ==
    /\ canceller.at = "clear"
    /\ current' = None
    /\ canceller' = Free
    /\ UNCHANGED <<phase, complete, handler, closing, main, cancels, answers>>

(***************************************************************************)
(* dispatchCompletionBlock, when the view is gone: the block is taken once *)
(* under the completion lock.  (The other thread never gets here.)         *)
(***************************************************************************)
\* Deviation: the block stays in place.
KeepBlock(s, w) ==
    /\ handler[s]
    /\ main' = Within("answer", s, w)
    /\ UNCHANGED handler

TakeBlock(s, w) ==
    /\ handler[s]
    /\ handler' = [handler EXCEPT ![s] = FALSE]
    /\ main' = Within("answer", s, w)

Closed(s, w) ==
    /\ main = Free
    /\ <<s, w>> \in closing
    /\ closing' = closing \ {<<s, w>>}
    /\ \/ TakeBlock(s, w)
       \/ ~handler[s] /\ UNCHANGED <<handler, main>>
    /\ UNCHANGED <<current, phase, complete, canceller, cancels, answers>>

(***************************************************************************)
(* The completion block of startSession.  A URL is made into a response    *)
(* with the current session, whichever that is: with none the response and *)
(* the error are both nil.  Then the current session is cleared, under the *)
(* lock, and the caller gets the answer.                                   *)
(***************************************************************************)
Response(s) ==
    CASE current = s -> "response"
      [] current = None -> "nothing"
      [] OTHER -> "response of another"

Parse ==
    /\ main.at = "answer"
    /\ main' = Within("clear", main.session,
                      IF main.what = "url" THEN Response(main.session)
                                           ELSE main.what)
    /\ UNCHANGED <<current, phase, complete, handler, closing, canceller,
                   cancels, answers>>

\* Deviation: an error is not passed on.
AnswerQuietly ==
    /\ main.at = "clear" /\ ~Locked
    /\ current' = None
    /\ answers' = IF main.what = "error" THEN answers
                  ELSE [answers EXCEPT ![main.session] = Append(@, main.what)]
    /\ main' = Free
    /\ UNCHANGED <<phase, complete, handler, closing, canceller, cancels>>

\* clearCurrentWebAuthSessionAndFactory, then the completion handler.
Answer ==
    /\ main.at = "clear" /\ ~Locked
    /\ current' = None
    /\ answers' = [answers EXCEPT ![main.session] = Append(@, main.what)]
    /\ main' = Free
    /\ UNCHANGED <<phase, complete, handler, closing, canceller, cancels>>

MainStep ==
    \/ Show \/ EndSet \/ Parse \/ Answer
    \/ \E s \in Sessions, w \in {"url", "error"} : Closed(s, w)

CancelStep == CancelSet \/ CancelClear

Next ==
    \/ \E s \in Sessions : Claim(s) \/ Refuse(s)
    \/ \E s \in Sessions, w \in {"url", "error"} : End(s, w)
    \/ CancelBegin
    \/ MainStep
    \/ CancelStep

(***************************************************************************)
(* Fairness: the main queue runs its blocks, a view that is dismissed goes *)
(* away, and a thread inside cancelCurrentSession goes on.  Nothing makes  *)
(* the user finish.                                                        *)
(***************************************************************************)
Spec == Init /\ [][Next]_vars /\ WF_vars(MainStep) /\ WF_vars(CancelStep)

\* What the callers may get, and what a thread may be in the middle of.
Answers == {"already running", "error", "response", "nothing",
            "response of another"}
Steps == [at : {"free", "start", "end", "answer", "set", "clear"},
          session : Sessions \cup {None},
          what : {"none", "url"} \cup Answers]

(***************************************************************************)
(* Type of the state.                                                      *)
(***************************************************************************)
TypeOK ==
    /\ current \in Sessions \cup {None}
    /\ phase \in [Sessions -> {"idle", "claimed", "shown", "lost", "refused"}]
    /\ complete \in [Sessions -> BOOLEAN]
    /\ handler \in [Sessions -> BOOLEAN]
    /\ closing \in SUBSET (Sessions \X {"url", "error"})
    /\ main \in Steps /\ canceller \in Steps
    /\ cancels \in 0..MaxCancels
    /\ answers \in [Sessions -> Seq(Answers)]

(***************************************************************************)
(* The caller of a session is answered at most once, although the main     *)
(* thread and the canceller can both pass the test of complete.            *)
(***************************************************************************)
AnsweredOnce == \A s \in Sessions : Len(answers[s]) <= 1

(***************************************************************************)
(* What a caller may rely on, whichever thread ends its session: one       *)
(* answer, after the start - or none at all, if the session was cancelled  *)
(* before its controller got the block.                                    *)
(***************************************************************************)
Standing == [s \in Sessions |->
    IF answers[s] # <<>> THEN "answered"
    ELSE CASE phase[s] = "idle" -> "new"
           [] phase[s] = "lost" -> "lost"
           [] OTHER -> "waiting"]

Promise == INSTANCE CompletionBlock
    WITH Callers <- Sessions, Replies <- Answers, standing <- Standing, replies <- answers

\* The main thread and the canceller together treat the block of each caller as
\* CompletionBlock says.
KeepsPromise == Promise!Spec

\* Sessions with a view that still can end.
Live == {s \in Sessions : phase[s] = "shown" /\ ~complete[s]}

(***************************************************************************)
(* As long as cancelCurrentSession has not been called, a live session is  *)
(* the current one, alone, and every answer is the session's own.          *)
(***************************************************************************)
AloneUntilCancelled ==
    cancels = 0 => /\ Live \subseteq {current}
                   /\ \A s \in Sessions : \A i \in 1..Len(answers[s]) :
                        answers[s][i] \in {"already running", "response", "error"}

(***************************************************************************)
(* A session whose view was shown and whose web authorization has ended is *)
(* answered, whoever ended it and whatever session is current by then.     *)
(***************************************************************************)
EndedIsAnswered ==
    \A s \in Sessions :
        (phase[s] = "shown" /\ complete[s]) ~> (answers[s] # <<>>)
=============================================================================
