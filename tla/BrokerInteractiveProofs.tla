----------------------- MODULE BrokerInteractiveProofs ----------------------
(***************************************************************************)
(* Proofs about BrokerInteractive for any number of requests.              *)
(*                                                                         *)
(* No caller is answered twice: the completion block of a controller is    *)
(* the one witness that its caller still waits, except that a request that *)
(* could not be prepared is answered with its block left behind; such a    *)
(* controller is referred to from nowhere, so nothing can find the block   *)
(* (Once).                                                                 *)
(*                                                                         *)
(* Unless events cross, what is in progress agrees and a caller gets its   *)
(* own tokens: then at most one request is at any stage of its start, and  *)
(* the steps left to the main thread say which of the statics and of the   *)
(* resume dictionary are already reset (Agree, for which nothing is said   *)
(* once events have crossed).                                              *)
(***************************************************************************)
EXTENDS BrokerInteractive, SequenceTheorems, TLAPS

\* A handler, or an open that has no outcome yet, can come back to the controller of r.
Referenced(r) == current = r \/ main.for = r \/ \E q \in Requests : <<r, q>> \in opening

\* How the answers of r go with its block.
Once(r) ==
    /\ flow[r] \in {"new", "checked", "local", "gone"} => ~block[r]
    /\ flow[r] # "done" => answers[r] = <<>>
    /\ Len(answers[r]) <= 1
    /\ Referenced(r) => /\ flow[r] \in {"waiting", "local", "done"}
                        /\ flow[r] = "done" => ~block[r]

\* Only these steps are done for no controller.
ForKnown == main.for = NIL => main.todo \in {<<>>, <<"complete">>, <<"unresume">>}

IInv == TypeOK /\ ForKnown /\ \A r \in Requests : Once(r)

Main == [todo : Seq(Todo), for : Requests \cup {NIL}, answer : Answers, copy : Statuses \cup {NIL}]

-----------------------------------------------------------------------------
(* What the main thread has to do *)

LEMMA PlainAnswers == \A kind \in {"error", "busy", "local"} : Plain(kind) \in Answers
  BY DEF Plain, Answers

LEMMA IdleMain == Idle \in Main /\ Idle.for = NIL /\ Idle.todo = <<>>
<1>1. Plain("error") \in Answers
  BY PlainAnswers
<1>2. <<>> \in Seq(Todo)
  OBVIOUS
<1> HIDE DEF Plain, Answers, Todo
<1>. QED  BY <1>1, <1>2 DEF Idle, Main

LEMMA MainTypes == ASSUME TypeOK PROVE main \in Main /\ main.todo \in Seq(Todo)
  BY DEF TypeOK, Main

\* After its last step the main thread is free.
LEMMA GoesOn ==
    ASSUME TypeOK, ForKnown, NEW step, Does(step), Goes
    PROVE  /\ main' \in Main /\ ForKnown'
           /\ main'.for = main.for \/ main'.for = NIL
<1>1. main.todo \in Seq(Todo) /\ main.todo # <<>> /\ main \in Main
  BY MainTypes DEF Does
<1>2. Tail(main.todo) \in Seq(Todo)
  BY <1>1, HeadTailProperties
<1>3. CASE Len(main.todo) = 1
  BY <1>3, IdleMain DEF Goes, ForKnown
<1>4. CASE Len(main.todo) # 1
  <2>1. main' = [main EXCEPT !.todo = Tail(main.todo)]
    BY <1>4 DEF Goes
  <2>2. main.for # NIL
    <3>1. Len(<<"complete">>) = 1 /\ Len(<<"unresume">>) = 1
      OBVIOUS
    <3>. QED  BY <1>1, <1>4, <3>1 DEF ForKnown
  <2> HIDE DEF Todo
  <2>. QED  BY <1>1, <1>2, <2>1, <2>2 DEF Main, ForKnown
<1>. QED  BY <1>3, <1>4

LEMMA StepLists ==
    /\ <<"clear", "answer", "uncurrent", "unrequest", "unresume">> \in Seq(Todo)
    /\ <<"get", "mark", "answer", "uncurrent", "unrequest", "unresume">> \in Seq(Todo)
    /\ <<"uncurrent", "unrequest", "clear", "answer">> \in Seq(Todo)
    /\ <<"unresume">> \in Seq(Todo) /\ <<"complete">> \in Seq(Todo)
  BY DEF Todo

LEMMA CompletesTypes ==
    ASSUME NEW c \in Requests, NEW a \in Answers, Completes(c, a)
    PROVE  main' \in Main /\ main'.for = c
<1> DEFINE todo == IF a.kind = "tokens"
                   THEN <<"clear", "answer", "uncurrent", "unrequest", "unresume">>
                   ELSE <<"get", "mark", "answer", "uncurrent", "unrequest", "unresume">>
<1>1. todo \in Seq(Todo)
  BY StepLists
<1>2. main' = [todo |-> todo, for |-> c, answer |-> a, copy |-> NIL]
  BY DEF Completes
<1> HIDE DEF todo
<1>. QED  BY <1>1, <1>2 DEF Main

-----------------------------------------------------------------------------
(* Steps that leave a request as it is *)

LEMMA OnceKept ==
    ASSUME NEW r \in Requests, Once(r), flow'[r] = flow[r], block'[r] = block[r],
           answers'[r] = answers[r], Referenced(r)' => Referenced(r)
    PROVE  Once(r)'
  BY DEF Once

\* Neither the flows, nor the blocks, nor the answers change, nor is a reference added.
LEMMA AllKept ==
    ASSUME IInv, UNCHANGED <<flow, block, answers>>,
           \A r \in Requests : Referenced(r)' => Referenced(r)
    PROVE  \A r \in Requests : Once(r)'
  BY OnceKept DEF IInv

-----------------------------------------------------------------------------
(* The start of a request *)

LEMMA MovesFacts ==
    ASSUME TypeOK, NEW r \in Requests, NEW from, NEW to \in Flows, Moves(r, from, to)
    PROVE  /\ flow' \in [Requests -> Flows] /\ flow[r] = from /\ flow'[r] = to
           /\ \A q \in Requests : q # r => flow'[q] = flow[q]
  BY DEF TypeOK, Moves

LEMMA AnsweredFacts ==
    ASSUME TypeOK, NEW r \in Requests, NEW a \in Answers, Answered(r, a), answers[r] = <<>>
    PROVE  /\ answers' \in [Requests -> Seq(Answers)] /\ Len(answers'[r]) = 1
           /\ \A q \in Requests : q # r => answers'[q] = answers[q]
<1>1. answers \in [Requests -> Seq(Answers)]
  BY DEF TypeOK
<1>2. Append(<<>>, a) \in Seq(Answers) /\ Len(Append(<<>>, a)) = 1
  <2> HIDE DEF Answers
  <2>. QED  BY EmptySeq, AppendProperties
<1>. QED  BY <1>1, <1>2 DEF Answered

LEMMA StartsKeep ==
    ASSUME IInv, crossed' \in BOOLEAN, NEW r \in Requests, Starts(r) PROVE IInv'
<1>0. TypeOK /\ ForKnown /\ Once(r)
  BY DEF IInv
<1>1. CASE Refused(r)
  <2>1. /\ flow' \in [Requests -> Flows] /\ flow[r] = "new" /\ flow'[r] = "done"
        /\ \A q \in Requests : q # r => flow'[q] = flow[q]
    BY <1>0, <1>1, MovesFacts DEF Refused, Flows, Starting
  <2>2. /\ answers' \in [Requests -> Seq(Answers)] /\ Len(answers'[r]) = 1
        /\ \A q \in Requests : q # r => answers'[q] = answers[q]
    BY <1>0, <1>1, <2>1, PlainAnswers, AnsweredFacts DEF Refused, Once
  <2>3. block' = block
    BY <1>1 DEF Refused
  <2>4. TypeOK'
    BY <1>0, <1>1, <2>1, <2>2, <2>3 DEF TypeOK, Refused
  <2>5. \A q \in Requests : Referenced(q)' => Referenced(q)
    BY <1>1 DEF Refused, Referenced
  <2>6. Once(r)'
    BY <1>0, <2>1, <2>2, <2>3, <2>5 DEF Once
  <2>7. \A q \in Requests : q # r => Once(q)'
    BY <2>1, <2>2, <2>3, <2>5, OnceKept DEF IInv
  <2>8. ForKnown'
    BY <1>0, <1>1 DEF Refused, ForKnown
  <2>. QED  BY <2>4, <2>6, <2>7, <2>8 DEF IInv
<1>2. CASE Checked(r)
  <2>1. /\ flow' \in [Requests -> Flows] /\ flow[r] = "new" /\ flow'[r] = "checked"
        /\ \A q \in Requests : q # r => flow'[q] = flow[q]
    BY <1>0, <1>2, MovesFacts DEF Checked, Flows, Starting
  <2>2. answers' = answers /\ answers[r] = <<>>
    BY <1>0, <1>2, <2>1 DEF Checked, Once
  <2>3. block' = block
    BY <1>2 DEF Checked
  <2>4. TypeOK'
    BY <1>0, <1>2, <2>1, <2>2, <2>3 DEF TypeOK, Checked
  <2>5. \A q \in Requests : Referenced(q)' => Referenced(q)
    BY <1>2 DEF Checked, Referenced
  <2>6. Once(r)'
    BY <1>0, <2>1, <2>2, <2>3, <2>5 DEF Once
  <2>7. \A q \in Requests : q # r => Once(q)'
    BY <2>1, <2>2, <2>3, <2>5, OnceKept DEF IInv
  <2>8. ForKnown'
    BY <1>0, <1>2 DEF Checked, ForKnown
  <2>. QED  BY <2>4, <2>6, <2>7, <2>8 DEF IInv
<1>3. CASE Unprepared(r)
  <2>1. /\ flow' \in [Requests -> Flows] /\ flow[r] = "checked" /\ flow'[r] = "done"
        /\ \A q \in Requests : q # r => flow'[q] = flow[q]
    BY <1>0, <1>3, MovesFacts DEF Unprepared, Flows, Starting
  <2>2. /\ answers' \in [Requests -> Seq(Answers)] /\ Len(answers'[r]) = 1
        /\ \A q \in Requests : q # r => answers'[q] = answers[q]
    BY <1>0, <1>3, <2>1, PlainAnswers, AnsweredFacts DEF Unprepared, Once
  <2>3. /\ block' \in [Requests -> BOOLEAN] /\ block'[r] = TRUE
        /\ \A q \in Requests : q # r => block'[q] = block[q]
    BY <1>0, <1>3 DEF Unprepared, TypeOK
  <2>4. TypeOK'
    BY <1>0, <1>3, <2>1, <2>2, <2>3 DEF TypeOK, Unprepared
  <2>5. \A q \in Requests : Referenced(q)' => Referenced(q)
    BY <1>3 DEF Unprepared, Referenced
  <2>6. Once(r)'
    BY <1>0, <2>1, <2>2, <2>3, <2>5 DEF Once
  <2>7. \A q \in Requests : q # r => Once(q)'
    BY <2>1, <2>2, <2>3, <2>5, OnceKept DEF IInv
  <2>8. ForKnown'
    BY <1>0, <1>3 DEF Unprepared, ForKnown
  <2>. QED  BY <2>4, <2>6, <2>7, <2>8 DEF IInv
<1>4. CASE Prepared(r)
  <2>1. /\ flow' \in [Requests -> Flows] /\ flow[r] = "checked" /\ flow'[r] = "request"
        /\ \A q \in Requests : q # r => flow'[q] = flow[q]
    BY <1>0, <1>4, MovesFacts DEF Prepared, Flows, Starting
  <2>2. answers' = answers /\ answers[r] = <<>>
    BY <1>0, <1>4, <2>1 DEF Prepared, Once
  <2>3. /\ block' \in [Requests -> BOOLEAN] /\ block'[r] = TRUE
        /\ \A q \in Requests : q # r => block'[q] = block[q]
    BY <1>0, <1>4 DEF Prepared, TypeOK
  <2>4. TypeOK'
    BY <1>0, <1>4, <2>1, <2>2, <2>3 DEF TypeOK, Prepared
  <2>5. \A q \in Requests : Referenced(q)' => Referenced(q)
    BY <1>4 DEF Prepared, Referenced
  <2>6. Once(r)'
    BY <1>0, <2>1, <2>2, <2>3, <2>5 DEF Once
  <2>7. \A q \in Requests : q # r => Once(q)'
    BY <2>1, <2>2, <2>3, <2>5, OnceKept DEF IInv
  <2>8. ForKnown'
    BY <1>0, <1>4 DEF Prepared, ForKnown
  <2>. QED  BY <2>4, <2>6, <2>7, <2>8 DEF IInv
<1>5. CASE SetRequest(r)
  <2>1. /\ flow' \in [Requests -> Flows] /\ flow[r] = "request" /\ flow'[r] = "status"
        /\ \A q \in Requests : q # r => flow'[q] = flow[q]
    BY <1>0, <1>5, MovesFacts DEF SetRequest, Flows, Starting
  <2>2. answers' = answers /\ answers[r] = <<>>
    BY <1>0, <1>5, <2>1 DEF SetRequest, Once
  <2>3. block' = block
    BY <1>5 DEF SetRequest
  <2>4. TypeOK'
    BY <1>0, <1>5, <2>1, <2>2, <2>3 DEF TypeOK, SetRequest
  <2>5. \A q \in Requests : Referenced(q)' => Referenced(q)
    BY <1>5 DEF SetRequest, Referenced
  <2>6. Once(r)'
    BY <1>0, <2>1, <2>2, <2>3, <2>5 DEF Once
  <2>7. \A q \in Requests : q # r => Once(q)'
    BY <2>1, <2>2, <2>3, <2>5, OnceKept DEF IInv
  <2>8. ForKnown'
    BY <1>0, <1>5 DEF SetRequest, ForKnown
  <2>. QED  BY <2>4, <2>6, <2>7, <2>8 DEF IInv
<1>6. CASE SetStatus(r)
  <2>1. /\ flow' \in [Requests -> Flows] /\ flow[r] = "status" /\ flow'[r] = "resume"
        /\ \A q \in Requests : q # r => flow'[q] = flow[q]
    BY <1>0, <1>6, MovesFacts DEF SetStatus, Flows, Starting
  <2>2. answers' = answers /\ answers[r] = <<>>
    BY <1>0, <1>6, <2>1 DEF SetStatus, Once
  <2>3. block' = block
    BY <1>6 DEF SetStatus
  <2>4. TypeOK'
    BY <1>0, <1>6, <2>1, <2>2, <2>3 DEF TypeOK, SetStatus, Statuses
  <2>5. \A q \in Requests : Referenced(q)' => Referenced(q)
    BY <1>6 DEF SetStatus, Referenced
  <2>6. Once(r)'
    BY <1>0, <2>1, <2>2, <2>3, <2>5 DEF Once
  <2>7. \A q \in Requests : q # r => Once(q)'
    BY <2>1, <2>2, <2>3, <2>5, OnceKept DEF IInv
  <2>8. ForKnown'
    BY <1>0, <1>6 DEF SetStatus, ForKnown
  <2>. QED  BY <2>4, <2>6, <2>7, <2>8 DEF IInv
<1>7. CASE SaveResume(r)
  <2>1. /\ flow' \in [Requests -> Flows] /\ flow[r] = "resume" /\ flow'[r] = "launch"
        /\ \A q \in Requests : q # r => flow'[q] = flow[q]
    BY <1>0, <1>7, MovesFacts DEF SaveResume, Flows, Starting
  <2>2. answers' = answers /\ answers[r] = <<>>
    BY <1>0, <1>7, <2>1 DEF SaveResume, Once
  <2>3. block' = block
    BY <1>7 DEF SaveResume
  <2>4. TypeOK'
    BY <1>0, <1>7, <2>1, <2>2, <2>3 DEF TypeOK, SaveResume, SavesResume
  <2>5. \A q \in Requests : Referenced(q)' => Referenced(q)
    BY <1>7 DEF SaveResume, Referenced
  <2>6. Once(r)'
    BY <1>0, <2>1, <2>2, <2>3, <2>5 DEF Once
  <2>7. \A q \in Requests : q # r => Once(q)'
    BY <2>1, <2>2, <2>3, <2>5, OnceKept DEF IInv
  <2>8. ForKnown'
    BY <1>0, <1>7 DEF SaveResume, ForKnown
  <2>. QED  BY <2>4, <2>6, <2>7, <2>8 DEF IInv
<1>8. CASE Launch(r)
  <2>1. /\ flow' \in [Requests -> Flows] /\ flow[r] = "launch" /\ flow'[r] = "waiting"
        /\ \A q \in Requests : q # r => flow'[q] = flow[q]
    BY <1>0, <1>8, MovesFacts DEF Launch, Flows, Starting
  <2>2. answers' = answers /\ answers[r] = <<>>
    BY <1>0, <1>8, <2>1 DEF Launch, Once
  <2>3. block' = block
    BY <1>8 DEF Launch
  <2>4. TypeOK'
    BY <1>0, <1>8, <2>1, <2>2, <2>3 DEF TypeOK, Launch, CallBroker
  <2>5. \A q \in Requests : q # r => (Referenced(q)' => Referenced(q))
    BY <1>8 DEF Launch, CallBroker, Referenced
  <2>6. Once(r)'
    BY <1>0, <2>1, <2>2, <2>3 DEF Once
  <2>7. \A q \in Requests : q # r => Once(q)'
    BY <2>1, <2>2, <2>3, <2>5, OnceKept DEF IInv
  <2>8. ForKnown'
    BY <1>0, <1>8 DEF Launch, ForKnown
  <2>. QED  BY <2>4, <2>6, <2>7, <2>8 DEF IInv
<1>. QED  BY <1>0, <1>1, <1>2, <1>3, <1>4, <1>5, <1>6, <1>7, <1>8 DEF Starts

-----------------------------------------------------------------------------
(* Steps that only move the main thread, the application or what it shares *)

LEMMA Quiet ==
    ASSUME IInv, UNCHANGED <<flow, block, answers>>, TypeOK', ForKnown',
           \A r \in Requests : Referenced(r)' => Referenced(r)
    PROVE  IInv'
  BY AllKept DEF IInv

LEMMA EventsKeep ==
    ASSUME IInv, crossed' \in BOOLEAN,
           \/ \E c, q \in Requests : Outcome(c, q)
           \/ \E r \in Requests : Ignored(r) \/ \E k \in BOOLEAN : Receive(r, k)
           \/ Leave \/ Foreground \/ Active \/ OtherSets \/ Expire
    PROVE  IInv'
<1>0. TypeOK /\ ForKnown /\ main \in Main /\ NIL \notin Requests
  BY MainTypes, BrokerAssumption DEF IInv
<1>1. ASSUME NEW c \in Requests, NEW q \in Requests, Opens(c, q) PROVE IInv'
  <2>1. TypeOK'
    BY <1>0, <1>1 DEF TypeOK, Opens
  <2>2. \A r \in Requests : Referenced(r)' => Referenced(r)
    BY <1>1 DEF Opens, Referenced
  <2>3. ForKnown'
    BY <1>0, <1>1 DEF Opens, ForKnown
  <2>. QED  BY <1>1, <2>1, <2>2, <2>3, Quiet DEF Opens
<1>2. ASSUME NEW c \in Requests, NEW q \in Requests, OpenFails(c, q) PROVE IInv'
  <2>1. PICK a \in {Plain("error"), Plain("local")} :
          main' = [todo |-> <<"uncurrent", "unrequest", "clear", "answer">>,
                   for |-> c, answer |-> a, copy |-> NIL]
    BY <1>2 DEF OpenFails
  <2>2. main' \in Main /\ main'.for = c
    <3>1. a \in Answers
      BY PlainAnswers
    <3> HIDE DEF Answers, Plain, Todo
    <3>. QED  BY <2>1, <3>1, StepLists DEF Main
  <2>3. TypeOK'
    BY <1>0, <1>2, <2>2 DEF TypeOK, OpenFails, Main
  <2>4. \A r \in Requests : Referenced(r)' => Referenced(r)
    BY <1>2, <2>2 DEF OpenFails, Referenced
  <2>5. ForKnown'
    BY <1>0, <2>2 DEF ForKnown
  <2>. QED  BY <1>2, <2>3, <2>4, <2>5, Quiet DEF OpenFails
<1>3. ASSUME NEW q \in Requests, Ignored(q) PROVE IInv'
  <2>1. TypeOK'
    BY <1>0, <1>3 DEF TypeOK, Ignored, Arrives
  <2>2. \A r \in Requests : Referenced(r)' => Referenced(r)
    BY <1>3 DEF Ignored, Arrives, Referenced
  <2>3. ForKnown'
    BY <1>0, <1>3 DEF Ignored, Arrives, ForKnown
  <2>. QED  BY <1>3, <2>1, <2>2, <2>3, Quiet DEF Ignored, Arrives
<1>4. ASSUME NEW q \in Requests, NEW k \in BOOLEAN, Receive(q, k) PROVE IInv'
  <2>1. PICK a \in {Plain("error"), [kind |-> "tokens", of |-> q, known |-> k]} :
          main' = [Idle EXCEPT !.todo = <<"complete">>, !.answer = a]
    BY <1>4 DEF Receive
  <2>2. a \in Answers
    BY PlainAnswers DEF Answers
  <2>3. main' \in Main /\ main'.for = NIL /\ main'.todo = <<"complete">>
    <3> HIDE DEF Answers, Todo
    <3>. QED  BY <2>1, <2>2, IdleMain, StepLists DEF Main
  <2>4. TypeOK'
    BY <1>0, <1>4, <2>3 DEF TypeOK, Receive, Arrives, Main
  <2>5. \A r \in Requests : Referenced(r)' => Referenced(r)
    BY <1>0, <1>4, <2>3 DEF Receive, Arrives, Referenced
  <2>6. ForKnown'
    BY <2>3 DEF ForKnown
  <2>. QED  BY <1>4, <2>4, <2>5, <2>6, Quiet DEF Receive, Arrives
<1>5. CASE Leave \/ OtherSets \/ Expire
  <2>1. TypeOK'
    <3>1. CASE Leave
      BY <1>0, <3>1 DEF TypeOK, Leave, process
    <3>2. CASE Expire
      BY <1>0, <3>2 DEF TypeOK, Expire, process
    <3>3. CASE OtherSets
      <4>1. [by |-> "other", phase |-> "progress"] \in Statuses
        BY DEF Statuses
      <4>2. status' \in Statuses \cup {NIL}
        BY <3>3, <4>1 DEF OtherSets
      <4>. QED  BY <1>0, <3>3, <4>2 DEF TypeOK, OtherSets, process
    <3>. QED  BY <1>5, <3>1, <3>2, <3>3
  <2>2. \A r \in Requests : Referenced(r)' => Referenced(r)
    BY <1>5 DEF Leave, OtherSets, Expire, process, Referenced
  <2>3. ForKnown'
    BY <1>0, <1>5 DEF Leave, OtherSets, Expire, process, ForKnown
  <2>. QED  BY <1>5, <2>1, <2>2, <2>3, Quiet DEF Leave, OtherSets, Expire, process
<1>6. CASE Foreground \/ Unconcerned
  <2>1. TypeOK'
    BY <1>0, <1>6 DEF TypeOK, Foreground, Unconcerned
  <2>2. \A r \in Requests : Referenced(r)' => Referenced(r)
    BY <1>6 DEF Foreground, Unconcerned, Referenced
  <2>3. ForKnown'
    BY <1>0, <1>6 DEF Foreground, Unconcerned, ForKnown
  <2>. QED  BY <1>6, <2>1, <2>2, <2>3, Quiet DEF Foreground, Unconcerned
<1>7. CASE Replay
  <2>1. current \in Requests /\ brokerRequest \in Requests
    BY <1>0, <1>7 DEF TypeOK, Replay, Concerned, ReturnsToBroker
  <2>2. TypeOK'
    BY <1>0, <1>7, <2>1 DEF TypeOK, Replay, Concerned, CallBroker
  <2>3. \A r \in Requests : Referenced(r)' => Referenced(r)
    BY <1>7 DEF Replay, CallBroker, Referenced
  <2>4. ForKnown'
    BY <1>0, <1>7 DEF Replay, ForKnown
  <2>. QED  BY <1>7, <2>2, <2>3, <2>4, Quiet DEF Replay
<1>8. CASE GivesUp
  <2>1. current \in Requests
    BY <1>0, <1>8 DEF TypeOK, GivesUp, Concerned
  <2>2. main' \in Main /\ main'.for = current
    BY <1>8, <2>1, PlainAnswers, CompletesTypes DEF GivesUp
  <2>3. TypeOK'
    BY <1>0, <1>8, <2>2 DEF TypeOK, GivesUp, Concerned, Completes, Main
  <2>4. \A r \in Requests : Referenced(r)' => Referenced(r)
    BY <1>8, <2>2 DEF GivesUp, Referenced
  <2>5. ForKnown'
    BY <1>0, <2>1, <2>2 DEF ForKnown
  <2>. QED  BY <1>8, <2>3, <2>4, <2>5, Quiet DEF GivesUp
<1>. QED  BY <1>1, <1>2, <1>3, <1>4, <1>5, <1>6, <1>7, <1>8 DEF Outcome, Active

LEMMA HandlesKeep == ASSUME IInv, crossed' \in BOOLEAN, Handles PROVE IInv'
<1>0. TypeOK /\ ForKnown /\ main \in Main /\ NIL \notin Requests
  BY MainTypes, BrokerAssumption DEF IInv
<1>1. CASE Complete
  <2>1. CASE current = NIL
    <3>1. main' = [main EXCEPT !.todo = <<"unresume">>]
      BY <1>1, <2>1 DEF Complete
    <3>2. main' \in Main /\ main'.for = main.for /\ main'.todo = <<"unresume">>
      <4> HIDE DEF Todo, Answers
      <4>. QED  BY <1>0, <3>1, StepLists DEF Main
    <3>3. TypeOK'
      BY <1>0, <1>1, <2>1, <3>2 DEF TypeOK, Complete, Main
    <3>4. \A r \in Requests : Referenced(r)' => Referenced(r)
      BY <1>1, <3>2 DEF Complete, Referenced
    <3>5. ForKnown'
      BY <3>2 DEF ForKnown
    <3>. QED  BY <1>1, <3>3, <3>4, <3>5, Quiet DEF Complete
  <2>2. CASE current # NIL
    <3>1. current \in Requests /\ main.answer \in Answers
      BY <1>0, <2>2 DEF TypeOK, Main
    <3>2. main' \in Main /\ main'.for = current /\ watching' = {}
      BY <1>1, <2>2, <3>1, CompletesTypes DEF Complete, Completes
    <3>3. TypeOK'
      BY <1>0, <1>1, <3>2 DEF TypeOK, Complete, Main
    <3>4. \A r \in Requests : Referenced(r)' => Referenced(r)
      BY <1>1, <3>2 DEF Complete, Referenced
    <3>5. ForKnown'
      BY <1>0, <3>1, <3>2 DEF ForKnown
    <3>. QED  BY <1>1, <3>3, <3>4, <3>5, Quiet DEF Complete
  <2>. QED  BY <2>1, <2>2
<1>2. CASE Get
  <2>1. main.todo \in Seq(Todo) /\ main.todo # <<>> /\ Head(main.todo) = "get"
        /\ main' = [main EXCEPT !.todo = Tail(main.todo), !.copy = status]
    BY <1>0, <1>2, MainTypes DEF Get, Does
  <2>2. Tail(main.todo) \in Seq(Todo)
    BY <2>1, HeadTailProperties
  <2>3. status \in Statuses \cup {NIL}
    BY <1>0 DEF TypeOK
  <2>4. main' \in Main /\ main'.for = main.for
    <3> HIDE DEF Todo, Answers, Statuses
    <3>. QED  BY <1>0, <2>1, <2>2, <2>3 DEF Main
  <2>5. ForKnown'
    <3>1. Head(<<"complete">>) = "complete" /\ Head(<<"unresume">>) = "unresume"
      OBVIOUS
    <3>2. main.for # NIL
      BY <1>0, <2>1, <3>1 DEF ForKnown
    <3>. QED  BY <2>4, <3>2 DEF ForKnown
  <2>6. TypeOK'
    BY <1>0, <1>2, <2>4 DEF TypeOK, Get, Main
  <2>7. \A r \in Requests : Referenced(r)' => Referenced(r)
    BY <1>2, <2>4 DEF Get, Referenced
  <2>. QED  BY <1>2, <2>5, <2>6, <2>7, Quiet DEF Get
<1>3. CASE Mark
  <2>1. main' \in Main /\ ForKnown' /\ (main'.for = main.for \/ main'.for = NIL)
    BY <1>0, <1>3, GoesOn DEF Mark
  <2>2. status' \in Statuses \cup {NIL}
    BY <1>0, <1>3 DEF Mark, TypeOK, Main, Statuses
  <2>3. TypeOK'
    BY <1>0, <1>3, <2>1, <2>2 DEF TypeOK, Mark, Main
  <2>4. \A r \in Requests : Referenced(r)' => Referenced(r)
    BY <1>0, <1>3, <2>1 DEF Mark, Referenced
  <2>. QED  BY <1>3, <2>1, <2>3, <2>4, Quiet DEF Mark
<1>4. CASE Clear
  <2>1. main' \in Main /\ ForKnown' /\ (main'.for = main.for \/ main'.for = NIL)
    BY <1>0, <1>4, GoesOn DEF Clear
  <2>3. TypeOK'
    BY <1>0, <1>4, <2>1 DEF TypeOK, Clear, Main
  <2>4. \A r \in Requests : Referenced(r)' => Referenced(r)
    BY <1>0, <1>4, <2>1 DEF Clear, Referenced
  <2>. QED  BY <1>4, <2>1, <2>3, <2>4, Quiet DEF Clear
<1>5. CASE Uncurrent
  <2>1. main' \in Main /\ ForKnown' /\ (main'.for = main.for \/ main'.for = NIL)
    BY <1>0, <1>5, GoesOn DEF Uncurrent
  <2>3. TypeOK'
    BY <1>0, <1>5, <2>1 DEF TypeOK, Uncurrent, Main
  <2>4. \A r \in Requests : Referenced(r)' => Referenced(r)
    BY <1>0, <1>5, <2>1 DEF Uncurrent, Referenced
  <2>. QED  BY <1>5, <2>1, <2>3, <2>4, Quiet DEF Uncurrent
<1>6. CASE Unrequest
  <2>1. main' \in Main /\ ForKnown' /\ (main'.for = main.for \/ main'.for = NIL)
    BY <1>0, <1>6, GoesOn DEF Unrequest
  <2>3. TypeOK'
    BY <1>0, <1>6, <2>1 DEF TypeOK, Unrequest, Main
  <2>4. \A r \in Requests : Referenced(r)' => Referenced(r)
    BY <1>0, <1>6, <2>1 DEF Unrequest, Referenced
  <2>. QED  BY <1>6, <2>1, <2>3, <2>4, Quiet DEF Unrequest
<1>7. CASE Unresume
  <2>1. main' \in Main /\ ForKnown' /\ (main'.for = main.for \/ main'.for = NIL)
    BY <1>0, <1>7, GoesOn DEF Unresume
  <2>3. TypeOK'
    BY <1>0, <1>7, <2>1 DEF TypeOK, Unresume, Main
  <2>4. \A r \in Requests : Referenced(r)' => Referenced(r)
    BY <1>0, <1>7, <2>1 DEF Unresume, Referenced
  <2>. QED  BY <1>7, <2>1, <2>3, <2>4, Quiet DEF Unresume
<1>8. CASE Answer
  <2>0. main.for \in Requests /\ main.answer \in Answers
    <3>1. main.todo # <<>> /\ Head(main.todo) = "answer"
      BY <1>8 DEF Answer, Does
    <3>2. Head(<<"complete">>) = "complete" /\ Head(<<"unresume">>) = "unresume"
      OBVIOUS
    <3>. QED  BY <1>0, <3>1, <3>2 DEF ForKnown, Main
  <2>1. main' \in Main /\ ForKnown' /\ (main'.for = main.for \/ main'.for = NIL)
    BY <1>0, <1>8, GoesOn DEF Answer
  <2>2. PICK c \in Requests : c = main.for
    BY <2>0
  <2>3. Once(c) /\ Referenced(c)
    BY <2>2 DEF IInv, Referenced
  <2>4. UNCHANGED <<current, brokerRequest, watching, opening, app, resume, status, atBroker>>
    BY <1>8 DEF Answer
  <2>5. \A r \in Requests : Referenced(r)' => Referenced(r)
    BY <1>0, <2>1, <2>4 DEF Referenced
  <2>6. CASE ~block[c]
    <3>1. UNCHANGED <<block, flow, answers>>
      BY <1>8, <2>2, <2>6 DEF Answer
    <3>2. TypeOK'
      BY <1>0, <2>1, <2>4, <3>1 DEF TypeOK, Main
    <3>. QED  BY <2>1, <2>5, <3>1, <3>2, Quiet
  <2>7. CASE block[c]
    <3>1. answers[c] = <<>>
      BY <2>3, <2>7 DEF Once
    <3>2. /\ block' \in [Requests -> BOOLEAN] /\ ~block'[c]
          /\ \A r \in Requests : r # c => block'[r] = block[r]
      BY <1>0, <1>8, <2>2, <2>7 DEF Answer, TakesBlock, TypeOK
    <3>3. CASE main.answer.kind = "local"
      <4>1. /\ flow' \in [Requests -> Flows] /\ flow'[c] = "local" /\ answers' = answers
            /\ \A r \in Requests : r # c => flow'[r] = flow[r]
        BY <1>0, <1>8, <2>2, <2>7, <3>3 DEF Answer, TypeOK, Flows
      <4>2. TypeOK'
        BY <1>0, <2>1, <2>4, <3>2, <4>1 DEF TypeOK, Main
      <4>3. Once(c)'
        BY <3>1, <3>2, <4>1, <2>3 DEF Once
      <4>4. \A r \in Requests : r # c => Once(r)'
        BY <2>5, <3>2, <4>1, OnceKept DEF IInv
      <4>. QED  BY <2>1, <4>2, <4>3, <4>4 DEF IInv
    <3>4. CASE main.answer.kind # "local"
      <4>1. /\ flow' \in [Requests -> Flows] /\ flow'[c] = "done"
            /\ \A r \in Requests : r # c => flow'[r] = flow[r]
            /\ Answered(c, main.answer)
        BY <1>0, <1>8, <2>2, <2>7, <3>4 DEF Answer, TypeOK, Flows
      <4>2. /\ answers' \in [Requests -> Seq(Answers)] /\ Len(answers'[c]) = 1
            /\ \A r \in Requests : r # c => answers'[r] = answers[r]
        BY <1>0, <2>0, <3>1, <4>1, AnsweredFacts
      <4>3. TypeOK'
        BY <1>0, <2>1, <2>4, <3>2, <4>1, <4>2 DEF TypeOK, Main
      <4>4. Once(c)'
        BY <3>2, <4>1, <4>2 DEF Once
      <4>5. \A r \in Requests : r # c => Once(r)'
        BY <2>5, <3>2, <4>1, <4>2, OnceKept DEF IInv
      <4>. QED  BY <2>1, <4>3, <4>4, <4>5 DEF IInv
    <3>. QED  BY <3>3, <3>4
  <2>. QED  BY <1>0, <2>6, <2>7 DEF TypeOK
<1>. QED  BY <1>1, <1>2, <1>3, <1>4, <1>5, <1>6, <1>7, <1>8 DEF Handles

-----------------------------------------------------------------------------
(* The local controller, and the end of the process *)

LEMMA LocalAnswersKeeps ==
    ASSUME IInv, crossed' \in BOOLEAN, NEW r \in Requests, LocalAnswers(r) PROVE IInv'
<1>0. TypeOK /\ ForKnown /\ Once(r)
  BY DEF IInv
<1>1. /\ flow' \in [Requests -> Flows] /\ flow[r] = "local" /\ flow'[r] = "done"
      /\ \A q \in Requests : q # r => flow'[q] = flow[q]
  BY <1>0, MovesFacts DEF LocalAnswers, Flows
<1>2. /\ answers' \in [Requests -> Seq(Answers)] /\ Len(answers'[r]) = 1
      /\ \A q \in Requests : q # r => answers'[q] = answers[q]
  BY <1>0, <1>1, PlainAnswers, AnsweredFacts DEF LocalAnswers, Once
<1>3. TypeOK' /\ ForKnown'
  BY <1>0, <1>1, <1>2 DEF TypeOK, ForKnown, LocalAnswers
<1>4. block' = block /\ \A q \in Requests : Referenced(q)' => Referenced(q)
  BY DEF LocalAnswers, Referenced
<1>5. Once(r)'
  BY <1>0, <1>1, <1>2, <1>4 DEF Once
<1>6. \A q \in Requests : q # r => Once(q)'
  BY <1>1, <1>2, <1>4, OnceKept DEF IInv
<1>. QED  BY <1>3, <1>5, <1>6 DEF IInv

LEMMA KilledKeeps == ASSUME IInv, crossed' \in BOOLEAN, Killed PROVE IInv'
<1>0. TypeOK /\ NIL \notin Requests
  BY BrokerAssumption DEF IInv
<1>1. flow' \in [Requests -> Flows]
  BY <1>0 DEF Killed, TypeOK, Flows
<1>2. main' \in Main /\ main'.for = NIL /\ main'.todo = <<>>
  BY IdleMain DEF Killed
<1>3. TypeOK'
  BY <1>0, <1>1, <1>2 DEF TypeOK, Killed, Main
<1>4. ForKnown'
  BY <1>2 DEF ForKnown
<1>5. ASSUME NEW r \in Requests PROVE Once(r)'
  <2>1. Once(r) /\ ~block'[r] /\ answers'[r] = answers[r]
        /\ flow'[r] = IF flow[r] \in {"new", "done"} THEN flow[r] ELSE "gone"
    BY <1>5 DEF IInv, Killed
  <2>2. ~Referenced(r)'
    BY <1>0, <1>2 DEF Killed, Referenced
  <2>. QED  BY <2>1, <2>2 DEF Once
<1>. QED  BY <1>3, <1>4, <1>5 DEF IInv

-----------------------------------------------------------------------------
(* The theorems *)

LEMMA Initially == Init => IInv
<1> SUFFICES ASSUME Init PROVE IInv
  OBVIOUS
<1>1. main \in Main /\ main.for = NIL /\ main.todo = <<>> /\ NIL \notin Requests
  BY IdleMain, BrokerAssumption DEF Init
<1>2. answers \in [Requests -> Seq(Answers)]
  <2> HIDE DEF Answers
  <2>. QED  BY EmptySeq DEF Init
<1>3. TypeOK
  BY <1>1, <1>2 DEF Init, TypeOK, Flows, Main
<1>4. ASSUME NEW r \in Requests PROVE Once(r)
  BY <1>1 DEF Init, Once, Referenced
<1>. QED  BY <1>1, <1>3, <1>4 DEF IInv, ForKnown

LEMMA NextKeeps == IInv /\ [Next]_vars => IInv'
<1>1. ASSUME IInv, Next PROVE IInv'
  <2>1. Steps /\ crossed' \in BOOLEAN
    BY <1>1 DEF Next, Step, IInv, TypeOK
  <2>2. ASSUME NEW r \in Requests, Starts(r) PROVE IInv'
    BY <1>1, <2>1, <2>2, StartsKeep
  <2>3. ASSUME NEW r \in Requests, LocalAnswers(r) PROVE IInv'
    BY <1>1, <2>1, <2>3, LocalAnswersKeeps
  <2>. QED  BY <1>1, <2>1, <2>2, <2>3, EventsKeep, HandlesKeep, KilledKeeps DEF Steps
<1>2. ASSUME IInv, UNCHANGED vars PROVE IInv'
  <2>1. TypeOK'
    BY <1>2 DEF IInv, TypeOK, vars, process
  <2>2. ForKnown' /\ \A r \in Requests : Once(r)'
    BY <1>2 DEF IInv, ForKnown, Once, Referenced, vars, process
  <2>. QED  BY <2>1, <2>2 DEF IInv
<1>. QED  BY <1>1, <1>2

LEMMA Inductive == Spec => []IInv
  BY Initially, NextKeeps, PTL DEF Spec

\* The state keeps to its types: the main thread always knows the controller whose caller it
\* is about to answer.
THEOREM TypeCorrect == Spec => []TypeOK
<1>1. IInv => TypeOK
  BY DEF IInv
<1>. QED  BY <1>1, Inductive, PTL

\* copyAndClearCompletionBlock is enough: however starts, answers, returns to the foreground,
\* failed opens and ends of the process cross, no caller is answered twice.
THEOREM AnsweredOnce == Spec => []OneAnswer
<1>1. IInv => OneAnswer
  BY DEF IInv, OneAnswer, Once
<1>. QED  BY <1>1, Inductive, PTL
-----------------------------------------------------------------------------
(***************************************************************************)
(* The promise of the completion block.  A step of the start of a request  *)
(* asks or leaves the caller waiting; an answer goes to a caller who waits *)
(* or is refused on the spot; the end of the process loses those who wait. *)
(***************************************************************************)

\* Nobody's standing changes.
LEMMA NobodyMoves ==
    ASSUME answers' = answers,
           \A r \in Requests : \/ flow'[r] = flow[r]
                               \/ flow[r] \notin {"new", "gone"} /\ flow'[r] \notin {"new", "gone"}
    PROVE  UNCHANGED Promise!vars
<1>1. Standing' = Standing
  BY DEF Standing
<1>. QED  BY <1>1 DEF Promise!vars

LEMMA CallerAsks ==
    ASSUME TypeOK, NEW r \in Requests, Once(r), Moves(r, "new", "checked"), answers' = answers
    PROVE  Promise!Next
<1>1. flow[r] = "new" /\ flow'[r] = "checked" /\ \A q \in Requests : q # r => flow'[q] = flow[q]
  BY MovesFacts DEF Flows, Starting
<1>2. answers[r] = <<>>
  BY <1>1 DEF Once
<1>3. Standing[r] = "new"
  BY <1>1, <1>2 DEF Standing
<1>4. Standing' = [Standing EXCEPT ![r] = "waiting"]
  BY <1>1, <1>2 DEF Standing
<1>. QED  BY <1>3, <1>4 DEF Promise!Next, Promise!Ask

LEMMA CallerIsAnswered ==
    ASSUME TypeOK, NEW r \in Requests, NEW a \in Answers, answers[r] = <<>>, flow[r] # "gone",
           Answered(r, a), \A q \in Requests : q # r => flow'[q] = flow[q]
    PROVE  Promise!Next
<1>1. answers' = [answers EXCEPT ![r] = <<a>>]
  <2>1. Append(<<>>, a) = <<a>>
    OBVIOUS
  <2>. QED  BY <2>1 DEF Answered
<1>2. answers'[r] # <<>> /\ \A q \in Requests : q # r => answers'[q] = answers[q]
  BY <1>1 DEF TypeOK
<1>3. Standing[r] \in {"new", "waiting"}
  BY DEF Standing
<1>4. Standing' = [Standing EXCEPT ![r] = "answered"]
  BY <1>2 DEF Standing
<1> HIDE DEF Answers
<1>. QED  BY <1>1, <1>3, <1>4 DEF Promise!Next, Promise!Reply

LEMMA StartsPromised ==
    ASSUME IInv, NEW r \in Requests, Starts(r) PROVE [Promise!Next]_(Promise!vars)
<1>0. TypeOK /\ Once(r)
  BY DEF IInv
<1>1. CASE Refused(r) \/ Unprepared(r)
  <2>1. PICK from \in {"new", "checked"} : Moves(r, from, "done")
    BY <1>1 DEF Refused, Unprepared
  <2>2. flow[r] = from /\ \A q \in Requests : q # r => flow'[q] = flow[q]
    BY <1>0, <2>1, MovesFacts DEF Flows
  <2>3. PICK kind \in {"busy", "error"} : Answered(r, Plain(kind))
    BY <1>1 DEF Refused, Unprepared
  <2>4. answers[r] = <<>> /\ flow[r] # "gone"
    BY <1>0, <2>2 DEF Once
  <2>5. Plain(kind) \in Answers
    BY PlainAnswers
  <2>. QED  BY <1>0, <2>2, <2>3, <2>4, <2>5, CallerIsAnswered
<1>2. CASE Checked(r)
  BY <1>0, <1>2, CallerAsks DEF Checked
<1>3. CASE Prepared(r) \/ SetRequest(r) \/ SetStatus(r) \/ SaveResume(r) \/ Launch(r)
  <2>1. PICK from \in Starting, to \in Starting \cup {"waiting"} : Moves(r, from, to)
    BY <1>3 DEF Prepared, SetRequest, SetStatus, SaveResume, Launch, Starting
  <2>2. flow[r] = from /\ flow'[r] = to /\ \A q \in Requests : q # r => flow'[q] = flow[q]
    BY <1>0, <2>1, MovesFacts DEF Flows
  <2>3. answers' = answers
    BY <1>3 DEF Prepared, SetRequest, SetStatus, SaveResume, Launch
  <2>. QED  BY <2>1, <2>2, <2>3, NobodyMoves DEF Starting
<1>. QED  BY <1>1, <1>2, <1>3 DEF Starts

\* The block that is there answers for a caller who waits.
LEMMA AnswerPromised == ASSUME IInv, Answer PROVE [Promise!Next]_(Promise!vars)
<1>0. TypeOK /\ ForKnown /\ main \in Main
  BY MainTypes DEF IInv
<1>1. main.for \in Requests /\ main.answer \in Answers
  <2>1. Head(<<"complete">>) = "complete" /\ Head(<<"unresume">>) = "unresume"
    OBVIOUS
  <2>. QED  BY <1>0, <2>1 DEF ForKnown, Main, Answer, Does
<1>2. PICK c \in Requests : c = main.for
  BY <1>1
<1>3. Once(c) /\ Referenced(c)
  BY <1>2 DEF IInv, Referenced
<1>4. CASE ~block[c]
  BY <1>2, <1>4, NobodyMoves DEF Answer
<1>5. CASE block[c]
  <2>1. flow[c] = "waiting" /\ answers[c] = <<>>
    BY <1>3, <1>5 DEF Once
  <2>2. CASE main.answer.kind = "local"
    <3>1. flow' = [flow EXCEPT ![c] = "local"] /\ answers' = answers
      BY <1>2, <1>5, <2>2 DEF Answer
    <3>2. \A r \in Requests : IF r = c THEN flow'[r] = "local" ELSE flow'[r] = flow[r]
      BY <1>0, <3>1 DEF TypeOK
    <3>. QED  BY <2>1, <3>1, <3>2, NobodyMoves
  <2>3. CASE main.answer.kind # "local"
    <3>1. flow' = [flow EXCEPT ![c] = "done"] /\ Answered(c, main.answer)
      BY <1>2, <1>5, <2>3 DEF Answer
    <3>2. \A q \in Requests : q # c => flow'[q] = flow[q]
      BY <1>0, <3>1 DEF TypeOK
    <3>. QED  BY <1>0, <1>1, <2>1, <3>1, <3>2, CallerIsAnswered
  <2>. QED  BY <2>2, <2>3
<1>. QED  BY <1>4, <1>5

LEMMA KilledPromised == ASSUME IInv, Killed PROVE [Promise!Next]_(Promise!vars)
<1> DEFINE S == {r \in Requests : Standing[r] = "waiting" /\ flow[r] # "done"}
<1>1. answers' = answers /\ \A r \in Requests :
          flow'[r] = IF flow[r] \in {"new", "done"} THEN flow[r] ELSE "gone"
  BY DEF Killed
<1>2. ASSUME NEW r \in Requests
      PROVE  Standing'[r] = IF r \in S THEN "lost" ELSE Standing[r]
  <2>1. CASE answers[r] # <<>>
    BY <1>1, <2>1 DEF Standing
  <2>2. CASE answers[r] = <<>>
    BY <1>1, <2>2 DEF Standing
  <2>. QED  BY <2>1, <2>2
<1>3. Standing' = [r \in Requests |-> IF r \in S THEN "lost" ELSE Standing[r]]
  BY <1>2 DEF Standing
<1>4. S \in SUBSET Requests /\ \A r \in S : Standing[r] = "waiting"
  OBVIOUS
<1> HIDE DEF S
<1>5. Promise!Lose(S)
  BY <1>1, <1>3, <1>4 DEF Promise!Lose
<1>. QED  BY <1>4, <1>5 DEF Promise!Next

LEMMA StepPromised == ASSUME IInv, [Next]_vars PROVE [Promise!Next]_(Promise!vars)
<1>1. ASSUME NEW r \in Requests, Starts(r) PROVE [Promise!Next]_(Promise!vars)
  BY <1>1, StartsPromised
<1>2. ASSUME NEW r \in Requests, LocalAnswers(r) PROVE [Promise!Next]_(Promise!vars)
  <2>1. TypeOK /\ Once(r)
    BY DEF IInv
  <2>2. flow[r] = "local" /\ \A q \in Requests : q # r => flow'[q] = flow[q]
    BY <1>2, <2>1, MovesFacts DEF LocalAnswers, Flows
  <2>3. answers[r] = <<>> /\ Answered(r, Plain("local")) /\ Plain("local") \in Answers
    BY <1>2, <2>1, <2>2, PlainAnswers DEF LocalAnswers, Once
  <2>. QED  BY <2>1, <2>2, <2>3, CallerIsAnswered
<1>3. CASE Answer
  BY <1>3, AnswerPromised
<1>4. CASE Killed
  BY <1>4, KilledPromised
<1>5. CASE \/ \E r \in Requests : Ignored(r) \/ \E k \in BOOLEAN : Receive(r, k)
           \/ \E c, q \in Requests : Outcome(c, q)
           \/ Leave \/ Foreground \/ Active \/ OtherSets \/ Expire
  <2>1. UNCHANGED <<flow, answers>>
    BY <1>5 DEF Ignored, Receive, Arrives, Outcome, Opens, OpenFails, Leave, Foreground, Active,
                Unconcerned, Replay, GivesUp, OtherSets, Expire, process
  <2>. QED  BY <2>1, NobodyMoves
<1>6. CASE Complete \/ Get \/ Mark \/ Clear \/ Uncurrent \/ Unrequest \/ Unresume
  <2>1. UNCHANGED <<flow, answers>>
    BY <1>6 DEF Complete, Get, Mark, Clear, Uncurrent, Unrequest, Unresume
  <2>. QED  BY <2>1, NobodyMoves
<1>7. CASE UNCHANGED vars
  BY <1>7, NobodyMoves DEF vars, process
<1>. QED  BY <1>1, <1>2, <1>3, <1>4, <1>5, <1>6, <1>7 DEF Next, Step, Steps, Handles

\* For any number of requests the controller keeps what a completion block promises: an answer
\* comes after the request, once, and is final; a request that ended with its process is never
\* answered, though the broker's answer to it may reach the next process.
THEOREM PromiseKept == Spec => KeepsPromise
<1>1. ASSUME Init PROVE Promise!Init
  <2>1. Standing = [r \in Requests |-> "new"]
    BY <1>1 DEF Init, Standing
  <2>. QED  BY <1>1, <2>1 DEF Init, Promise!Init
<1>. QED  BY <1>1, Inductive, StepPromised, PTL DEF Spec, KeepsPromise, Promise!Spec

-----------------------------------------------------------------------------
(***************************************************************************)
(* What is in progress while events do not cross.  One request starts at a *)
(* time, with nothing in progress and the main thread free, and an open is *)
(* for the request in progress.  The main thread knows how far it is with  *)
(* the end of a request from what it has left to do.                       *)
(***************************************************************************)

\* What can be left to do: with the controller still current, and after that.
ToEnd == {<<"get", "mark", "answer", "uncurrent", "unrequest", "unresume">>,
          <<"mark", "answer", "uncurrent", "unrequest", "unresume">>,
          <<"clear", "answer", "uncurrent", "unrequest", "unresume">>,
          <<"answer", "uncurrent", "unrequest", "unresume">>,
          <<"uncurrent", "unrequest", "unresume">>,
          <<"uncurrent", "unrequest", "clear", "answer">>}
Ended == {<<"unrequest", "unresume">>, <<"unresume">>,
          <<"unrequest", "clear", "answer">>, <<"clear", "answer">>, <<"answer">>}

\* No two requests start, and nothing starts or opens while the main thread is busy.
Alone ==
    /\ \A r, q \in Requests : flow[r] \in Starting /\ flow[q] \in Starting => r = q
    /\ ~Free => opening = {} /\ \A r \in Requests : flow[r] \notin Starting

Started ==
    \A r \in Requests :
        /\ flow[r] \in Starting => current = NIL
        /\ flow[r] \in {"status", "resume", "launch"} => brokerRequest = r
        /\ flow[r] = "launch" => resume = r

InProgress ==
    /\ \A p \in opening : p = <<current, current>>
    /\ (Free \/ main.todo = <<"complete">>) /\ current # NIL =>
            brokerRequest = current /\ resume = current
    /\ main.todo \in {<<>>, <<"complete">>} \cup ToEnd \cup Ended
    /\ main.todo \in Ended => current = NIL

\* Tokens whose nonce was compared.
Compared(a) == a.kind = "tokens" /\ ~a.known

TokensAgree ==
    /\ Compared(main.answer) =>
            /\ main.todo = <<"complete">> => main.answer.of = resume
            /\ main.for # NIL => main.answer.of = main.for
    /\ \A r \in Requests : \A i \in DOMAIN answers[r] :
            Compared(answers[r][i]) => answers[r][i].of = r

Agree == ~crossed => Alone /\ Started /\ InProgress /\ TokensAgree
Calm == Alone /\ Started /\ InProgress /\ TokensAgree

LEMMA AloneMeans == (Alone <=> ~Crossing) /\ (Alone' <=> ~Crossing')
<1>1. Alone <=> ~Crossing
  BY DEF Alone, Crossing
<1>2. Alone' <=> ~Crossing'
  BY DEF Alone, Crossing, Free
<1>. QED  BY <1>1, <1>2

\* The lists are followed one step after the other.
LEMMA Follows ==
    ASSUME NEW list
    PROVE  /\ list \in ToEnd =>
                /\ list # <<>> /\ list # <<"complete">> /\ Len(list) # 1
                /\ Tail(list) \in IF Head(list) = "uncurrent" THEN Ended ELSE ToEnd
           /\ list \in Ended =>
                /\ list # <<>> /\ list # <<"complete">> /\ list \notin ToEnd
                /\ Head(list) # "uncurrent"
                /\ Len(list) # 1 => Tail(list) \in Ended
<1>1. CASE list = <<"get", "mark", "answer", "uncurrent", "unrequest", "unresume">>
  <2>1. /\ Head(list) = "get" /\ Len(list) = 6
        /\ Tail(list) = <<"mark", "answer", "uncurrent", "unrequest", "unresume">>
    BY <1>1
  <2>2. list \notin Ended /\ list # <<>> /\ list # <<"complete">>
    BY <1>1 DEF Ended
  <2>3. Tail(list) \in ToEnd
    BY <2>1 DEF ToEnd
  <2>. QED  BY <2>1, <2>2, <2>3
<1>2. CASE list = <<"mark", "answer", "uncurrent", "unrequest", "unresume">>
  <2>1. /\ Head(list) = "mark" /\ Len(list) = 5
        /\ Tail(list) = <<"answer", "uncurrent", "unrequest", "unresume">>
    BY <1>2
  <2>2. list \notin Ended /\ list # <<>> /\ list # <<"complete">>
    BY <1>2 DEF Ended
  <2>3. Tail(list) \in ToEnd
    BY <2>1 DEF ToEnd
  <2>. QED  BY <2>1, <2>2, <2>3
<1>3. CASE list = <<"clear", "answer", "uncurrent", "unrequest", "unresume">>
  <2>1. /\ Head(list) = "clear" /\ Len(list) = 5
        /\ Tail(list) = <<"answer", "uncurrent", "unrequest", "unresume">>
    BY <1>3
  <2>2. list \notin Ended /\ list # <<>> /\ list # <<"complete">>
    BY <1>3 DEF Ended
  <2>3. Tail(list) \in ToEnd
    BY <2>1 DEF ToEnd
  <2>. QED  BY <2>1, <2>2, <2>3
<1>4. CASE list = <<"answer", "uncurrent", "unrequest", "unresume">>
  <2>1. /\ Head(list) = "answer" /\ Len(list) = 4
        /\ Tail(list) = <<"uncurrent", "unrequest", "unresume">>
    BY <1>4
  <2>2. list \notin Ended /\ list # <<>> /\ list # <<"complete">>
    BY <1>4 DEF Ended
  <2>3. Tail(list) \in ToEnd
    BY <2>1 DEF ToEnd
  <2>. QED  BY <2>1, <2>2, <2>3
<1>5. CASE list = <<"uncurrent", "unrequest", "unresume">>
  <2>1. /\ Head(list) = "uncurrent" /\ Len(list) = 3
        /\ Tail(list) = <<"unrequest", "unresume">>
    BY <1>5
  <2>2. list \notin Ended /\ list # <<>> /\ list # <<"complete">>
    BY <1>5 DEF Ended
  <2>3. Tail(list) \in Ended
    BY <2>1 DEF Ended
  <2>. QED  BY <2>1, <2>2, <2>3
<1>6. CASE list = <<"uncurrent", "unrequest", "clear", "answer">>
  <2>1. /\ Head(list) = "uncurrent" /\ Len(list) = 4
        /\ Tail(list) = <<"unrequest", "clear", "answer">>
    BY <1>6
  <2>2. list \notin Ended /\ list # <<>> /\ list # <<"complete">>
    BY <1>6 DEF Ended
  <2>3. Tail(list) \in Ended
    BY <2>1 DEF Ended
  <2>. QED  BY <2>1, <2>2, <2>3
<1>7. CASE list \in Ended
  <2>1. list # <<>> /\ list # <<"complete">> /\ Head(list) # "uncurrent" /\ list \notin ToEnd
    <3>1. list # <<>> /\ list # <<"complete">> /\ Head(list) # "uncurrent"
      BY <1>7 DEF Ended
    <3>2. Head(list) = "unrequest" \/ list = <<"unresume">> \/ list = <<"clear", "answer">>
          \/ list = <<"answer">>
      BY <1>7 DEF Ended
    <3>3. list \notin ToEnd
      BY <3>2 DEF ToEnd
    <3>. QED  BY <3>1, <3>3
  <2>2. Len(list) # 1 => Tail(list) \in Ended
    <3>1. Len(<<"answer">>) = 1 /\ Len(<<"unresume">>) = 1
      OBVIOUS
    <3>2. /\ Tail(<<"unrequest", "unresume">>) = <<"unresume">>
          /\ Tail(<<"unrequest", "clear", "answer">>) = <<"clear", "answer">>
          /\ Tail(<<"clear", "answer">>) = <<"answer">>
      OBVIOUS
    <3>. QED  BY <1>7, <3>1, <3>2, Zenon DEF Ended
  <2>. QED  BY <2>1, <2>2
<1>. QED  BY <1>1, <1>2, <1>3, <1>4, <1>5, <1>6, <1>7 DEF ToEnd

-----------------------------------------------------------------------------
(* Nothing crosses: the start of a request *)


-----------------------------------------------------------------------------
(* Nothing crosses: the start of a request *)

LEMMA StartsAlone ==
    ASSUME TypeOK, Calm, NEW r \in Requests, flow[r] \in Starting
    PROVE  /\ Free /\ current = NIL /\ opening = {}
           /\ \A q \in Requests : flow[q] \in Starting => q = r
<1>1. Free /\ current = NIL /\ \A q \in Requests : flow[q] \in Starting => q = r
  BY DEF Calm, Alone, Started
<1>2. opening \subseteq Requests \X Requests
  BY DEF TypeOK
<1>. QED  BY <1>1, <1>2, BrokerAssumption DEF Calm, InProgress

\* What the callers were answered, and the main thread, stay as they are.
LEMMA AnswersStay ==
    ASSUME TokensAgree, main' = main, \A r \in Requests : answers'[r] = answers[r],
           main.todo = <<"complete">> => resume' = resume
    PROVE  TokensAgree'
  BY DEF TokensAgree, Compared

\* An answer of the application's own has no tokens.
LEMMA PlainAnswered ==
    ASSUME TypeOK, TokensAgree, UNCHANGED <<main, resume>>, NEW r \in Requests,
           NEW kind \in {"error", "busy", "local"}, answers[r] = <<>>, Answered(r, Plain(kind))
    PROVE  TokensAgree'
<1>1. answers' = [answers EXCEPT ![r] = <<Plain(kind)>>]
  BY DEF Answered
<1>2. answers'[r] = <<Plain(kind)>> /\ \A q \in Requests : q # r => answers'[q] = answers[q]
  BY <1>1 DEF TypeOK
<1>3. ~Compared(Plain(kind))
  BY DEF Compared, Plain
<1>4. \A i \in DOMAIN answers'[r] : answers'[r][i] = Plain(kind)
  BY <1>2
<1>. QED  BY <1>2, <1>3, <1>4 DEF TokensAgree, Compared

LEMMA StartsCalm ==
    ASSUME IInv, Calm, Alone', NEW r \in Requests, Starts(r)
    PROVE  Started' /\ InProgress' /\ TokensAgree'
<1>0. TypeOK /\ Once(r) /\ Alone /\ Started /\ InProgress /\ TokensAgree /\ NIL \notin Requests
  BY BrokerAssumption DEF IInv, Calm
<1>1. CASE Refused(r)
  <2>1. /\ flow[r] = "new" /\ flow'[r] = "done"
        /\ \A q \in Requests : q # r => flow'[q] = flow[q]
    BY <1>0, <1>1, MovesFacts DEF Refused, Flows, Starting
  <2>2. Started'
    BY <1>0, <1>1, <2>1 DEF Started, Refused, Starting
  <2>3. InProgress'
    BY <1>0, <1>1 DEF InProgress, Refused, Free
  <2>4. TokensAgree'
    BY <1>0, <1>1, <2>1, PlainAnswered DEF Refused, Once
  <2>. QED  BY <2>2, <2>3, <2>4
<1>2. CASE Checked(r)
  <2>1. /\ flow[r] = "new" /\ flow'[r] = "checked"
        /\ \A q \in Requests : q # r => flow'[q] = flow[q]
    BY <1>0, <1>2, MovesFacts DEF Checked, Flows, Starting
  <2>2. Started'
    BY <1>0, <1>2, <2>1 DEF Started, Checked, Starting
  <2>3. InProgress'
    BY <1>0, <1>2 DEF InProgress, Checked, Free
  <2>4. TokensAgree'
    BY <1>0, <1>2, AnswersStay DEF Checked
  <2>. QED  BY <2>2, <2>3, <2>4
<1>3. ASSUME flow[r] \in Starting PROVE Started' /\ InProgress' /\ TokensAgree'
  <2>0. /\ Free /\ current = NIL /\ opening = {}
        /\ \A q \in Requests : q # r => flow[q] \notin Starting
    BY <1>0, <1>3, StartsAlone
  <2>1. CASE Unprepared(r) \/ Prepared(r)
    <3>1. /\ flow[r] = "checked" /\ flow'[r] \in {"done", "request"}
          /\ \A q \in Requests : q # r => flow'[q] = flow[q]
      BY <1>0, <2>1, MovesFacts DEF Unprepared, Prepared, Flows, Starting
    <3>2. UNCHANGED <<current, brokerRequest, opening, main, resume>>
      BY <2>1 DEF Unprepared, Prepared
    <3>3. Started'
      BY <2>0, <3>1, <3>2 DEF Started, Starting
    <3>4. InProgress'
      BY <1>0, <3>2 DEF InProgress, Free
    <3>5. TokensAgree'
      BY <1>0, <2>1, <3>1, PlainAnswered, AnswersStay DEF Unprepared, Prepared, Once
    <3>. QED  BY <3>3, <3>4, <3>5
  <2>2. CASE SetRequest(r) \/ SetStatus(r) \/ SaveResume(r)
    <3>1. /\ flow[r] \in Starting /\ flow'[r] \in {"status", "resume", "launch"}
          /\ flow'[r] = "status" => brokerRequest' = r
          /\ flow'[r] # "status" => flow[r] \in {"status", "resume"} /\ brokerRequest' = brokerRequest
          /\ flow'[r] = "launch" => resume' = r
          /\ \A q \in Requests : q # r => flow'[q] = flow[q]
      BY <1>0, <1>3, <2>2, MovesFacts
         DEF SetRequest, SetStatus, SaveResume, SavesResume, Flows, Starting
    <3>2. UNCHANGED <<current, opening, main, answers>>
      BY <2>2 DEF SetRequest, SetStatus, SaveResume
    <3>3. Started'
      BY <1>0, <2>0, <3>1, <3>2 DEF Started, Starting
    <3>4. InProgress'
      BY <1>0, <2>0, <3>2 DEF InProgress, Free
    <3>5. TokensAgree'
      <4>1. main.todo # <<"complete">>
        BY <2>0 DEF Free
      <4>. QED  BY <1>0, <3>2, <4>1, AnswersStay
    <3>. QED  BY <3>3, <3>4, <3>5
  <2>3. CASE Launch(r)
    <3>1. /\ flow[r] = "launch" /\ flow'[r] = "waiting"
          /\ \A q \in Requests : q # r => flow'[q] = flow[q]
      BY <1>0, <2>3, MovesFacts DEF Launch, Flows, Starting
    <3>2. current' = r /\ opening' = {<<r, r>>} /\ UNCHANGED <<brokerRequest, resume, main, answers>>
      BY <2>0, <2>3 DEF Launch, CallBroker
    <3>3. brokerRequest = r /\ resume = r
      BY <1>0, <3>1 DEF Started
    <3>4. Started'
      BY <2>0, <3>1 DEF Started, Starting
    <3>5. InProgress'
      <4>1. main.todo = <<>> /\ <<>> \notin Ended
        BY <2>0, Follows DEF Free
      <4>. QED  BY <3>2, <3>3, <4>1 DEF InProgress, Free
    <3>6. TokensAgree'
      BY <1>0, <3>2, AnswersStay
    <3>. QED  BY <3>4, <3>5, <3>6
  <2>. QED  BY <1>1, <1>2, <2>1, <2>2, <2>3 DEF Starts
<1>4. Refused(r) \/ Checked(r) \/ flow[r] \in Starting
  BY DEF Starts, Moves, Starting, Unprepared, Prepared, SetRequest, SetStatus, SaveResume, Launch
<1>. QED  BY <1>1, <1>2, <1>3, <1>4
-----------------------------------------------------------------------------
(* Nothing crosses: the events on the main thread *)

\* Whatever leaves the requests in progress and the main thread alone.
LEMMA CalmStays ==
    ASSUME IInv, Calm, UNCHANGED <<current, brokerRequest, flow, main, resume, answers>>,
           opening' \subseteq opening
    PROVE  Started' /\ InProgress' /\ TokensAgree'
<1>1. Started /\ InProgress /\ TokensAgree
  BY DEF Calm
<1>2. Started' /\ InProgress'
  BY <1>1 DEF Started, InProgress, Free
<1>3. TokensAgree'
  BY <1>1, AnswersStay
<1>. QED  BY <1>2, <1>3

\* The main thread begins to end the request in progress, if any.
LEMMA EndBegins ==
    ASSUME IInv, Calm, Alone', main'.todo \in ToEnd, main'.for \in Requests,
           Compared(main'.answer) => main'.answer.of = main'.for,
           UNCHANGED <<current, brokerRequest, flow, resume, answers>>
    PROVE  Started' /\ InProgress' /\ TokensAgree'
<1>1. Started /\ InProgress /\ TokensAgree
  BY DEF Calm
<1>2. main'.todo # <<>> /\ main'.todo # <<"complete">> /\ main'.todo \notin Ended
  BY Follows
<1>3. opening' = {}
  BY <1>2 DEF Alone, Free
<1>4. Started' /\ InProgress'
  BY <1>1, <1>2, <1>3 DEF Started, InProgress, Free
<1>5. TokensAgree'
  BY <1>1, <1>2 DEF TokensAgree, Compared
<1>. QED  BY <1>4, <1>5

LEMMA CompletesCalm ==
    ASSUME IInv, Calm, Alone', NEW c \in Requests, NEW a, Completes(c, a),
           Compared(a) => a.of = c, UNCHANGED <<current, brokerRequest, flow, resume, answers>>
    PROVE  Started' /\ InProgress' /\ TokensAgree'
<1>1. main'.todo \in ToEnd /\ main'.for = c /\ main'.answer = a
  <2>1. /\ <<"clear", "answer", "uncurrent", "unrequest", "unresume">> \in ToEnd
        /\ <<"get", "mark", "answer", "uncurrent", "unrequest", "unresume">> \in ToEnd
    BY DEF ToEnd
  <2>. QED  BY <2>1 DEF Completes
<1>. QED  BY <1>1, EndBegins

LEMMA EventsCalm ==
    ASSUME IInv, Calm, Alone',
           \/ \E c, q \in Requests : Outcome(c, q)
           \/ \E r \in Requests : Ignored(r) \/ \E k \in BOOLEAN : Receive(r, k)
           \/ Leave \/ Foreground \/ Active \/ OtherSets \/ Expire
    PROVE  Started' /\ InProgress' /\ TokensAgree'
<1>0. TypeOK /\ Alone /\ Started /\ InProgress /\ TokensAgree /\ NIL \notin Requests
  BY BrokerAssumption DEF IInv, Calm
<1>1. ASSUME NEW c \in Requests, NEW q \in Requests, Opens(c, q)
      PROVE  Started' /\ InProgress' /\ TokensAgree'
  BY <1>1, CalmStays DEF Opens
<1>2. ASSUME NEW c \in Requests, NEW q \in Requests, OpenFails(c, q)
      PROVE  Started' /\ InProgress' /\ TokensAgree'
  <2>1. PICK a \in {Plain("error"), Plain("local")} :
          main' = [todo |-> <<"uncurrent", "unrequest", "clear", "answer">>,
                   for |-> c, answer |-> a, copy |-> NIL]
    BY <1>2 DEF OpenFails
  <2>2. main'.todo \in ToEnd /\ main'.for = c /\ main'.answer = a /\ ~Compared(a)
    BY <2>1 DEF ToEnd, Compared, Plain
  <2>. QED  BY <1>2, <2>2, EndBegins DEF OpenFails
<1>3. CASE \/ \E q \in Requests : Ignored(q)
           \/ Leave \/ Foreground \/ Unconcerned \/ OtherSets \/ Expire
  BY <1>3, CalmStays
     DEF Ignored, Arrives, Leave, Foreground, Unconcerned, OtherSets, Expire, process
<1>4. ASSUME NEW q \in Requests, NEW k \in BOOLEAN, Receive(q, k)
      PROVE  Started' /\ InProgress' /\ TokensAgree'
  <2>1. PICK a \in {Plain("error"), [kind |-> "tokens", of |-> q, known |-> k]} :
          /\ a.kind = "tokens" => NonceAccepted(q, k)
          /\ main' = [Idle EXCEPT !.todo = <<"complete">>, !.answer = a]
    BY <1>4 DEF Receive
  <2>2. main'.todo = <<"complete">> /\ main'.for = NIL /\ main'.answer = a
    BY <2>1 DEF Idle
  <2>3. UNCHANGED <<current, brokerRequest, flow, resume, opening, answers>> /\ Free
    BY <1>4 DEF Receive, Arrives
  <2>4. Compared(a) => a.of = resume
    BY <2>1 DEF Compared, NonceAccepted, Plain
  <2>5. <<"complete">> \notin Ended
    BY Follows
  <2>6. Started' /\ InProgress'
    BY <1>0, <2>2, <2>3, <2>5 DEF Started, InProgress, Free
  <2>7. TokensAgree'
    BY <1>0, <2>2, <2>3, <2>4 DEF TokensAgree, Compared
  <2>. QED  BY <2>6, <2>7
<1>5. CASE Replay
  <2>1. Free /\ current # NIL /\ brokerRequest = current
    BY <1>0, <1>5 DEF Replay, Concerned, InProgress
  <2>2. UNCHANGED <<current, brokerRequest, flow, main, resume, answers>>
        /\ opening' = opening \cup {<<current, current>>}
    BY <1>5, <2>1 DEF Replay, CallBroker
  <2>3. Started' /\ InProgress'
    BY <1>0, <2>2 DEF Started, InProgress, Free
  <2>4. TokensAgree'
    BY <1>0, <2>2, AnswersStay
  <2>. QED  BY <2>3, <2>4
<1>6. CASE GivesUp
  <2>1. current \in Requests /\ ~Compared(Plain("error"))
    BY <1>0, <1>6 DEF TypeOK, GivesUp, Concerned, Compared, Plain
  <2>. QED  BY <1>6, <2>1, CompletesCalm DEF GivesUp
<1>. QED  BY <1>1, <1>2, <1>3, <1>4, <1>5, <1>6 DEF Outcome, Active

-----------------------------------------------------------------------------
(* Nothing crosses: the steps of the handlers *)

\* The next step of a list, and then no more.
LEMMA GoesCalm ==
    ASSUME IInv, Calm, NEW step, Does(step), Goes, step # "complete"
    PROVE  /\ ~Free /\ main.todo \in ToEnd \cup Ended
           /\ main'.todo # <<"complete">>
           /\ main'.todo \in {<<>>} \cup ToEnd \cup Ended
           /\ main.todo \in Ended \/ step = "uncurrent" => main'.todo \in {<<>>} \cup Ended
           /\ main.todo \in ToEnd /\ step # "uncurrent" => main'.todo \in ToEnd
           /\ Compared(main'.answer) =>
                main'.for = main.for /\ main'.answer = main.answer
           /\ main'.for = main.for \/ main'.for = NIL
<1>1. main.todo \in ToEnd \cup Ended /\ ~Free
  <2>1. Head(<<"complete">>) = "complete"
    OBVIOUS
  <2>. QED  BY <2>1 DEF Calm, InProgress, Does, Free
<1>2. CASE Len(main.todo) = 1
  <2>1. main' = Idle /\ main.todo \in Ended
    BY <1>1, <1>2, Follows DEF Goes
  <2>2. ~Compared(Idle.answer) /\ Idle.for = NIL /\ Idle.todo = <<>> /\ <<>> # <<"complete">>
    BY DEF Compared, Idle, Plain
  <2>3. main.todo \notin ToEnd
    BY <2>1, Follows
  <2>. QED  BY <1>1, <2>1, <2>2, <2>3
<1>3. CASE Len(main.todo) # 1
  <2>1. main' = [main EXCEPT !.todo = Tail(main.todo)]
    BY <1>3 DEF Goes
  <2>2. main \in Main
    BY MainTypes DEF IInv
  <2>3. main'.todo = Tail(main.todo) /\ main'.for = main.for /\ main'.answer = main.answer
    BY <2>1, <2>2 DEF Main
  <2>4. step = Head(main.todo)
    BY DEF Does
  <2>5. main.todo \in ToEnd =>
            /\ Tail(main.todo) \in IF step = "uncurrent" THEN Ended ELSE ToEnd
            /\ main.todo \notin Ended
    BY <2>4, Follows
  <2>6. main.todo \in Ended => Tail(main.todo) \in Ended /\ step # "uncurrent"
    BY <1>3, <2>4, Follows
  <2>7. Tail(main.todo) \in ToEnd \cup Ended
    BY <1>1, <2>5, <2>6
  <2>8. Tail(main.todo) # <<"complete">>
    BY <2>7, Follows
  <2>. QED  BY <1>1, <2>3, <2>5, <2>6, <2>7, <2>8
<1>. QED  BY <1>2, <1>3

\* A step that does not touch what is in progress, but for the controller at its place.
LEMMA HandledCalm ==
    ASSUME IInv, Calm, Alone', NEW step, Does(step), Goes, step # "complete",
           \A r \in Requests : flow'[r] \in Starting => flow'[r] = flow[r],
           current' = IF step = "uncurrent" THEN NIL ELSE current,
           opening' = opening,
           \A r \in Requests : \A i \in DOMAIN answers'[r] :
                Compared(answers'[r][i]) => answers'[r][i].of = r
    PROVE  Started' /\ InProgress' /\ TokensAgree'
<1>1. Alone /\ Started /\ InProgress /\ TokensAgree /\ NIL \notin Requests
  BY BrokerAssumption DEF Calm
<1>2. /\ ~Free /\ main.todo \in ToEnd \cup Ended
      /\ main'.todo # <<"complete">>
      /\ main'.todo \in {<<>>} \cup ToEnd \cup Ended
      /\ main.todo \in Ended \/ step = "uncurrent" => main'.todo \in {<<>>} \cup Ended
      /\ main.todo \in ToEnd /\ step # "uncurrent" => main'.todo \in ToEnd
      /\ Compared(main'.answer) => main'.for = main.for /\ main'.answer = main.answer
      /\ main'.for = main.for \/ main'.for = NIL
  BY GoesCalm
<1>3. opening = {} /\ \A r \in Requests : flow'[r] \notin Starting
  BY <1>1, <1>2 DEF Alone
<1>4. Started'
  BY <1>3 DEF Started, Starting
<1>5. main'.todo \in {<<>>} \cup Ended => current' = NIL
  <2>1. CASE step = "uncurrent"
    BY <2>1
  <2>2. CASE step # "uncurrent" /\ main.todo \in Ended
    BY <1>1, <2>2 DEF InProgress
  <2>3. CASE step # "uncurrent" /\ main.todo \in ToEnd
    BY <1>2, <2>3, Follows
  <2>. QED  BY <1>2, <2>1, <2>2, <2>3
<1>6. InProgress'
  BY <1>2, <1>3, <1>5 DEF InProgress, Free
<1>7. TokensAgree'
  <2>1. Compared(main'.answer) /\ main'.for # NIL => main'.answer.of = main'.for
    BY <1>1, <1>2 DEF TokensAgree
  <2>. QED  BY <1>2, <2>1 DEF TokensAgree, Compared
<1>. QED  BY <1>4, <1>6, <1>7

LEMMA HandlesCalm ==
    ASSUME IInv, Calm, Alone', Handles PROVE Started' /\ InProgress' /\ TokensAgree'
<1>0. TypeOK /\ ForKnown /\ Alone /\ Started /\ InProgress /\ TokensAgree /\ NIL \notin Requests
  BY BrokerAssumption DEF IInv, Calm
<1>1. CASE Complete
  <2>1. /\ main.todo # <<>> /\ Head(main.todo) = "complete"
        /\ UNCHANGED <<current, brokerRequest, flow, opening, resume, answers>>
    BY <1>1 DEF Complete, Does
  <2>2. main.todo = <<"complete">>
    <3>1. ASSUME main.todo \in ToEnd \cup Ended PROVE FALSE
      BY <2>1, <3>1 DEF ToEnd, Ended
    <3>. QED  BY <1>0, <2>1, <3>1 DEF InProgress
  <2>3. CASE current = NIL
    <3>1. main' = [main EXCEPT !.todo = <<"unresume">>]
      BY <1>1, <2>3 DEF Complete
    <3>2. main'.todo = <<"unresume">> /\ main'.for = main.for /\ main'.answer = main.answer
      BY <3>1, MainTypes, <1>0 DEF Main
    <3>3. main'.todo \in Ended /\ main'.todo # <<"complete">> /\ main'.todo # <<>>
      BY <3>2, Follows DEF Ended
    <3>4. Started' /\ InProgress'
      BY <1>0, <2>1, <2>3, <3>3 DEF Started, InProgress, Free
    <3>5. TokensAgree'
      BY <1>0, <2>1, <3>2, <3>3 DEF TokensAgree, Compared
    <3>. QED  BY <3>4, <3>5
  <2>4. CASE current # NIL
    <3>1. current \in Requests /\ Completes(current, main.answer)
      BY <1>0, <1>1, <2>4 DEF TypeOK, Complete
    <3>2. Compared(main.answer) => main.answer.of = current
      BY <1>0, <2>2, <2>4 DEF TokensAgree, InProgress
    <3>. QED  BY <2>1, <3>1, <3>2, CompletesCalm
  <2>. QED  BY <2>3, <2>4
<1>2. \A r \in Requests : \A i \in DOMAIN answers[r] : Compared(answers[r][i]) => answers[r][i].of = r
  BY <1>0 DEF TokensAgree
<1>3. CASE Mark \/ Clear \/ Unrequest \/ Unresume
  <2>1. PICK step \in {"mark", "clear", "unrequest", "unresume"} : Does(step) /\ Goes
    BY <1>3 DEF Mark, Clear, Unrequest, Unresume
  <2>2. UNCHANGED <<current, flow, opening, answers>>
    BY <1>3 DEF Mark, Clear, Unrequest, Unresume
  <2>. QED  BY <1>2, <2>1, <2>2, HandledCalm
<1>4. CASE Uncurrent
  <2>1. UNCHANGED <<flow, opening, answers>> /\ current' = NIL /\ Does("uncurrent") /\ Goes
    BY <1>4 DEF Uncurrent
  <2>. QED  BY <1>2, <2>1, HandledCalm
<1>5. CASE Get
  <2>1. UNCHANGED <<current, brokerRequest, flow, opening, resume, answers>>
        /\ Does("get") /\ main' = [main EXCEPT !.todo = Tail(main.todo), !.copy = status]
    BY <1>5 DEF Get
  <2>2. main'.todo = Tail(main.todo) /\ main'.for = main.for /\ main'.answer = main.answer
    BY <2>1, MainTypes, <1>0 DEF Main
  <2>3. main.todo \in ToEnd
    <3>1. ASSUME main.todo \in Ended \/ main.todo = <<"complete">> \/ main.todo = <<>> PROVE FALSE
      BY <2>1, <3>1 DEF Ended, Does
    <3>. QED  BY <1>0, <3>1 DEF InProgress
  <2>4. main'.todo \in ToEnd /\ main.for # NIL
    <3>1. main.todo # <<>> /\ main.todo # <<"complete">> /\ main.todo \notin Ended
          /\ Tail(main.todo) \in ToEnd
      BY <2>1, <2>3, Follows DEF Does
    <3>2. <<"unresume">> \in Ended
      BY DEF Ended
    <3>. QED  BY <1>0, <2>2, <3>1, <3>2 DEF ForKnown
  <2>5. main.for \in Requests
    BY <1>0, <2>4, MainTypes DEF Main
  <2>6. Compared(main.answer) => main.answer.of = main.for
    BY <1>0, <2>4 DEF TokensAgree
  <2>. QED  BY <2>1, <2>2, <2>4, <2>5, <2>6, EndBegins
<1>6. CASE Answer
  <2>1. Does("answer") /\ Goes /\ UNCHANGED <<current, opening>>
    BY <1>6 DEF Answer
  <2>2. main.for # NIL /\ main.for \in Requests
    <3>1. Head(<<"complete">>) = "complete" /\ Head(<<"unresume">>) = "unresume"
      OBVIOUS
    <3>. QED  BY <1>0, <2>1, <3>1, MainTypes DEF ForKnown, Main, Does
  <2>3. PICK c \in Requests : c = main.for
    BY <2>2
  <2>4. Once(c) /\ (Compared(main.answer) => main.answer.of = c)
    BY <1>0, <2>2, <2>3 DEF IInv, TokensAgree
  <2>5. /\ \A r \in Requests : flow'[r] = flow[r] \/ flow'[r] \in {"local", "done"}
        /\ \/ answers' = answers
           \/ answers' = [answers EXCEPT ![c] = Append(@, main.answer)] /\ answers[c] = <<>>
    <3>0. Referenced(c) /\ flow \in [Requests -> Flows] /\ answers \in [Requests -> Seq(Answers)]
      BY <1>0, <2>3 DEF Referenced, TypeOK
    <3>1. CASE ~block[c]
      BY <1>6, <2>3, <3>1 DEF Answer
    <3>2. CASE block[c]
      <4>1. answers[c] = <<>>
        BY <2>4, <3>0, <3>2 DEF Once
      <4>2. CASE main.answer.kind = "local"
        <5>1. flow' = [flow EXCEPT ![c] = "local"] /\ answers' = answers
          BY <1>6, <2>3, <3>2, <4>2 DEF Answer
        <5>. QED  BY <3>0, <5>1
      <4>3. CASE main.answer.kind # "local"
        <5>1. flow' = [flow EXCEPT ![c] = "done"] /\ Answered(c, main.answer)
          BY <1>6, <2>3, <3>2, <4>3 DEF Answer
        <5>. QED  BY <3>0, <4>1, <5>1 DEF Answered
      <4>. QED  BY <4>2, <4>3
    <3>. QED  BY <3>1, <3>2
  <2>6. \A r \in Requests : \A i \in DOMAIN answers'[r] :
            Compared(answers'[r][i]) => answers'[r][i].of = r
    <3>1. CASE answers' = answers
      BY <1>2, <3>1
    <3>2. CASE answers' = [answers EXCEPT ![c] = Append(@, main.answer)] /\ answers[c] = <<>>
      <4>1. answers'[c] = <<main.answer>> /\ \A r \in Requests : r # c => answers'[r] = answers[r]
        BY <1>0, <3>2 DEF TypeOK
      <4>2. \A i \in DOMAIN answers'[c] : answers'[c][i] = main.answer
        BY <4>1
      <4>. QED  BY <1>2, <2>4, <4>1, <4>2
    <3>. QED  BY <2>5, <3>1, <3>2
  <2>7. \A r \in Requests : flow'[r] \in Starting => flow'[r] = flow[r]
    BY <2>5 DEF Starting
  <2>. QED  BY <2>1, <2>6, <2>7, HandledCalm
<1>. QED  BY <1>1, <1>3, <1>4, <1>5, <1>6 DEF Handles

-----------------------------------------------------------------------------
LEMMA LocalAnswersCalm ==
    ASSUME IInv, Calm, NEW r \in Requests, LocalAnswers(r)
    PROVE  Started' /\ InProgress' /\ TokensAgree'
<1>0. TypeOK /\ Once(r) /\ Started /\ InProgress /\ TokensAgree
  BY DEF IInv, Calm
<1>1. /\ flow[r] = "local" /\ flow'[r] = "done"
      /\ \A q \in Requests : q # r => flow'[q] = flow[q]
  BY <1>0, MovesFacts DEF LocalAnswers, Flows
<1>2. UNCHANGED <<current, brokerRequest, opening, main, resume>>
  BY DEF LocalAnswers
<1>3. Started'
  BY <1>0, <1>1, <1>2 DEF Started, Starting
<1>4. InProgress'
  BY <1>0, <1>2 DEF InProgress, Free
<1>5. TokensAgree'
  BY <1>0, <1>1, <1>2, PlainAnswered DEF LocalAnswers, Once
<1>. QED  BY <1>3, <1>4, <1>5

LEMMA KilledCalm ==
    ASSUME IInv, Calm, Killed PROVE Started' /\ InProgress' /\ TokensAgree'
<1>0. TypeOK /\ TokensAgree
  BY DEF IInv, Calm
<1>1. \A r \in Requests : flow'[r] \notin Starting
  BY <1>0 DEF Killed, Starting
<1>2. current' = NIL /\ opening' = {} /\ answers' = answers /\ main' = Idle
  BY DEF Killed
<1>3. Idle.todo = <<>> /\ <<>> # <<"complete">> /\ ~Compared(Idle.answer)
  BY DEF Idle, Compared, Plain
<1>4. Idle.todo \notin Ended
  BY <1>3, Follows
<1>5. Started'
  BY <1>1 DEF Started, Starting
<1>6. InProgress'
  BY <1>2, <1>3, <1>4 DEF InProgress
<1>7. TokensAgree'
  BY <1>0, <1>2, <1>3 DEF TokensAgree, Compared
<1>. QED  BY <1>5, <1>6, <1>7

LEMMA AgreeInitially == Init => Agree
<1> SUFFICES ASSUME Init PROVE Started /\ InProgress /\ TokensAgree /\ Alone
  BY DEF Agree
<1>1. Idle.todo = <<>> /\ <<>> # <<"complete">> /\ ~Compared(Idle.answer)
  BY DEF Idle, Compared, Plain
<1>2. Idle.todo \notin Ended
  BY <1>1, Follows
<1>3. \A r \in Requests : flow[r] \notin Starting /\ answers[r] = <<>>
  BY DEF Init, Starting
<1>4. Started
  BY <1>3 DEF Started, Starting
<1>5. Alone
  BY <1>1, <1>3 DEF Init, Alone, Free
<1>6. InProgress
  BY <1>1, <1>2 DEF Init, InProgress
<1>7. TokensAgree
  BY <1>1, <1>3 DEF Init, TokensAgree
<1>. QED  BY <1>4, <1>5, <1>6, <1>7

LEMMA AgreeKept == IInv /\ Agree /\ [Next]_vars => Agree'
<1>1. ASSUME IInv, Agree, Next, ~crossed' PROVE Alone' /\ Started' /\ InProgress' /\ TokensAgree'
  <2>1. Steps /\ Calm /\ Alone'
    BY <1>1, AloneMeans DEF Next, Step, Agree, Calm
  <2>2. ASSUME NEW r \in Requests, Starts(r) PROVE Started' /\ InProgress' /\ TokensAgree'
    BY <1>1, <2>1, <2>2, StartsCalm
  <2>3. ASSUME NEW r \in Requests, LocalAnswers(r) PROVE Started' /\ InProgress' /\ TokensAgree'
    BY <1>1, <2>1, <2>3, LocalAnswersCalm
  <2>. QED  BY <1>1, <2>1, <2>2, <2>3, EventsCalm, HandlesCalm, KilledCalm DEF Steps
<1>2. ASSUME Agree, UNCHANGED vars PROVE Agree'
  BY <1>2 DEF Agree, Alone, Started, InProgress, TokensAgree, Compared, Free, vars, process
<1>. QED  BY <1>1, <1>2 DEF Agree

LEMMA AgreeAlways == Spec => []Agree
  BY AgreeInitially, AgreeKept, Inductive, PTL DEF Spec

\* s_currentExecutingController, s_currentBrokerRequest and the resume dictionary are about one
\* request whenever the main thread is free, unless events crossed, although each is set and
\* reset at a place of its own and the dictionary outlives the process.
THEOREM OneInProgress == Spec => []ProgressAgrees
<1>1. Agree => ProgressAgrees
  BY DEF Agree, ProgressAgrees, InProgress
<1>. QED  BY <1>1, AgreeAlways, PTL

\* The nonce of the resume dictionary keeps the answer to another request from a caller: only
\* tokens of its own reach it, unless the source application was known or events crossed.
THEOREM TokensReachOwner == Spec => []OwnTokens
<1>1. Agree => OwnTokens
  BY DEF Agree, OwnTokens, TokensAgree, Compared
<1>. QED  BY <1>1, AgreeAlways, PTL
=============================================================================
