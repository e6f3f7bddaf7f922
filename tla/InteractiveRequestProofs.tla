---------------------- MODULE InteractiveRequestProofs ----------------------
(***************************************************************************)
(* Proofs about the two components an interactive request goes through one *)
(* after the other: the web view session that yields a code, and the HTTP  *)
(* request that redeems it.  They share no state, so each part has an      *)
(* invariant of its own.                                                   *)
(*                                                                         *)
(* WebviewSession, for every set of sessions and any number of             *)
(* cancellations.  Neither property is inductive: that a caller is         *)
(* answered once rests on the block being in one place, the controller or  *)
(* the main thread (OneBlock); that a live session is the current one      *)
(* rests on everything that still can answer being of the current session  *)
(* (OfCurrent), and ended ones being past that (EndedFirst).               *)
(*                                                                         *)
(* HttpRequest, for every set of requests, any limits and any sizes.  Item *)
(* and string split the errors at one place because the errors are in the  *)
(* order of recording in memory, item and file (Recorded); a success       *)
(* forgets nothing unreported because every waiting error is in the last   *)
(* string, newer than it, or in the item (Accounted).                      *)
(***************************************************************************)
EXTENDS WebviewSession, HttpRequest, SequenceTheorems, WellFoundedInduction, TLAPS

(***************************************************************************)
(*                              WebviewSession                             *)
(***************************************************************************)

\* What the two threads hold fits where they are.
InTheMiddle ==
    /\ main.at \in {"start", "end", "answer", "clear"} => main.session \in Sessions
    /\ main.at \in {"end", "answer"} => main.what \in {"url", "error"}
    /\ main.at = "clear" => main.what \in Answers
    /\ canceller.at \in {"set", "clear"} =>
         canceller.session \in Sessions /\ canceller.what = "error"

\* A session that has not been answered yet has its block in one place.
OneBlock ==
    /\ \A s \in Sessions : phase[s] \in {"idle", "claimed"} => answers[s] = <<>>
    /\ \A s \in Sessions : handler[s] => answers[s] = <<>> /\ phase[s] = "shown"
    /\ main.at = "start" => phase[main.session] = "claimed"
    /\ main.at \in {"answer", "clear"} =>
         /\ answers[main.session] = <<>>
         /\ phase[main.session] = "shown"
         /\ ~handler[main.session]

\* What is being dismissed, or answered, has ended.
EndedFirst ==
    /\ \A s \in Sessions, w \in {"url", "error"} : <<s, w>> \in closing => complete[s]
    /\ main.at \in {"answer", "clear"} => complete[main.session]

\* Without a cancellation all that goes on is about the current session.
OfCurrent ==
    cancels = 0 =>
        /\ canceller = Free
        /\ main.at # "free" => current = main.session
        /\ main.at = "clear" => main.what \in {"response", "error"}
        /\ \A s \in Sessions : handler[s] => current = s

IInv ==
    /\ TypeOK
    /\ InTheMiddle
    /\ AnsweredOnce
    /\ OneBlock
    /\ EndedFirst
    /\ OfCurrent
    /\ AloneUntilCancelled

-----------------------------------------------------------------------------
\* The steps keep the types, and what the threads hold fits where they are.
LEMMA TypeStep ==
    ASSUME TypeOK, InTheMiddle, [Next]_vars
    PROVE  TypeOK' /\ InTheMiddle'
<1>a. ASSUME NEW s \in Sessions, NEW x \in Answers
      PROVE  [answers EXCEPT ![s] = Append(@, x)] \in [Sessions -> Seq(Answers)]
  BY DEF TypeOK
<1>w. ASSUME NEW where \in {"start", "end", "answer", "clear", "set"},
             NEW s \in Sessions, NEW x \in {"none", "url"} \cup Answers
      PROVE  /\ Within(where, s, x) \in Steps
             /\ Within(where, s, x).at = where
             /\ Within(where, s, x).session = s
             /\ Within(where, s, x).what = x
  BY DEF Within, Steps
<1>f. Free \in Steps /\ Free.at = "free"
  BY DEF Free, Steps
<1>e. /\ "error" \in Answers /\ "already running" \in Answers
      /\ \A x \in {"none", "url", "error"} : x \in {"none", "url"} \cup Answers
  BY DEF Answers
<1>1. ASSUME NEW s \in Sessions, Claim(s) PROVE TypeOK' /\ InTheMiddle'
  <2>1. main' \in Steps /\ main'.at = "start" /\ main'.session = s
    BY <1>1, <1>w DEF Claim
  <2> QED
    BY <1>1, <2>1 DEF Claim, TypeOK, InTheMiddle
<1>2. ASSUME NEW s \in Sessions, Refuse(s) PROVE TypeOK' /\ InTheMiddle'
  BY <1>2, <1>a, <1>e DEF Refuse, TypeOK, InTheMiddle
<1>3. ASSUME NEW s \in Sessions, NEW w \in {"url", "error"}, End(s, w)
      PROVE  TypeOK' /\ InTheMiddle'
  <2>1. main' \in Steps /\ main'.at = "end" /\ main'.session = s /\ main'.what = w
    <3>1. main' = Within("end", s, w)
      BY <1>3 DEF End
    <3>2. w \in {"none", "url"} \cup Answers
      BY <1>e
    <3> QED
      BY <1>w, <3>1, <3>2
  <2> QED
    BY <1>3, <2>1 DEF End, TypeOK, InTheMiddle
<1>4. CASE CancelBegin
  <2>1. current \in Sessions
    BY <1>4 DEF CancelBegin, TypeOK
  <2>2. PICK where \in {"clear", "set"} : canceller' = Within(where, current, "error")
    BY <1>4 DEF CancelBegin
  <2>4. canceller' \in Steps /\ canceller'.session = current /\ canceller'.what = "error"
    <3>1. "error" \in {"none", "url"} \cup Answers
      BY <1>e
    <3> QED
      BY <1>w, <2>1, <2>2, <3>1
  <2>3. cancels' \in 0..MaxCancels
    BY <1>4, WebviewAssumption DEF CancelBegin, TypeOK
  <2> QED
    BY <1>4, <2>1, <2>4, <2>3 DEF CancelBegin, TypeOK, InTheMiddle
<1>5. CASE Show
  BY <1>5, <1>f DEF Show, TypeOK, InTheMiddle
<1>6. CASE EndSet
  <2>1. main.session \in Sessions /\ main.what \in {"url", "error"}
    BY <1>6 DEF EndSet, InTheMiddle
  <2>2. closing' \in SUBSET (Sessions \X {"url", "error"})
    BY <1>6, <2>1 DEF EndSet, Dismisses, TypeOK
  <2>3. complete' \in [Sessions -> BOOLEAN]
    BY <1>6, <2>1 DEF EndSet, Dismisses, TypeOK
  <2> QED
    BY <1>6, <1>f, <2>2, <2>3 DEF EndSet, TypeOK, InTheMiddle
<1>7. CASE Parse
  <2>1. main.session \in Sessions /\ main.what \in {"url", "error"}
    BY <1>7 DEF Parse, InTheMiddle
  <2>2. Response(main.session) \in Answers
    BY DEF Response, Answers
  <2>4. PICK x \in Answers : main' = Within("clear", main.session, x)
    BY <1>7, <1>e, <2>1, <2>2 DEF Parse
  <2>5. x \in {"none", "url"} \cup Answers
    BY <2>4
  <2>3. main' \in Steps /\ main'.at = "clear" /\ main'.session \in Sessions /\ main'.what \in Answers
    BY <1>w, <2>1, <2>4, <2>5
  <2> QED
    BY <1>7, <2>3 DEF Parse, TypeOK, InTheMiddle
<1>8. CASE Answer
  <2>1. main.session \in Sessions /\ main.what \in Answers
    BY <1>8 DEF Answer, InTheMiddle
  <2> QED
    BY <1>8, <1>a, <1>f, <2>1 DEF Answer, TypeOK, InTheMiddle
<1>9. ASSUME NEW s \in Sessions, NEW w \in {"url", "error"}, Closed(s, w)
      PROVE  TypeOK' /\ InTheMiddle'
  <2>1. CASE TakeBlock(s, w)
    <3>1. main' \in Steps /\ main'.at = "answer" /\ main'.session = s /\ main'.what = w
      <4>1. main' = Within("answer", s, w)
        BY <2>1 DEF TakeBlock
      <4>2. w \in {"none", "url"} \cup Answers
        BY <1>e
      <4> QED
        BY <1>w, <4>1, <4>2
    <3> QED
      BY <1>9, <2>1, <3>1 DEF Closed, TakeBlock, TypeOK, InTheMiddle
  <2>2. CASE UNCHANGED <<handler, main>>
    BY <1>9, <2>2 DEF Closed, TypeOK, InTheMiddle
  <2> QED
    BY <1>9, <2>1, <2>2 DEF Closed
<1>10. CASE CancelSet
  <2>1. canceller.session \in Sessions /\ canceller.what = "error"
    BY <1>10 DEF CancelSet, InTheMiddle
  <2>2. canceller' \in Steps /\ canceller'.session \in Sessions /\ canceller'.what = "error"
    <3>1. canceller' = Within("clear", canceller.session, "error")
      BY <1>10, <2>1 DEF CancelSet
    <3>2. "error" \in {"none", "url"} \cup Answers
      BY <1>e
    <3> QED
      BY <1>w, <2>1, <3>1, <3>2
  <2>3. closing' \in SUBSET (Sessions \X {"url", "error"})
    BY <1>10, <2>1 DEF CancelSet, Dismisses, TypeOK
  <2>4. complete' \in [Sessions -> BOOLEAN]
    BY <1>10, <2>1 DEF CancelSet, Dismisses, TypeOK
  <2> QED
    BY <1>10, <2>2, <2>3, <2>4 DEF CancelSet, TypeOK, InTheMiddle
<1>11. CASE CancelClear
  BY <1>11, <1>f DEF CancelClear, TypeOK, InTheMiddle
<1>12. CASE UNCHANGED vars
  BY <1>12 DEF vars, TypeOK, InTheMiddle
<1> QED
  BY <1>1, <1>2, <1>3, <1>4, <1>5, <1>6, <1>7, <1>8, <1>9, <1>10, <1>11, <1>12
  DEF Next, MainStep, CancelStep

\* The parts of what a thread is in the middle of.
LEMMA Fields ==
    ASSUME NEW where, NEW s, NEW x
    PROVE  /\ Within(where, s, x).at = where
           /\ Within(where, s, x).session = s
           /\ Within(where, s, x).what = x
           /\ Free.at = "free"
BY DEF Within, Free

\* A caller that has no answer yet gets one and only one.
LEMMA FirstAnswer ==
    ASSUME NEW s \in Sessions, NEW x \in Answers, TypeOK, answers[s] = <<>>
    PROVE  /\ [answers EXCEPT ![s] = Append(@, x)] = [answers EXCEPT ![s] = <<x>>]
           /\ Len(<<x>>) = 1
           /\ \A i \in 1..Len(<<x>>) : <<x>>[i] = x
<1>1. Append(<<>>, x) = <<x>> /\ Len(<<x>>) = 1 /\ <<x>>[1] = x
  OBVIOUS
<1> QED
  BY <1>1

-----------------------------------------------------------------------------
\* The block stays in one place, and is used once.
LEMMA OneBlockStep ==
    ASSUME TypeOK, InTheMiddle, AnsweredOnce, OneBlock, [Next]_vars
    PROVE  AnsweredOnce' /\ OneBlock'
<1> DEFINE P == AnsweredOnce' /\ OneBlock'
<1> USE DEF OneBlock, AnsweredOnce
<1>1. ASSUME NEW s \in Sessions, Claim(s) PROVE P
  <2>1. main'.at = "start" /\ main'.session = s
    BY <1>1, Fields DEF Claim
  <2> QED
    BY <1>1, <2>1 DEF Claim, TypeOK
<1>2. ASSUME NEW s \in Sessions, Refuse(s) PROVE P
  <2>1. answers[s] = <<>> /\ ~handler[s] /\ main.at = "free"
    BY <1>2, Fields DEF Refuse
  <2> DEFINE x == "already running"
  <2>2. x \in Answers /\ answers' = [answers EXCEPT ![s] = Append(@, x)]
    BY <1>2 DEF Answers, Refuse
  <2> HIDE DEF x
  <2>3. answers' = [answers EXCEPT ![s] = <<x>>] /\ Len(<<x>>) = 1
    BY <2>1, <2>2, FirstAnswer
  <2>4. /\ phase'[s] = "refused" /\ answers'[s] = <<x>>
        /\ \A t \in Sessions \ {s} : phase'[t] = phase[t] /\ answers'[t] = answers[t]
    BY <1>2, <2>3 DEF Refuse, TypeOK
  <2>5. main' = main /\ handler' = handler
    BY <1>2 DEF Refuse
  <2>6. AnsweredOnce'
    BY <2>3, <2>4
  <2>7. OneBlock'
    BY <2>1, <2>4, <2>5
  <2> QED
    BY <2>6, <2>7
<1>3. ASSUME NEW s \in Sessions, NEW w \in {"url", "error"}, End(s, w) PROVE P
  <2>1. main'.at = "end"
    BY <1>3, Fields DEF End
  <2> QED
    BY <1>3, <2>1 DEF End
<1>4. CASE CancelBegin
  BY <1>4 DEF CancelBegin
<1>5. CASE Show
  <2>1. main'.at = "free"
    BY <1>5, Fields DEF Show
  <2>2. main.session \in Sessions /\ phase[main.session] = "claimed"
    BY <1>5 DEF Show, InTheMiddle
  <2> QED
    BY <1>5, <2>1, <2>2 DEF Show, TypeOK
<1>6. CASE EndSet
  <2>1. main'.at = "free"
    BY <1>6, Fields DEF EndSet
  <2> QED
    BY <1>6, <2>1 DEF EndSet
<1>7. CASE Parse
  <2>1. main'.at = "clear" /\ main'.session = main.session
    BY <1>7, Fields DEF Parse
  <2> QED
    BY <1>7, <2>1 DEF Parse
<1>8. CASE Answer
  <2>1. main'.at = "free"
    BY <1>8, Fields DEF Answer
  <2>2. main.session \in Sessions /\ answers[main.session] = <<>>
    BY <1>8 DEF Answer, InTheMiddle
  <2>3. answers' = [answers EXCEPT ![main.session] = <<main.what>>]
    BY <1>8, <2>2 DEF Answer, TypeOK
  <2>4. ~handler[main.session] /\ phase[main.session] = "shown"
    BY <1>8 DEF Answer
  <2> QED
    BY <1>8, <2>1, <2>2, <2>3, <2>4 DEF Answer, TypeOK
<1>9. ASSUME NEW s \in Sessions, NEW w \in {"url", "error"}, Closed(s, w) PROVE P
  <2>1. CASE TakeBlock(s, w)
    <3>1. main'.at = "answer" /\ main'.session = s
      BY <2>1, Fields DEF TakeBlock
    <3> QED
      BY <1>9, <2>1, <3>1 DEF Closed, TakeBlock, TypeOK
  <2>2. CASE UNCHANGED <<handler, main>>
    BY <1>9, <2>2 DEF Closed
  <2> QED
    BY <1>9, <2>1, <2>2 DEF Closed
<1>10. CASE CancelSet
  BY <1>10 DEF CancelSet
<1>11. CASE CancelClear
  BY <1>11 DEF CancelClear
<1>12. CASE UNCHANGED vars
  BY <1>12 DEF vars
<1> QED
  BY <1>1, <1>2, <1>3, <1>4, <1>5, <1>6, <1>7, <1>8, <1>9, <1>10, <1>11, <1>12
  DEF Next, MainStep, CancelStep

\* A view is dismissed only after its web authorization has ended.
LEMMA EndedFirstStep ==
    ASSUME TypeOK, InTheMiddle, EndedFirst, [Next]_vars
    PROVE  EndedFirst'
<1> USE DEF EndedFirst
<1>1. ASSUME NEW s \in Sessions, Claim(s) PROVE EndedFirst'
  <2>1. main'.at = "start"
    BY <1>1, Fields DEF Claim
  <2> QED
    BY <1>1, <2>1 DEF Claim
<1>2. ASSUME NEW s \in Sessions, Refuse(s) PROVE EndedFirst'
  BY <1>2 DEF Refuse
<1>3. ASSUME NEW s \in Sessions, NEW w \in {"url", "error"}, End(s, w)
      PROVE  EndedFirst'
  <2>1. main'.at = "end"
    BY <1>3, Fields DEF End
  <2> QED
    BY <1>3, <2>1 DEF End
<1>4. CASE CancelBegin
  BY <1>4 DEF CancelBegin
<1>5. CASE Show
  <2>1. main'.at = "free"
    BY <1>5, Fields DEF Show
  <2> QED
    BY <1>5, <2>1 DEF Show
<1>6. CASE EndSet
  <2>1. main'.at = "free"
    BY <1>6, Fields DEF EndSet
  <2>2. main.session \in Sessions
    BY <1>6 DEF EndSet, InTheMiddle
  <2> QED
    BY <1>6, <2>1, <2>2 DEF EndSet, Dismisses, TypeOK
<1>7. CASE Parse
  <2>1. main'.at = "clear" /\ main'.session = main.session
    BY <1>7, Fields DEF Parse
  <2> QED
    BY <1>7, <2>1 DEF Parse
<1>8. CASE Answer
  <2>1. main'.at = "free"
    BY <1>8, Fields DEF Answer
  <2> QED
    BY <1>8, <2>1 DEF Answer
<1>9. ASSUME NEW s \in Sessions, NEW w \in {"url", "error"}, Closed(s, w)
      PROVE  EndedFirst'
  <2>1. CASE TakeBlock(s, w)
    <3>1. main'.at = "answer" /\ main'.session = s
      BY <2>1, Fields DEF TakeBlock
    <3> QED
      BY <1>9, <3>1 DEF Closed
  <2>2. CASE UNCHANGED <<handler, main>>
    BY <1>9, <2>2 DEF Closed
  <2> QED
    BY <1>9, <2>1, <2>2 DEF Closed
<1>10. CASE CancelSet
  <2>1. canceller.session \in Sessions
    BY <1>10 DEF CancelSet, InTheMiddle
  <2>2. \A t \in Sessions : complete[t] => complete'[t]
    BY <1>10, <2>1 DEF CancelSet, Dismisses, TypeOK
  <2>3. \A t \in Sessions, w \in {"url", "error"} :
          <<t, w>> \in closing' => complete'[t]
    BY <1>10, <2>1, <2>2 DEF CancelSet, Dismisses, TypeOK
  <2> QED
    BY <1>10, <2>2, <2>3 DEF CancelSet, InTheMiddle
<1>11. CASE CancelClear
  BY <1>11 DEF CancelClear
<1>12. CASE UNCHANGED vars
  BY <1>12 DEF vars
<1> QED
  BY <1>1, <1>2, <1>3, <1>4, <1>5, <1>6, <1>7, <1>8, <1>9, <1>10, <1>11, <1>12
  DEF Next, MainStep, CancelStep

\* Without a cancellation the threads work on the current session alone, so
\* no live session is left behind, and every answer is the session's own.
LEMMA OfCurrentStep ==
    ASSUME TypeOK, InTheMiddle, OneBlock, EndedFirst, OfCurrent,
           AloneUntilCancelled, [Next]_vars
    PROVE  OfCurrent' /\ AloneUntilCancelled'
<1> DEFINE Q == OfCurrent' /\ AloneUntilCancelled'
<1> DEFINE Own == {"already running", "response", "error"}
<1> DEFINE OwnAnswers(f) == \A s \in Sessions : \A i \in 1..Len(f[s]) : f[s][i] \in Own
<1>c. CASE cancels' # 0
  BY <1>c DEF OfCurrent, AloneUntilCancelled
<1>z. CASE cancels' = 0
  <2>0. cancels = 0
    <3>1. cancels' = cancels \/ cancels' = cancels + 1
      BY DEF Next, vars, Claim, Refuse, End, CancelBegin, MainStep, CancelStep, Show,
             EndSet, Parse, Answer, Closed, CancelSet, CancelClear
    <3> QED
      BY <1>z, <3>1, WebviewAssumption DEF TypeOK
  <2>a. /\ canceller = Free
        /\ main.at # "free" => current = main.session
        /\ main.at = "clear" => main.what \in {"response", "error"}
        /\ \A s \in Sessions : handler[s] => current = s
        /\ \A s \in Sessions : phase[s] = "shown" /\ ~complete[s] => s = current
        /\ OwnAnswers(answers)
    BY <2>0 DEF OfCurrent, AloneUntilCancelled, Live
  <2>b. SUFFICES
           /\ canceller' = Free
           /\ main'.at # "free" => current' = main'.session
           /\ main'.at = "clear" => main'.what \in {"response", "error"}
           /\ \A s \in Sessions : handler'[s] => current' = s
           /\ \A s \in Sessions : phase'[s] = "shown" /\ ~complete'[s] => s = current'
           /\ OwnAnswers(answers')
    BY DEF OfCurrent, AloneUntilCancelled, Live
  <2> DEFINE Goal ==
           /\ canceller' = Free
           /\ main'.at # "free" => current' = main'.session
           /\ main'.at = "clear" => main'.what \in {"response", "error"}
           /\ \A s \in Sessions : handler'[s] => current' = s
           /\ \A s \in Sessions : phase'[s] = "shown" /\ ~complete'[s] => s = current'
           /\ OwnAnswers(answers')
  <2>n. None \notin Sessions
    BY WebviewAssumption
  <2>1. ASSUME NEW s \in Sessions, Claim(s) PROVE Goal
    <3>1. main'.at = "start" /\ main'.session = s
      BY <2>1, Fields DEF Claim
    <3>2. \A t \in Sessions : phase'[t] = "shown" => phase[t] = "shown"
      BY <2>1 DEF Claim, TypeOK
    <3> QED
      BY <2>1, <2>a, <2>n, <3>1, <3>2 DEF Claim
  <2>2. ASSUME NEW s \in Sessions, Refuse(s) PROVE Goal
    <3>1. \A t \in Sessions : phase'[t] = "shown" => phase[t] = "shown"
      BY <2>2 DEF Refuse, TypeOK
    <3>2. answers[s] = <<>>
      BY <2>2 DEF Refuse, OneBlock
    <3>3. OwnAnswers(answers')
      <4>1. "already running" \in Answers
        BY DEF Answers
      <4>2. answers' = [answers EXCEPT ![s] = <<"already running">>]
        BY <2>2, <3>2, <4>1, FirstAnswer DEF Refuse
      <4>3. answers'[s] = <<"already running">>
            /\ \A t \in Sessions \ {s} : answers'[t] = answers[t]
        BY <4>2 DEF TypeOK
      <4>4. OwnAnswers(answers')
        <5>1. \A i \in 1..Len(<<"already running">>) : <<"already running">>[i] = "already running"
          BY <2>0, <3>2, <4>1, FirstAnswer
        <5>2. \A i \in 1..Len(answers'[s]) : answers'[s][i] \in Own
          BY <4>3, <5>1
        <5>3. \A r \in Sessions \ {s} : \A i \in 1..Len(answers'[r]) : answers'[r][i] \in Own
          BY <2>a, <4>3
        <5> QED
          BY <5>2, <5>3
      <4> QED
        BY <4>4
    <3> QED
      BY <2>2, <2>a, <3>1, <3>3 DEF Refuse
  <2>3. ASSUME NEW s \in Sessions, NEW w \in {"url", "error"}, End(s, w) PROVE Goal
    <3>1. main'.at = "end" /\ main'.session = s
      BY <2>3, Fields DEF End
    <3> QED
      BY <2>3, <2>a, <3>1 DEF End
  <2>4. CASE CancelBegin
    BY <1>z, <2>0, <2>4, 0 + 1 # 0 DEF CancelBegin
  <2>5. CASE Show
    <3>1. main'.at = "free"
      BY <2>5, Fields DEF Show
    <3>2. main.session \in Sessions /\ current = main.session
      BY <2>5, <2>a DEF Show, InTheMiddle
    <3>3. \A t \in Sessions \ {main.session} :
             handler'[t] = handler[t] /\ phase'[t] = phase[t]
      BY <2>5, <3>2 DEF Show, TypeOK
    <3> QED
      BY <2>5, <2>a, <3>1, <3>2, <3>3 DEF Show
  <2>6. CASE EndSet
    <3>1. main'.at = "free"
      BY <2>6, Fields DEF EndSet
    <3>2. \A t \in Sessions : complete[t] => complete'[t]
      BY <2>6 DEF EndSet, Dismisses, TypeOK, InTheMiddle
    <3> QED
      BY <2>6, <2>a, <3>1, <3>2 DEF EndSet
  <2>7. CASE Parse
    <3>1. /\ main.session = current /\ main.session # None
          /\ main.what \in {"url", "error"}
      BY <2>7, <2>a, <2>n DEF Parse, InTheMiddle
    <3>2. main'.session = main.session /\ main'.what \in {"response", "error"}
      <4>1. Response(main.session) = "response"
        BY <3>1 DEF Response
      <4> QED
        BY <2>7, <3>1, <4>1, Fields DEF Parse
    <3> QED
      BY <2>7, <2>a, <3>1, <3>2 DEF Parse
  <2>8. CASE Answer
    <3>1. /\ main.session \in Sessions /\ main.session = current
          /\ main.what \in {"response", "error"}
          /\ complete[main.session] /\ ~handler[main.session]
          /\ answers[main.session] = <<>>
      BY <2>8, <2>a DEF Answer, InTheMiddle, OneBlock, EndedFirst
    <3>2. main'.at = "free"
      BY <2>8, Fields DEF Answer
    <3>3. OwnAnswers(answers')
      <4>1. main.what \in Answers
        BY <3>1 DEF Answers
      <4>2. answers' = [answers EXCEPT ![main.session] = <<main.what>>]
        BY <2>8, <3>1, <4>1, FirstAnswer DEF Answer
      <4>3. answers'[main.session] = <<main.what>>
            /\ \A t \in Sessions \ {main.session} : answers'[t] = answers[t]
        BY <3>1, <4>2 DEF TypeOK
      <4>4. \A i \in 1..Len(answers'[main.session]) : answers'[main.session][i] = main.what
        BY <3>1, <4>1, <4>3, FirstAnswer
      <4> QED
        BY <2>a, <3>1, <4>3, <4>4
    <3>4. \A t \in Sessions : ~handler[t] /\ (phase[t] = "shown" => complete[t])
      BY <2>a, <3>1
    <3> QED
      BY <2>8, <2>a, <3>2, <3>3, <3>4 DEF Answer
  <2>9. ASSUME NEW s \in Sessions, NEW w \in {"url", "error"}, Closed(s, w) PROVE Goal
    <3>1. CASE TakeBlock(s, w)
      <4>1. main'.at = "answer" /\ main'.session = s
        BY <3>1, Fields DEF TakeBlock
      <4>3. current = s
        BY <2>a, <3>1 DEF TakeBlock
      <4>2. \A t \in Sessions : handler'[t] => handler[t]
        BY <3>1 DEF TakeBlock, TypeOK
      <4> QED
        BY <2>9, <2>a, <4>1, <4>2, <4>3 DEF Closed
    <3>2. CASE UNCHANGED <<handler, main>>
      BY <2>9, <2>a, <3>2 DEF Closed
    <3> QED
      BY <2>9, <3>1, <3>2 DEF Closed
  <2>10. ~CancelSet /\ ~CancelClear
    BY <2>a, Fields DEF CancelSet, CancelClear
  <2>11. CASE UNCHANGED vars
    BY <2>a, <2>11 DEF vars
  <2> QED
    BY <2>1, <2>2, <2>3, <2>4, <2>5, <2>6, <2>7, <2>8, <2>9, <2>10, <2>11
    DEF Next, MainStep, CancelStep
<1> QED
  BY <1>c, <1>z

-----------------------------------------------------------------------------
\* In all reachable states the block of a session is in one place, and without
\* a cancellation the current session is the only one anything is about.
THEOREM Invariance == Spec => []IInv
<1>1. Init => IInv
  <2> SUFFICES ASSUME Init PROVE IInv
    OBVIOUS
  <2>1. /\ main = Free /\ canceller = Free /\ Free \in Steps /\ Free.at = "free"
        /\ current = None /\ cancels = 0 /\ closing = {}
    BY DEF Init, Free, Steps
  <2>2. \A s \in Sessions : /\ phase[s] = "idle" /\ ~complete[s] /\ ~handler[s]
                            /\ answers[s] = <<>> /\ Len(answers[s]) = 0
    BY DEF Init
  <2>3. TypeOK
    BY <2>1, WebviewAssumption DEF Init, TypeOK
  <2>4. InTheMiddle /\ AnsweredOnce /\ OneBlock /\ EndedFirst
    BY <2>1, <2>2 DEF InTheMiddle, AnsweredOnce, OneBlock, EndedFirst
  <2>5. OfCurrent
    BY <2>1, <2>2 DEF OfCurrent
  <2>6. AloneUntilCancelled
    <3>1. Live = {}
      BY <2>2 DEF Live
    <3>2. \A s \in Sessions : 1..Len(answers[s]) = {}
      BY <2>2
    <3> QED
      BY <3>1, <3>2 DEF AloneUntilCancelled
  <2> QED
    BY <2>3, <2>4, <2>5, <2>6 DEF IInv
<1>2. IInv /\ [Next]_vars => IInv'
  BY TypeStep, OneBlockStep, EndedFirstStep, OfCurrentStep DEF IInv
<1> QED
  BY <1>1, <1>2, PTL DEF Spec

\* The state keeps its types.
THEOREM TypeCorrect == Spec => []TypeOK
<1>1. IInv => TypeOK
  BY DEF IInv
<1> QED
  BY <1>1, Invariance, PTL

\* No caller of startSession is answered twice, whatever the two threads do.
THEOREM CallerAnsweredOnce == Spec => []AnsweredOnce
<1>1. IInv => AnsweredOnce
  BY DEF IInv
<1> QED
  BY <1>1, Invariance, PTL

\* Nobody's standing changes: no caller is answered, no session begins or is lost.
LEMMA NobodyMoves ==
    ASSUME answers' = answers, phase' = phase
    PROVE  UNCHANGED Promise!vars
  BY DEF Promise!vars, Standing

\* A caller who waits, or is refused on the spot, gets its answer.
LEMMA CallerIsAnswered ==
    ASSUME TypeOK, NEW s \in Sessions, NEW x \in Answers, answers[s] = <<>>, phase[s] # "lost",
           answers' = [answers EXCEPT ![s] = Append(@, x)],
           \A t \in Sessions : t # s => phase'[t] = phase[t]
    PROVE  Promise!Next
<1>1. answers' = [answers EXCEPT ![s] = <<x>>]
  BY FirstAnswer
<1>2. answers'[s] # <<>> /\ \A t \in Sessions : t # s => answers'[t] = answers[t]
  BY <1>1 DEF TypeOK
<1>3. Standing[s] \in {"new", "waiting"}
  BY DEF Standing
<1>4. Standing' = [Standing EXCEPT ![s] = "answered"]
  BY <1>2 DEF Standing
<1> HIDE DEF Answers
<1>. QED  BY <1>1, <1>3, <1>4 DEF Promise!Next, Promise!Reply

\* startSession: a session that became the current one is waited for.
LEMMA ClaimPromised == ASSUME IInv, NEW s \in Sessions, Claim(s) PROVE Promise!Next
<1>1. answers[s] = <<>> /\ phase[s] = "idle" /\ answers' = answers
  BY DEF IInv, OneBlock, Claim
<1>2. phase'[s] = "claimed" /\ \A t \in Sessions : t # s => phase'[t] = phase[t]
  BY DEF IInv, TypeOK, Claim
<1>3. Standing[s] = "new"
  BY <1>1 DEF Standing
<1>4. Standing' = [Standing EXCEPT ![s] = "waiting"]
  BY <1>1, <1>2 DEF Standing
<1>. QED  BY <1>1, <1>3, <1>4 DEF Promise!Next, Promise!Ask

\* The session is shown, or it is lost since another thread has cancelled it.
LEMMA ShowPromised == ASSUME IInv, Show PROVE [Promise!Next]_(Promise!vars)
<1>1. PICK s \in Sessions : s = main.session
  BY DEF IInv, InTheMiddle, Show
<1>2. answers[s] = <<>> /\ phase[s] = "claimed" /\ answers' = answers
  BY <1>1 DEF IInv, OneBlock, Show
<1>3. phase'[s] = (IF current = s THEN "shown" ELSE "lost")
      /\ \A t \in Sessions : t # s => phase'[t] = phase[t]
  BY <1>1 DEF IInv, TypeOK, Show
<1>4. Standing[s] = "waiting"
  BY <1>2 DEF Standing
<1>5. CASE current = s
  <2>1. Standing' = Standing
    BY <1>2, <1>3, <1>5 DEF Standing
  <2>. QED  BY <1>2, <2>1 DEF Promise!vars
<1>6. CASE current # s
  <2>1. Standing' = [t \in Sessions |-> IF t \in {s} THEN "lost" ELSE Standing[t]]
    BY <1>2, <1>3, <1>6 DEF Standing
  <2>2. Promise!Lose({s})
    BY <1>2, <1>4, <2>1 DEF Promise!Lose
  <2>. QED  BY <2>2 DEF Promise!Next
<1>. QED  BY <1>5, <1>6

LEMMA StepPromised == ASSUME IInv, [Next]_vars PROVE [Promise!Next]_(Promise!vars)
<1>1. ASSUME NEW s \in Sessions, Claim(s) PROVE [Promise!Next]_(Promise!vars)
  BY <1>1, ClaimPromised
<1>2. ASSUME NEW s \in Sessions, Refuse(s) PROVE [Promise!Next]_(Promise!vars)
  <2>1. answers[s] = <<>> /\ phase[s] = "idle" /\ "already running" \in Answers
    BY <1>2 DEF IInv, OneBlock, Refuse, Answers
  <2>2. \A t \in Sessions : t # s => phase'[t] = phase[t]
    BY <1>2 DEF IInv, TypeOK, Refuse
  <2>. QED  BY <1>2, <2>1, <2>2, CallerIsAnswered DEF IInv, Refuse
<1>3. CASE Show
  BY <1>3, ShowPromised
<1>4. CASE Answer
  <2>1. PICK s \in Sessions : s = main.session
    BY <1>4 DEF IInv, InTheMiddle, Answer
  <2>2. answers[s] = <<>> /\ phase[s] = "shown" /\ main.what \in Answers /\ phase' = phase
    BY <1>4, <2>1 DEF IInv, InTheMiddle, OneBlock, Answer
  <2>. QED  BY <1>4, <2>1, <2>2, CallerIsAnswered DEF IInv, Answer
<1>5. CASE \/ \E s \in Sessions, w \in {"url", "error"} : End(s, w) \/ Closed(s, w)
           \/ CancelBegin \/ EndSet \/ Parse \/ CancelStep
  BY <1>5, NobodyMoves DEF End, Closed, CancelBegin, EndSet, Parse, CancelStep, CancelSet, CancelClear
<1>6. CASE UNCHANGED vars
  BY <1>6, NobodyMoves DEF vars
<1>. QED  BY <1>1, <1>2, <1>3, <1>4, <1>5, <1>6 DEF Next, MainStep

\* Whatever the main thread and a thread that cancels do between each other's steps, the block
\* given to startSession is called once and after the start, and never for a session that was
\* cancelled before its controller had the block.
THEOREM PromiseKept == Spec => KeepsPromise
<1>1. ASSUME Init PROVE Promise!Init
  <2>1. Standing = [s \in Sessions |-> "new"]
    BY <1>1 DEF Init, Standing
  <2>. QED  BY <1>1, <2>1 DEF Init, Promise!Init
<1>. QED  BY <1>1, Invariance, StepPromised, PTL DEF Spec, KeepsPromise, Promise!Spec

\* While nobody has called cancelCurrentSession there is at most one live
\* session, the current one, and no caller gets the answer of another.
THEOREM AloneWithoutCancel == Spec => []AloneUntilCancelled
<1>1. IInv => AloneUntilCancelled
  BY DEF IInv
<1> QED
  BY <1>1, Invariance, PTL

(***************************************************************************)
(*                               HttpRequest                               *)
(***************************************************************************)

\* The errors of a list are in the order of recording, none newer than the last recorded.
InOrder(s, last) ==
    /\ s \in Seq(Entry)
    /\ \A i \in 1..Len(s) : s[i].id \in 1..last
    /\ \A i, j \in 1..Len(s) : i < j => s[i].id < s[j].id

Chronicle(s, last) == InOrder(s, last) /\ Len(s) <= MaxErrors

\* What memory, item and file hold of the errors is such a list.
Recorded ==
    /\ recorded \in Nat /\ marks \in Nat
    /\ silent \in 0..MaxSilent /\ disk.silent \in 0..MaxSilent
    /\ Chronicle(errors, recorded) /\ Chronicle(disk.errors, recorded)
    /\ cut = NIL \/ Chronicle(cut, recorded)

\* A completion block is added for an attempt, so there is one fewer while none is under way.
Attempts ==
    /\ pc \in [Requests -> {"idle", "send", "network", "unwinding"}]
    /\ retryCounter \in [Requests -> 0..RetryCount]
    /\ challenges \in [Requests -> 0..MaxChallenges]
    /\ outcome \in [Requests -> {"ok", "error", NIL}]
    /\ blocks \in [Requests -> Nat]
    /\ \A r \in Requests :
          blocks[r] <= (RetryCount - retryCounter[r]) + challenges[r]
                       + (IF pc[r] \in {"idle", "send"} THEN 0 ELSE 1)

\* A waiting error is in the string of the request whose item is kept, or was recorded
\* after it, or was cut off.
Accounted ==
    /\ DOMAIN string = Requests
    /\ since \in [Requests -> Nat] /\ \A r \in Requests : since[r] <= recorded
    /\ latest \in Requests \cup {NIL}
    /\ latest # NIL =>
         \A id \in Ids(errors) : \/ id \in string[latest].carried
                                 \/ id > since[latest]
                                 \/ id \in Ids(Unreported)

HttpInv == Recorded /\ Attempts /\ CutIsOldest /\ Accounted

-----------------------------------------------------------------------------
(* Lists of errors *)

\* Every set of naturals has a least element.
LEMMA Least ==
    ASSUME NEW S \in SUBSET Nat, S # {}
    PROVE  \E m \in S : \A n \in S : m <= n
<1> DEFINE R == {p \in Nat \X Nat : p[1] < p[2]}
<1>1. IsWellFoundedOn(R, Nat)
  <2>1. OpToRel(<, Nat) = R
    BY DEF OpToRel
  <2>. QED  BY <2>1, NatLessThanWellFounded
<1>2. \E x \in S : \A y \in S : ~ (<<y, x>> \in R)
  <2> HIDE DEF R
  <2>. QED  BY <1>1, WFMin
<1>3. PICK x \in S : \A y \in S : ~ (<<y, x>> \in R)
  BY <1>2
<1>4. ASSUME NEW y \in S PROVE x <= y
  <2>1. ~ (<<y, x>> \in R) /\ x \in Nat /\ y \in Nat
    BY <1>3
  <2>2. ~ (y < x)
    BY <2>1
  <2>. QED  BY <2>1, <2>2
<1>. QED  BY <1>4

\* Going from the newest error back, there is a first that does not fit, or all fit.
LEMMA RoomExists ==
    ASSUME errors \in Seq(Entry)
    PROVE  Room \in 0..Len(errors)
<1> DEFINE N == Len(errors)
           S == {k \in 0..N : k = N \/ ~ Fits(k + 1)}
<1>1. N \in Nat
  OBVIOUS
<1>2. S \in SUBSET Nat /\ N \in S
  BY <1>1
<1>3. PICK m \in S : \A n \in S : m <= n
  <2> HIDE DEF S
  <2>. QED  BY <1>2, Least
<1>4. m \in 0..N /\ (m = N \/ ~ Fits(m + 1))
  BY <1>3
<1>5. Fits(m)
  <2>1. CASE m = 0
    BY <2>1 DEF Fits
  <2>2. CASE m # 0
    <3>1. m - 1 \in 0..N /\ m - 1 + 1 = m /\ ~ (m <= m - 1) /\ m - 1 # N
      BY <1>1, <1>4, <2>2
    <3>2. m - 1 \notin S
      BY <1>3, <3>1
    <3>3. Fits(m - 1 + 1)
      BY <3>1, <3>2
    <3>. QED  BY <3>1, <3>3
  <2>. QED  BY <2>1, <2>2
<1>6. \E k \in 0..Len(errors) : Fits(k) /\ (k = Len(errors) \/ ~ Fits(k + 1))
  BY <1>4, <1>5
<1>. QED  BY <1>6 DEF Room

\* A part of such a list is one.
LEMMA PartOf ==
    ASSUME NEW s, NEW last \in Nat, InOrder(s, last),
           NEW m \in 1..Len(s) + 1, NEW n \in m - 1..Len(s)
    PROVE  /\ InOrder(SubSeq(s, m, n), last)
           /\ Len(SubSeq(s, m, n)) = n - m + 1
           /\ \A i \in 1..n - m + 1 : SubSeq(s, m, n)[i] = s[m + i - 1]
           /\ Ids(SubSeq(s, m, n)) \subseteq Ids(s)
<1> DEFINE t == SubSeq(s, m, n)
<1>1. s \in Seq(Entry) /\ Len(s) \in Nat
  BY DEF InOrder
<1>2. /\ t \in Seq(Entry)
      /\ Len(t) = n - m + 1
      /\ \A i \in 1..n - m + 1 : t[i] = s[m + i - 1]
  BY <1>1, SubSeqProperties
<1>3. \A i \in 1..n - m + 1 : m + i - 1 \in 1..Len(s)
  BY <1>1
<1>. HIDE DEF t
<1>4. ASSUME NEW i \in 1..Len(t) PROVE t[i].id \in 1..last
  BY <1>2, <1>3 DEF InOrder
<1>5. ASSUME NEW i \in 1..Len(t), NEW j \in 1..Len(t), i < j PROVE t[i].id < t[j].id
  <2>1. t[i] = s[m + i - 1] /\ t[j] = s[m + j - 1]
    BY <1>2
  <2>2. m + i - 1 \in 1..Len(s) /\ m + j - 1 \in 1..Len(s) /\ m + i - 1 < m + j - 1
    BY <1>2, <1>3, <1>5
  <2>. QED  BY <2>1, <2>2 DEF InOrder
<1>6. Ids(t) \subseteq Ids(s)
  BY <1>1, <1>2, <1>3 DEF Ids
<1>. QED  BY <1>2, <1>4, <1>5, <1>6 DEF t, InOrder

\* The item that keeps errors is not NIL.
LEMMA ListIsNotNIL ==
    ASSUME NEW s \in Seq(Entry)
    PROVE  s # NIL
BY TelemetryAssumption DEF TelemetryAssumption, Entry

LEMMA EmptyList ==
    /\ \A last \in Nat : Chronicle(<<>>, last)
    /\ Ids(<<>>) = {}
BY TelemetryAssumption DEF TelemetryAssumption, Chronicle, InOrder, Ids

\* Later recordings leave the lists in order.
LEMMA Longer ==
    ASSUME NEW s, NEW last \in Nat, NEW more \in Nat, last <= more, Chronicle(s, last)
    PROVE  Chronicle(s, more)
BY DEF Chronicle, InOrder

-----------------------------------------------------------------------------
(* The operations of the telemetry *)

\* The last recording is at the end.
LEMMA NewRecording ==
    ASSUME Recorded, NEW size \in Sizes,
           NEW new, new = Append(errors, [id |-> recorded + 1, size |-> size])
    PROVE  /\ InOrder(new, recorded + 1)
           /\ Ids(new) = Ids(errors) \cup {recorded + 1}
<1> DEFINE e == [id |-> recorded + 1, size |-> size]
<1>1. errors \in Seq(Entry) /\ e \in Entry /\ e.id = recorded + 1 /\ recorded \in Nat
  BY DEF Recorded, Chronicle, InOrder, Entry
<1>. HIDE DEF e
<1>2. /\ new \in Seq(Entry) /\ Len(new) = Len(errors) + 1 /\ Len(errors) \in Nat
      /\ \A i \in 1..Len(errors) : new[i] = errors[i]
      /\ new[Len(errors) + 1] = e
  BY <1>1, AppendProperties DEF e
<1>3. /\ \A i \in 1..Len(errors) : errors[i].id \in 1..recorded
      /\ \A i, j \in 1..Len(errors) : i < j => errors[i].id < errors[j].id
  BY DEF Recorded, Chronicle, InOrder
<1>4. \A i \in 1..Len(new) : i \in 1..Len(errors) \/ i = Len(errors) + 1
  BY <1>2
<1>5. \A i \in 1..Len(new) : new[i].id \in 1..recorded + 1
  BY <1>1, <1>2, <1>3, <1>4
<1>6. ASSUME NEW i \in 1..Len(new), NEW j \in 1..Len(new), i < j
      PROVE  new[i].id < new[j].id
  <2>1. i \in 1..Len(errors)
    BY <1>2, <1>6
  <2>2. CASE j \in 1..Len(errors)
    BY <1>2, <1>3, <1>6, <2>1, <2>2
  <2>3. CASE j = Len(errors) + 1
    BY <1>1, <1>2, <1>3, <2>1, <2>3
  <2>. QED  BY <1>4, <2>2, <2>3
<1>7. DOMAIN new = 1..Len(new) /\ DOMAIN errors = 1..Len(errors)
  BY <1>1, <1>2
<1>8. Ids(new) = Ids(errors) \cup {recorded + 1}
  <2>1. ASSUME NEW id \in Ids(new) PROVE id \in Ids(errors) \cup {recorded + 1}
    BY <1>1, <1>2, <1>4, <1>7 DEF Ids
  <2>2. ASSUME NEW id \in Ids(errors) PROVE id \in Ids(new)
    BY <1>2, <1>7 DEF Ids
  <2>3. recorded + 1 \in Ids(new)
    BY <1>1, <1>2, <1>7 DEF Ids
  <2>. QED  BY <2>1, <2>2, <2>3
<1>. QED  BY <1>2, <1>5, <1>6, <1>8 DEF InOrder

\* Saving keeps the newest errors that the archive has room for.
LEMMA Saves ==
    ASSUME Recorded, NEW new, NEW last \in Nat, recorded <= last, InOrder(new, last),
           NEW n \in 0..MaxSilent, SaveToDisk(new, n)
    PROVE  /\ Chronicle(errors', last) /\ Chronicle(disk'.errors, last)
           /\ silent' \in 0..MaxSilent /\ disk'.silent \in 0..MaxSilent
           /\ Ids(errors') \subseteq Ids(new)
           /\ Len(new) <= MaxErrors => errors' = new
<1> DEFINE over == Len(new) - MaxErrors
           kept == IF over > 0 THEN SubSeq(new, over + 1, Len(new)) ELSE new
<1>1. /\ errors' = kept /\ silent' = n
      /\ disk' = [errors |-> kept, silent |-> n] \/ disk' = disk
  BY DEF SaveToDisk
<1>2. Len(new) \in Nat /\ MaxErrors \in Nat \ {0} /\ over \in Int
  BY TelemetryAssumption DEF TelemetryAssumption, InOrder
<1>3. Chronicle(kept, last) /\ Ids(kept) \subseteq Ids(new)
  <2>1. CASE over > 0
    <3>1. over + 1 \in 1..Len(new) + 1 /\ Len(new) \in (over + 1) - 1..Len(new)
      BY <1>2, <2>1
    <3>2. /\ InOrder(SubSeq(new, over + 1, Len(new)), last)
          /\ Len(SubSeq(new, over + 1, Len(new))) = Len(new) - (over + 1) + 1
          /\ Ids(SubSeq(new, over + 1, Len(new))) \subseteq Ids(new)
      BY <3>1, PartOf
    <3>3. Len(new) - (over + 1) + 1 = MaxErrors /\ MaxErrors <= MaxErrors
      BY <1>2
    <3>. QED  BY <2>1, <3>2, <3>3 DEF Chronicle
  <2>2. CASE ~ (over > 0)
    <3>1. kept = new /\ Len(new) <= MaxErrors
      BY <1>2, <2>2
    <3>. QED  BY <3>1 DEF Chronicle
  <2>. QED  BY <2>1, <2>2
<1>4. Len(new) <= MaxErrors => kept = new
  BY <1>2
<1>. HIDE DEF kept
<1>5. Chronicle(disk.errors, last) /\ disk.silent \in 0..MaxSilent
  BY Longer DEF Recorded
<1>6. Chronicle(disk'.errors, last) /\ disk'.silent \in 0..MaxSilent
  BY <1>1, <1>3, <1>5
<1>. QED  BY <1>1, <1>3, <1>4, <1>6

\* addErrorInfo.
LEMMA Adds ==
    ASSUME Recorded, NEW size \in Sizes, AddError(size)
    PROVE  /\ Recorded' /\ recorded' = recorded + 1 /\ cut' = cut
           /\ Ids(errors') \subseteq Ids(errors) \cup {recorded + 1}
<1> DEFINE new == Append(errors, [id |-> recorded + 1, size |-> size])
<1>1. /\ SaveToDisk(new, silent) /\ recorded' = recorded + 1
      /\ cut' = cut /\ marks' = marks
  BY DEF AddError
<1>2. /\ recorded \in Nat /\ marks \in Nat /\ silent \in 0..MaxSilent
      /\ cut = NIL \/ Chronicle(cut, recorded)
  BY DEF Recorded
<1>3. recorded + 1 \in Nat /\ recorded <= recorded + 1
  BY <1>2
<1>4. /\ InOrder(new, recorded + 1)
      /\ Ids(new) = Ids(errors) \cup {recorded + 1}
  BY NewRecording
<1>. HIDE DEF new
<1>5. /\ Chronicle(errors', recorded + 1) /\ Chronicle(disk'.errors, recorded + 1)
      /\ silent' \in 0..MaxSilent /\ disk'.silent \in 0..MaxSilent
      /\ Ids(errors') \subseteq Ids(new)
  BY <1>1, <1>2, <1>3, <1>4, Saves
<1>6. cut' = NIL \/ Chronicle(cut', recorded + 1)
  BY <1>1, <1>2, <1>3, Longer
<1>. QED  BY <1>1, <1>2, <1>3, <1>4, <1>5, <1>6 DEF Recorded

\* resetTelemetry.
LEMMA Resets ==
    ASSUME Recorded, Reset
    PROVE  /\ Recorded' /\ recorded' = recorded /\ cut' = cut
           /\ errors' = Unreported
<1>1. /\ SaveToDisk(Unreported, 0)
      /\ marks' \in {marks, marks + 1} /\ cut' = cut /\ recorded' = recorded
  BY DEF Reset
<1>2. /\ recorded \in Nat /\ marks \in Nat
      /\ cut = NIL \/ Chronicle(cut, recorded)
  BY DEF Recorded
<1>3. Chronicle(Unreported, recorded)
  BY <1>2, EmptyList DEF Unreported
<1>4. InOrder(Unreported, recorded) /\ Len(Unreported) <= MaxErrors
  BY <1>3 DEF Chronicle
<1>5. 0 \in 0..MaxSilent /\ recorded <= recorded
  BY <1>2, TelemetryAssumption DEF TelemetryAssumption
<1>6. /\ Chronicle(errors', recorded) /\ Chronicle(disk'.errors, recorded)
      /\ silent' \in 0..MaxSilent /\ disk'.silent \in 0..MaxSilent
      /\ errors' = Unreported
  BY <1>1, <1>2, <1>4, <1>5, Saves
<1>. QED  BY <1>1, <1>2, <1>6 DEF Recorded

\* A string and what it cuts off are all the errors, the newer and the older ones.
LEMMA Splits ==
    ASSUME NEW last \in Nat, InOrder(errors, last), NEW k \in 0..Len(errors)
    PROVE  /\ Ids(errors) \subseteq Carried(k) \cup Ids(Oldest(Len(errors) - k))
           /\ InOrder(Oldest(Len(errors) - k), last)
           /\ Len(Oldest(Len(errors) - k)) <= Len(errors)
           /\ \A old \in Ids(Oldest(Len(errors) - k)), new \in Carried(k) : old < new
<1> DEFINE N == Len(errors)
           older == SubSeq(errors, 1, N - k)
           newer == SubSeq(errors, N - k + 1, N)
<1>1. N \in Nat /\ errors \in Seq(Entry) /\ DOMAIN errors = 1..N
  BY DEF InOrder
<1>2. 1 \in 1..N + 1 /\ N - k \in 1 - 1..N /\ N - k + 1 \in 1..N + 1 /\ N \in (N - k + 1) - 1..N
  BY <1>1
<1>3. /\ InOrder(older, last) /\ Len(older) = N - k - 1 + 1
      /\ \A i \in 1..N - k - 1 + 1 : older[i] = errors[1 + i - 1]
  BY <1>2, PartOf
<1>4. /\ InOrder(newer, last) /\ Len(newer) = N - (N - k + 1) + 1
      /\ \A i \in 1..N - (N - k + 1) + 1 : newer[i] = errors[N - k + 1 + i - 1]
  BY <1>2, PartOf
<1>. HIDE DEF older, newer
<1>5. Len(older) = N - k /\ \A i \in 1..N - k : older[i] = errors[i]
  BY <1>1, <1>3
<1>6. Len(newer) = k /\ \A i \in 1..k : newer[i] = errors[N - k + i]
  <2>1. N - (N - k + 1) + 1 = k /\ \A i \in 1..k : N - k + 1 + i - 1 = N - k + i
    BY <1>1
  <2>. QED  BY <1>4, <2>1
<1>7. DOMAIN older = 1..N - k /\ DOMAIN newer = 1..k
  BY <1>3, <1>4, <1>5, <1>6 DEF InOrder
<1>8. ASSUME NEW id \in Ids(errors) PROVE id \in Ids(newer) \cup Ids(older)
  <2>1. PICK i \in 1..N : id = errors[i].id
    BY <1>1 DEF Ids
  <2>2. CASE i \in 1..N - k
    BY <1>5, <1>7, <2>1, <2>2 DEF Ids
  <2>3. CASE i \notin 1..N - k
    <3>1. i - (N - k) \in 1..k /\ N - k + (i - (N - k)) = i
      BY <1>1, <2>1, <2>3
    <3>2. newer[i - (N - k)] = errors[i]
      BY <1>6, <3>1
    <3>. QED  BY <1>7, <2>1, <3>1, <3>2 DEF Ids
  <2>. QED  BY <2>2, <2>3
<1>9. ASSUME NEW old \in Ids(older), NEW new \in Ids(newer) PROVE old < new
  <2>1. PICK i \in 1..N - k : old = errors[i].id
    BY <1>5, <1>7 DEF Ids
  <2>2. PICK j \in 1..k : new = errors[N - k + j].id
    BY <1>6, <1>7 DEF Ids
  <2>3. i \in 1..N /\ N - k + j \in 1..N /\ i < N - k + j
    BY <1>1
  <2>. QED  BY <2>1, <2>2, <2>3 DEF InOrder
<1>10. Oldest(N - k) = older /\ Carried(k) = Ids(newer)
  BY DEF older, newer, Oldest, Newest, Carried
<1>11. Ids(errors) \subseteq Ids(newer) \cup Ids(older)
  BY <1>8
<1>12. InOrder(older, last) /\ Len(older) <= N
  BY <1>1, <1>3, <1>5
<1>. QED  BY <1>9, <1>10, <1>11, <1>12

\* telemetryString.
LEMMA Serializes ==
    ASSUME Recorded, Serialize
    PROVE  /\ Recorded' /\ recorded' = recorded /\ errors' = errors
           /\ \A id \in Ids(errors) : id \in String.carried \/ id \in Ids(Unreported')
           /\ cut' # NIL => \A old \in Ids(cut'), new \in String.carried : old < new
<1> DEFINE older == Oldest(Len(errors) - Room)
<1>1. /\ cut' = Remainder(Room) /\ errors' = errors /\ silent' = silent
      /\ marks' = marks /\ disk' = disk /\ recorded' = recorded
  BY DEF Serialize
<1>2. recorded \in Nat /\ InOrder(errors, recorded) /\ Len(errors) <= MaxErrors
  BY DEF Recorded, Chronicle
<1>3. Room \in 0..Len(errors)
  BY <1>2, RoomExists DEF InOrder
<1>4. /\ Ids(errors) \subseteq Carried(Room) \cup Ids(older)
      /\ InOrder(older, recorded) /\ Len(older) <= Len(errors)
      /\ \A old \in Ids(older), new \in Carried(Room) : old < new
  BY <1>2, <1>3, Splits
<1>5. String.carried = Carried(Room)
  BY DEF String
<1>6. Len(errors) \in Nat /\ Len(older) \in Nat /\ MaxErrors \in Nat
  BY <1>2, <1>4, TelemetryAssumption DEF InOrder, TelemetryAssumption
<1>. HIDE DEF older
<1>7. Chronicle(older, recorded) /\ older # NIL
  BY <1>2, <1>4, <1>6, ListIsNotNIL DEF Chronicle, InOrder
<1>8. CASE Room = Len(errors)
  <2>1. cut' = NIL
    BY <1>1, <1>8 DEF Remainder
  <2>2. Ids(older) = {}
    <3>1. Len(errors) - Room = 0
      BY <1>6, <1>8
    <3>2. older = <<>>
      BY <1>6, <3>1, <1>2 DEF older, Oldest, InOrder
    <3>. QED  BY <3>2, EmptyList
  <2>3. Recorded'
    BY <1>1, <2>1 DEF Recorded, Chronicle, InOrder
  <2>. QED  BY <1>1, <1>4, <1>5, <2>1, <2>2, <2>3
<1>9. CASE Room # Len(errors)
  <2>1. cut' = older
    BY <1>1, <1>9 DEF Remainder, older
  <2>2. Unreported' = older
    BY <1>7, <2>1 DEF Unreported
  <2>3. Recorded'
    BY <1>1, <1>7, <2>1 DEF Recorded, Chronicle, InOrder
  <2>. QED  BY <1>1, <1>4, <1>5, <2>1, <2>2, <2>3
<1>. QED  BY <1>8, <1>9

\* increaseSilentSuccessfulCount.
LEMMA Counts ==
    ASSUME Recorded, IncreaseSilent
    PROVE  /\ Recorded' /\ recorded' = recorded /\ cut' = cut
           /\ Ids(errors') \subseteq Ids(errors)
<1>1. /\ SaveToDisk(errors, silent + 1)
      /\ cut' = cut /\ marks' = marks /\ recorded' = recorded /\ silent < MaxSilent
  BY DEF IncreaseSilent
<1>2. /\ recorded \in Nat /\ marks \in Nat /\ silent \in 0..MaxSilent
      /\ InOrder(errors, recorded) /\ (cut = NIL \/ Chronicle(cut, recorded))
  BY DEF Recorded, Chronicle
<1>3. silent + 1 \in 0..MaxSilent /\ recorded <= recorded
  BY <1>1, <1>2, TelemetryAssumption DEF TelemetryAssumption
<1>4. /\ Chronicle(errors', recorded) /\ Chronicle(disk'.errors, recorded)
      /\ silent' \in 0..MaxSilent /\ disk'.silent \in 0..MaxSilent
      /\ Ids(errors') \subseteq Ids(errors)
  BY <1>1, <1>2, <1>3, Saves
<1>. QED  BY <1>1, <1>2, <1>4 DEF Recorded

\* initFromDisk.
LEMMA Loads ==
    ASSUME Recorded, LoadFromDisk
    PROVE  Recorded' /\ recorded' = recorded /\ cut' = NIL
BY DEF Recorded, LoadFromDisk, Chronicle, InOrder

-----------------------------------------------------------------------------
(* Requests *)

\* Every attempt has one completion block.
LEMMA AttemptsKept ==
    ASSUME Attempts, [HttpNext]_httpVars
    PROVE  Attempts'
<1>. USE HttpAssumption DEF HttpAssumption
<1>1. ASSUME UNCHANGED request PROVE Attempts'
  BY <1>1 DEF Attempts, request
<1>2. ASSUME NEW r \in Requests, Start(r) PROVE Attempts'
  BY <1>2 DEF Attempts, Start, Goto
<1>3. ASSUME NEW r \in Requests, Send(r) PROVE Attempts'
  BY <1>3 DEF Attempts, Send, Goto
<1>4. ASSUME NEW r \in Requests, NEW o \in {"ok", "error"}, pc[r] = "network", Complete(r, o)
      PROVE  Attempts'
  BY <1>4 DEF Attempts, Complete, Goto
<1>5. ASSUME NEW r \in Requests, pc[r] = "network", Retry(r) PROVE Attempts'
  BY <1>5 DEF Attempts, Retry, Goto, Decremented
<1>6. ASSUME NEW r \in Requests, Responds(r) PROVE Attempts'
  <2>1. CASE Challenge(r)
    BY <2>1 DEF Attempts, Challenge, Goto
  <2>2. CASE ResponseParsed(r) \/ ResponseRejected(r) \/ TransportFails(r)
    BY <1>4, <2>2 DEF ResponseParsed, ResponseRejected, TransportFails
  <2>3. CASE ServerError(r) \/ NetworkFails(r)
    BY <1>4, <1>5, <2>3 DEF ServerError, NetworkFails
  <2>. QED  BY <1>6, <2>1, <2>2, <2>3 DEF Responds
<1>7. ASSUME NEW S \in SUBSET Requests, Release(S) PROVE Attempts'
  BY <1>7 DEF Attempts, Release
<1>8. ASSUME NEW r \in Requests, Unwind(r) PROVE Attempts'
  <2>1. CASE Release({r})
    BY <1>7, <2>1
  <2>2. CASE /\ blocks[r] > 1
             /\ blocks' = [blocks EXCEPT ![r] = @ - 1]
             /\ UNCHANGED <<pc, retryCounter, challenges, outcome, string, since>>
    BY <1>8, <2>2 DEF Attempts, Unwind
  <2>. QED  BY <1>8, <2>1, <2>2 DEF Unwind
<1>9. CASE OtherFlow
  BY <1>1, <1>9 DEF OtherFlow
<1>10. CASE Restart
  BY <1>7, <1>10 DEF Restart
<1>11. CASE UNCHANGED httpVars
  BY <1>1, <1>11 DEF httpVars
<1>. QED  BY <1>2, <1>3, <1>6, <1>8, <1>9, <1>10, <1>11 DEF HttpNext

\* Requests that end forget their strings.
Forget(S) ==
    /\ string' = [r \in Requests |-> IF r \in S THEN NoString ELSE string[r]]
    /\ since' = [r \in Requests |-> IF r \in S THEN 0 ELSE since[r]]

\* Errors that are new, cut off or dropped do not disturb what the last string says, as
\* long as no other is made.
LEMMA SameItem ==
    ASSUME HttpInv, Recorded', recorded <= recorded', cut' = cut, latest' = latest,
           \A id \in Ids(errors') :
              id \in Ids(errors) \/ id > recorded \/ id \in Ids(Unreported),
           (string' = string /\ since' = since) \/ \E S \in SUBSET Requests : Forget(S)
    PROVE  CutIsOldest' /\ Accounted'
<1>1. /\ DOMAIN string = Requests /\ since \in [Requests -> Nat]
      /\ \A r \in Requests : since[r] <= recorded
      /\ latest \in Requests \cup {NIL}
      /\ recorded \in Nat /\ recorded' \in Nat
  BY DEF HttpInv, Accounted, Recorded
<1>2. /\ DOMAIN string' = Requests /\ since' \in [Requests -> Nat]
      /\ \A r \in Requests : since'[r] <= recorded'
  <2>1. CASE string' = string /\ since' = since
    BY <1>1, <2>1
  <2>2. ASSUME NEW S \in SUBSET Requests, Forget(S)
        PROVE  /\ DOMAIN string' = Requests /\ since' \in [Requests -> Nat]
               /\ \A r \in Requests : since'[r] <= recorded'
    BY <1>1, <2>2 DEF Forget
  <2>. QED  BY <2>1, <2>2
<1>3. \A id \in Ids(errors') : id \in Nat /\ id > 0
  BY DEF Recorded, Chronicle, InOrder, Ids
<1>4. Unreported' = Unreported
  BY DEF Unreported
<1>5. ASSUME latest # NIL, string'[latest] = string[latest], since'[latest] = since[latest]
      PROVE  CutIsOldest' /\ Accounted'
  <2>1. CutIsOldest'
    BY <1>5 DEF HttpInv, CutIsOldest
  <2>2. ASSUME NEW id \in Ids(errors')
        PROVE  id \in string[latest].carried \/ id > since[latest] \/ id \in Ids(Unreported)
    <3>1. CASE id \in Ids(errors)
      BY <1>5, <3>1 DEF HttpInv, Accounted
    <3>2. CASE id > recorded
      BY <1>1, <1>3, <1>5, <3>2
    <3>. QED  BY <3>1, <3>2
  <2>. QED  BY <1>1, <1>2, <1>4, <1>5, <2>1, <2>2 DEF Accounted
<1>6. ASSUME latest # NIL, string'[latest] = NoString, since'[latest] = 0
      PROVE  CutIsOldest' /\ Accounted'
  <2>1. string'[latest].carried = {}
    BY <1>6 DEF NoString
  <2>2. \A id \in Ids(errors') : id > since'[latest]
    BY <1>3, <1>6
  <2>. QED  BY <1>1, <1>2, <2>1, <2>2 DEF CutIsOldest, Accounted
<1>7. CASE latest = NIL
  BY <1>1, <1>2, <1>7 DEF CutIsOldest, Accounted
<1>8. CASE latest # NIL
  <2>1. CASE string' = string /\ since' = since
    BY <1>5, <1>8, <2>1
  <2>2. ASSUME NEW S \in SUBSET Requests, Forget(S) PROVE CutIsOldest' /\ Accounted'
    BY <1>1, <1>5, <1>6, <1>8, <2>2 DEF Forget
  <2>. QED  BY <2>1, <2>2
<1>. QED  BY <1>7, <1>8

LEMMA InitHttpInv == HttpInit => HttpInv
<1> SUFFICES ASSUME HttpInit PROVE HttpInv
  OBVIOUS
<1>. USE TelemetryAssumption, HttpAssumption DEF TelemetryAssumption, HttpAssumption
<1>1. errors = <<>> /\ disk.errors = <<>> /\ cut = NIL /\ recorded = 0
  BY DEF HttpInit, InitTelemetry
<1>2. Recorded
  BY <1>1, EmptyList DEF HttpInit, InitTelemetry, Recorded
<1>3. Attempts
  BY DEF HttpInit, Attempts
<1>4. CutIsOldest /\ Accounted
  BY <1>1 DEF HttpInit, CutIsOldest, Accounted
<1>. QED  BY <1>2, <1>3, <1>4 DEF HttpInv

\* A success leaves what the item cut off, any other outcome is one more error.
LEMMA Updates ==
    ASSUME Recorded, NEW outcomeOf, NEW size \in Sizes, Update(outcomeOf, size)
    PROVE  /\ Recorded' /\ recorded <= recorded' /\ cut' = cut
           /\ \A id \in Ids(errors') :
                 id \in Ids(errors) \/ id > recorded \/ id \in Ids(Unreported)
<1>1. recorded \in Nat
  BY DEF Recorded
<1>2. CASE outcomeOf = "ok"
  BY <1>1, <1>2, Resets DEF Update
<1>3. CASE outcomeOf # "ok"
  BY <1>1, <1>3, Adds DEF Update
<1>. QED  BY <1>2, <1>3

LEMMA NextHttpInv == HttpInv /\ [HttpNext]_httpVars => HttpInv'
<1> SUFFICES ASSUME HttpInv, [HttpNext]_httpVars PROVE HttpInv'
  OBVIOUS
<1>1. Recorded /\ recorded \in Nat /\ Attempts /\ Accounted
  BY DEF HttpInv, Recorded
<1>2. Attempts'
  BY <1>1, AttemptsKept
<1>3. ASSUME Recorded', recorded <= recorded', cut' = cut, latest' = latest,
             \A id \in Ids(errors') :
                id \in Ids(errors) \/ id > recorded \/ id \in Ids(Unreported),
             (string' = string /\ since' = since) \/ \E S \in SUBSET Requests : Forget(S)
      PROVE  HttpInv'
  BY <1>2, <1>3, SameItem DEF HttpInv
<1>4. ASSUME UNCHANGED <<telemetry, string, since, latest>> PROVE HttpInv'
  <2>1. Recorded' /\ recorded <= recorded' /\ cut' = cut /\ errors' = errors
    BY <1>1, <1>4 DEF telemetry, Recorded, Chronicle, InOrder
  <2>2. latest' = latest /\ string' = string /\ since' = since
    BY <1>4
  <2>. QED  BY <1>3, <2>1, <2>2
<1>5. ASSUME NEW size \in Sizes, AddError(size), UNCHANGED <<string, since, latest>>
      PROVE  HttpInv'
  <2>1. /\ Recorded' /\ recorded' = recorded + 1 /\ cut' = cut
        /\ Ids(errors') \subseteq Ids(errors) \cup {recorded + 1}
    BY <1>1, <1>5, Adds
  <2>2. recorded <= recorded' /\ recorded + 1 > recorded
    BY <1>1, <2>1
  <2>3. \A id \in Ids(errors') : id \in Ids(errors) \/ id > recorded
    BY <2>1, <2>2
  <2>4. latest' = latest /\ string' = string /\ since' = since
    BY <1>5
  <2>. QED  BY <1>3, <2>1, <2>2, <2>3, <2>4
<1>6. ASSUME NEW r \in Requests, Start(r) PROVE HttpInv'
  BY <1>4, <1>6 DEF Start
<1>7. ASSUME NEW r \in Requests, Send(r) PROVE HttpInv'
  <2>1. /\ Serialize /\ latest' = r
        /\ string' = [string EXCEPT ![r] = String]
        /\ since' = [since EXCEPT ![r] = recorded]
    BY <1>7 DEF Send
  <2>2. /\ Recorded' /\ recorded' = recorded /\ errors' = errors
        /\ \A id \in Ids(errors) : id \in String.carried \/ id \in Ids(Unreported')
        /\ cut' # NIL => \A old \in Ids(cut'), new \in String.carried : old < new
    BY <1>1, <2>1, Serializes
  <2>3. /\ DOMAIN string = Requests /\ since \in [Requests -> Nat]
        /\ \A q \in Requests : since[q] <= recorded
    BY <1>1 DEF Accounted
  <2>4. /\ DOMAIN string' = Requests /\ string'[r] = String
        /\ since' \in [Requests -> Nat] /\ \A q \in Requests : since'[q] <= recorded'
    BY <1>1, <2>1, <2>2, <2>3
  <2>5. CutIsOldest'
    BY <2>1, <2>2, <2>4 DEF CutIsOldest
  <2>6. Accounted'
    BY <2>1, <2>2, <2>4 DEF Accounted
  <2>. QED  BY <1>2, <2>2, <2>5, <2>6 DEF HttpInv
<1>8. ASSUME NEW r \in Requests, Responds(r) PROVE HttpInv'
  <2>1. CASE Challenge(r)
    BY <1>4, <1>5, <2>1 DEF Challenge
  <2>2. CASE ResponseParsed(r) \/ ResponseRejected(r) \/ TransportFails(r)
    BY <1>4, <2>2 DEF ResponseParsed, ResponseRejected, TransportFails, Complete
  <2>3. CASE ServerError(r) \/ NetworkFails(r)
    BY <1>4, <2>3 DEF ServerError, NetworkFails, Complete, Retry
  <2>. QED  BY <1>8, <2>1, <2>2, <2>3 DEF Responds
<1>9. ASSUME NEW r \in Requests, Unwind(r) PROVE HttpInv'
  <2>1. PICK size \in Sizes : Update(outcome[r], size)
    BY <1>9 DEF Unwind
  <2>2. /\ Recorded' /\ recorded <= recorded' /\ cut' = cut
        /\ \A id \in Ids(errors') :
              id \in Ids(errors) \/ id > recorded \/ id \in Ids(Unreported)
    BY <1>1, <2>1, Updates
  <2>3. latest' = latest
    BY <1>9 DEF Unwind
  <2>4. (string' = string /\ since' = since) \/ Forget({r})
    BY <1>9 DEF Unwind, Release, Forget
  <2>. QED  BY <1>3, <2>2, <2>3, <2>4
<1>10. CASE OtherFlow
  <2>1. UNCHANGED <<string, since, latest>>
    BY <1>10 DEF OtherFlow, request, history
  <2>2. CASE IncreaseSilent
    <3>1. /\ Recorded' /\ recorded' = recorded /\ cut' = cut
          /\ Ids(errors') \subseteq Ids(errors)
      BY <1>1, <2>2, Counts
    <3>2. recorded <= recorded' /\ \A id \in Ids(errors') : id \in Ids(errors)
      BY <1>1, <3>1
    <3>. QED  BY <1>3, <2>1, <3>1, <3>2
  <2>3. CASE \E size \in Sizes : AddError(size)
    BY <1>5, <2>1, <2>3
  <2>. QED  BY <1>10, <2>2, <2>3 DEF OtherFlow
<1>11. CASE Restart
  <2>1. LoadFromDisk /\ Release(Requests) /\ latest' = NIL
    BY <1>11 DEF Restart
  <2>2. Recorded' /\ recorded' = recorded /\ cut' = NIL
    BY <1>1, <2>1, Loads
  <2>3. DOMAIN string' = Requests /\ since' = [r \in Requests |-> 0]
    BY <2>1 DEF Release
  <2>4. CutIsOldest' /\ Accounted'
    BY <1>1, <2>1, <2>2, <2>3 DEF CutIsOldest, Accounted
  <2>. QED  BY <1>2, <2>2, <2>4 DEF HttpInv
<1>12. CASE UNCHANGED httpVars
  BY <1>4, <1>12 DEF httpVars, request, history
<1>. QED
  BY <1>6, <1>7, <1>8, <1>9, <1>10, <1>11, <1>12 DEF HttpNext

LEMMA HttpInvariance == HttpSpec => []HttpInv
BY InitHttpInv, NextHttpInv, PTL DEF HttpSpec

LEMMA HttpTypes == HttpInv => HttpTypeOK
<1> SUFFICES ASSUME HttpInv PROVE HttpTypeOK
  OBVIOUS
<1>. USE HttpAssumption DEF HttpAssumption
<1>1. TelemetryTypeOK
  BY DEF HttpInv, Recorded, Chronicle, InOrder, TelemetryTypeOK, Waiting
<1>2. ASSUME NEW r \in Requests
      PROVE  blocks[r] \in 0..1 + (RetryCount - retryCounter[r]) + challenges[r]
  BY DEF HttpInv, Attempts
<1>. QED  BY <1>1, <1>2 DEF HttpInv, Attempts, HttpTypeOK

\* What a success makes the telemetry forget is not what its item cut off.
LEMMA ForgetsReported ==
    ASSUME HttpInv, NEW r \in Requests, Confirms(r), latest = r, NEW id \in Forgotten
    PROVE  id \in string[r].carried \/ id > since[r]
<1>1. Recorded /\ latest # NIL
  BY HttpAssumption DEF HttpInv, HttpAssumption
<1>2. \E size \in Sizes : Update("ok", size)
  BY DEF Confirms, Unwind
<1>3. errors' = Unreported
  BY <1>1, <1>2, Resets DEF Update
<1>4. id \in Ids(errors) /\ id \notin Ids(Unreported)
  BY <1>3 DEF Forgotten, Ids
<1>. QED  BY <1>1, <1>4 DEF HttpInv, Accounted

-----------------------------------------------------------------------------
\* A request is never sent more often than its retries and challenges allow, and memory,
\* item and file never hold more errors than the archive limit (retryCounter,
\* maxErrorCountToArchive).
THEOREM HttpTypeCorrect == HttpSpec => []HttpTypeOK
BY HttpInvariance, HttpTypes, PTL

\* What a string that was too long cut off is older than everything in it
\* (serializeErrorsInfoWithCurrentStringSize).
THEOREM OldestIsCut == HttpSpec => []CutIsOldest
<1>1. HttpInv => CutIsOldest
  BY DEF HttpInv
<1>. QED  BY <1>1, HttpInvariance, PTL

\* A success forgets only errors that its string carried or that were recorded after the
\* string was made (resetTelemetry), however many attempts, challenges and restarts came
\* before.
THEOREM ForgetsWhatWasReported == HttpSpec => ForgetsOwnOrLate
<1> DEFINE Reported ==
        \A r \in Requests : Confirms(r) /\ latest = r =>
           \A id \in Forgotten : id \in string[r].carried \/ id > since[r]
<1>1. HttpInv /\ [HttpNext]_httpVars => [Reported]_httpVars
  BY ForgetsReported
<1>2. HttpSpec => [][Reported]_httpVars
  BY <1>1, HttpInvariance, PTL DEF HttpSpec
<1>. QED  BY <1>2 DEF ForgetsOwnOrLate
=============================================================================
