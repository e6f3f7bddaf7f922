----------------------- MODULE AuthorityResolverProofs ----------------------
(***************************************************************************)
(* Proofs about AuthorityResolver for any callers, any environments and    *)
(* any metadata.  A block answers for the authority its caller asked about *)
(* because a caller waits while its block is queued or at work (Waits);    *)
(* what is reported as validated was accepted because every record that    *)
(* says so is of an accepted environment (Vouched); and nothing is asked   *)
(* twice because an answered environment is in the cache, or about to be   *)
(* (Settled).  The aliases of a record share it because, alias by alias,   *)
(* the block that stores it either has written it or still will (Sharing); *)
(* this one needs responses that do not contradict each other.  That no    *)
(* host is looked up twice rests on what the loop over the aliases         *)
(* collects (OthersAre).                                                   *)
(***************************************************************************)
EXTENDS AuthorityResolver, SequenceTheorems, WellFoundedInduction, TLAPS

\* The block is between its beginning and its caller's completion block.
Working == block.at \in {"recheck", "sent", "store"}

\* A caller waits for one block, queued or at work.
Waits ==
    /\ \A c \in Callers : pc[c] = "waiting" => asked[c] \in Questions
    /\ \A i \in 1..Len(queue) :
          /\ pc[queue[i].caller] = "waiting"
          /\ Working => queue[i].caller # block.caller
          /\ \A j \in 1..Len(queue) : i # j => queue[i].caller # queue[j].caller
    /\ Working => block.caller \in Callers /\ pc[block.caller] = "waiting"

\* Whatever is taken for validated, now or with what is still to be stored, was accepted.
Vouched ==
    /\ \A env \in Environments : cache[env] # NIL /\ cache[env].validated => env \in vouched
    /\ \A i \in 1..Len(todo) : \A j \in 1..Len(todo[i].left) : todo[i].left[j] \in vouched
    /\ block.at = "store" => Env \in vouched
    /\ NoFalseValidation

\* Only the block that is storing an answer may not have it in the cache yet.
Settled == \A env \in settled : cache[env] # NIL \/ (block.at = "store" /\ env = Env)

IInv == TypeOK /\ Waits /\ Vouched /\ Settled

\* What the queue and the storing are made of.
Asks    == [caller : Callers, env : Environments, validate : BOOLEAN]
Pending == [left : Seq(Environments), rec : Records]

-----------------------------------------------------------------------------
(* Records and sequences *)

LEMMA RecordFacts ==
    /\ \A rec \in Records : rec # NIL /\ rec.validated \in BOOLEAN /\ rec.error \in BOOLEAN
    /\ InvalidRecord \in Records /\ ~InvalidRecord.validated
    /\ \A env \in Environments : DefaultRecord(env) \in Records
    /\ \A m \in Metadata : \A i \in DOMAIN m : ValidRecord(m[i]) \in Records
<1>1. NIL \notin Records
  BY ResolverAssumption
<1>2. ASSUME NEW rec \in Records PROVE rec.validated \in BOOLEAN /\ rec.error \in BOOLEAN
  <2>1. CASE rec = InvalidRecord
    BY <2>1 DEF InvalidRecord
  <2>2. ASSUME NEW env \in Environments, rec = DefaultRecord(env)
        PROVE  rec.validated \in BOOLEAN /\ rec.error \in BOOLEAN
    BY <2>2 DEF DefaultRecord
  <2>3. ASSUME NEW m \in Metadata, NEW i \in DOMAIN m, rec = ValidRecord(m[i])
        PROVE  rec.validated \in BOOLEAN /\ rec.error \in BOOLEAN
    BY <2>3 DEF ValidRecord
  <2>4. \/ rec = InvalidRecord \/ \E env \in Environments : rec = DefaultRecord(env)
        \/ \E m \in Metadata : \E i \in DOMAIN m : rec = ValidRecord(m[i])
    BY DEF Records
  <2>. QED  BY <2>1, <2>2, <2>3, <2>4
<1>3. InvalidRecord \in Records
  BY DEF Records
<1>4. ~InvalidRecord.validated
  BY DEF InvalidRecord
<1>5. ASSUME NEW env \in Environments PROVE DefaultRecord(env) \in Records
  BY DEF Records
<1>6. ASSUME NEW m \in Metadata, NEW i \in DOMAIN m PROVE ValidRecord(m[i]) \in Records
  BY DEF Records
<1>. QED  BY <1>1, <1>2, <1>3, <1>4, <1>5, <1>6

LEMMA Caller == ASSUME TypeOK, Waits, Working
                PROVE  /\ block.caller \in Callers /\ pc[block.caller] = "waiting"
                       /\ asked[block.caller] \in Questions /\ Env \in Environments
  BY DEF Waits, Env, Questions

-----------------------------------------------------------------------------
(* Types *)

LEMMA Completes ==
    ASSUME TypeOK, NEW c \in Callers, NEW endpoint \in BOOLEAN, NEW validated \in BOOLEAN,
           NEW error \in BOOLEAN, Complete(c, endpoint, validated, error)
    PROVE  /\ pc' \in [Callers -> {"idle", "waiting", "done"}]
           /\ result' \in [Callers -> Results \cup {NIL}]
           /\ pc'[c] = "done" /\ result'[c].validated = validated
           /\ \A d \in Callers : d # c => pc'[d] = pc[d] /\ result'[d] = result[d]
  BY DEF TypeOK, Complete, Results

LEMMA AtTypes ==
    ASSUME NEW c \in Callers, NEW place \in {"recheck", "sent", "store", "signal"}, At(c, place)
    PROVE  /\ block' \in [caller : Callers, at : {"recheck", "sent", "store", "signal"}]
           /\ block'.caller = c /\ block'.at = place
  BY DEF At

LEMMA SequenceTypes == ASSUME TypeOK PROVE queue \in Seq(Asks) /\ todo \in Seq(Pending)
  BY DEF TypeOK, Asks, Pending

LEMMA MetadataEntries ==
    ASSUME NEW m \in Metadata
    PROVE  /\ m \in Seq(Entry) /\ Len(m) \in Nat /\ DOMAIN m = 1..Len(m)
           /\ \A i \in DOMAIN m : /\ m[i].networkHost \in Environments \cup {NIL}
                                  /\ m[i].aliases \in Seq(Environments)
<1>1. m \in Seq(Entry)
  BY ResolverAssumption
<1>2. Len(m) \in Nat /\ DOMAIN m = 1..Len(m) /\ \A i \in DOMAIN m : m[i] \in Entry
  <2> HIDE DEF Entry
  <2>. QED  BY <1>1
<1>. QED  BY <1>1, <1>2 DEF Entry

LEMMA NextTypes == ASSUME IInv, Next PROVE TypeOK'
<1>0. TypeOK /\ Waits
  BY DEF IInv
<1>1. ASSUME NEW c \in Callers, NEW env \in Environments, NEW validate \in BOOLEAN,
             ResolveFromCache(c, env, validate)
      PROVE  TypeOK'
  <2>1. cache[env] \in Records
    BY <1>0, <1>1 DEF TypeOK, ResolveFromCache
  <2>2. Complete(c, TRUE, cache[env].validated, cache[env].error)
    BY <1>1 DEF ResolveFromCache, HandleRecord
  <2>3. asked' \in [Callers -> Questions \cup {NIL}]
    BY <1>0, <1>1 DEF TypeOK, ResolveFromCache, Questions
  <2>4. /\ pc' \in [Callers -> {"idle", "waiting", "done"}]
        /\ result' \in [Callers -> Results \cup {NIL}]
    BY <1>0, <2>1, <2>2, RecordFacts, Completes
  <2>. QED  BY <1>0, <1>1, <2>3, <2>4 DEF TypeOK, ResolveFromCache, history
<1>2. ASSUME NEW c \in Callers, NEW env \in Environments, NEW validate \in BOOLEAN,
             ResolveLater(c, env, validate)
      PROVE  TypeOK'
  <2>1. asked' \in [Callers -> Questions \cup {NIL}]
    BY <1>0, <1>2 DEF TypeOK, ResolveLater, Questions
  <2>2. queue' \in Seq(Asks)
    <3>1. [caller |-> c, env |-> env, validate |-> validate] \in Asks
      BY DEF Asks
    <3>. QED  BY <1>0, <1>2, <3>1, SequenceTypes, AppendProperties DEF ResolveLater
  <2>. QED  BY <1>0, <1>2, <2>1, <2>2 DEF TypeOK, ResolveLater, history, Asks
<1>3. CASE StartBlock
  <2>1. Head(queue) \in Asks
        /\ queue' \in Seq(Asks)
    BY <1>0, <1>3, SequenceTypes, HeadTailProperties DEF StartBlock
  <2>2. block' \in [caller : Callers, at : {"recheck", "sent", "store", "signal"}]
    BY <1>3, <2>1 DEF StartBlock, At, Asks
  <2>. QED  BY <1>0, <1>3, <2>1, <2>2 DEF TypeOK, StartBlock, history, Asks
<1>4. CASE RecheckHit
  <2>1. block.caller \in Callers /\ Env \in Environments
    BY <1>0, <1>4, Caller DEF RecheckHit, Working
  <2>2. cache[Env] \in Records
    BY <1>0, <1>4, <2>1 DEF TypeOK, RecheckHit
  <2>3. /\ pc' \in [Callers -> {"idle", "waiting", "done"}]
        /\ result' \in [Callers -> Results \cup {NIL}]
    BY <1>0, <1>4, <2>1, <2>2, RecordFacts, Completes DEF RecheckHit, HandleRecord
  <2>4. block' \in [caller : Callers, at : {"recheck", "sent", "store", "signal"}]
    BY <1>4, <2>1, AtTypes DEF RecheckHit
  <2>. QED  BY <1>0, <1>4, <2>3, <2>4 DEF TypeOK, RecheckHit, history
<1>5. CASE SendDiscovery
  <2>1. block' \in [caller : Callers, at : {"recheck", "sent", "store", "signal"}]
    BY <1>0, <1>5, Caller, AtTypes DEF SendDiscovery, Working
  <2>. QED  BY <1>0, <1>5, <2>1 DEF TypeOK, SendDiscovery, history
<1>6. ASSUME NEW invalidInstance \in BOOLEAN, DiscoveryFails(invalidInstance) PROVE TypeOK'
  <2>1. block.caller \in Callers /\ Env \in Environments
        /\ asked[block.caller].validate \in BOOLEAN
    BY <1>0, <1>6, Caller DEF DiscoveryFails, Working, Questions
  <2>2. cache' \in [Environments -> Records \cup {NIL}] /\ settled' \subseteq Environments
    BY <1>0, <1>6, <2>1, RecordFacts DEF TypeOK, DiscoveryFails
  <2>3. /\ pc' \in [Callers -> {"idle", "waiting", "done"}]
        /\ result' \in [Callers -> Results \cup {NIL}]
    BY <1>0, <1>6, <2>1, Completes DEF DiscoveryFails
  <2>4. block' \in [caller : Callers, at : {"recheck", "sent", "store", "signal"}]
    BY <1>6, <2>1, AtTypes DEF DiscoveryFails
  <2>. QED  BY <1>0, <1>6, <2>2, <2>3, <2>4 DEF TypeOK, DiscoveryFails
<1>7. CASE MetadataMalformed
  <2>1. block.caller \in Callers
    BY <1>0, <1>7, Caller DEF MetadataMalformed, Working
  <2>2. /\ pc' \in [Callers -> {"idle", "waiting", "done"}]
        /\ result' \in [Callers -> Results \cup {NIL}]
    BY <1>0, <1>7, <2>1, Completes DEF MetadataMalformed
  <2>3. block' \in [caller : Callers, at : {"recheck", "sent", "store", "signal"}]
    BY <1>7, <2>1, AtTypes DEF MetadataMalformed
  <2>. QED  BY <1>0, <1>7, <2>2, <2>3 DEF TypeOK, MetadataMalformed, history
<1>8. ASSUME NEW m \in Metadata, MetadataArrives(m) PROVE TypeOK'
  <2>1. block.caller \in Callers /\ Env \in Environments
    BY <1>0, <1>8, Caller DEF MetadataArrives, Working
  <2>2. \A i \in DOMAIN m : /\ m[i].networkHost \in Environments \cup {NIL}
                           /\ m[i].aliases \in Seq(Environments)
    BY MetadataEntries
  <2>3. todo' \in Seq(Pending)
    <3>1. DOMAIN m = 1..Len(m) /\ Len(m) \in Nat
      BY MetadataEntries
    <3>2. \A i \in DOMAIN m : [left |-> m[i].aliases, rec |-> ValidRecord(m[i])]
                                 \in Pending
      BY <2>2, RecordFacts DEF Pending
    <3>. QED  BY <1>8, <3>1, <3>2 DEF MetadataArrives, Writes
  <2>4. cloud' \subseteq Environments
    BY <1>8, <2>2 DEF MetadataArrives, NetworkHosts
  <2>5. settled' \subseteq Environments /\ vouched' \subseteq Environments
    BY <1>0, <1>8, <2>1, <2>2 DEF MetadataArrives, TypeOK, ToSet
  <2>6. block' \in [caller : Callers, at : {"recheck", "sent", "store", "signal"}]
    BY <1>8, <2>1, AtTypes DEF MetadataArrives
  <2>. QED  BY <1>0, <1>8, <2>3, <2>4, <2>5, <2>6 DEF TypeOK, MetadataArrives, Pending
<1>9. CASE StoreAlias
  <2>1. todo[1] \in Pending /\ 1 \in 1..Len(todo) /\ todo \in Seq(Pending)
    BY <1>0, <1>9, SequenceTypes, EmptySeq, ElementOfSeq DEF StoreAlias
  <2>2. Head(todo[1].left) \in Environments /\ Tail(todo[1].left) \in Seq(Environments)
    BY <1>9, <2>1, HeadTailProperties DEF StoreAlias, Pending
  <2>3. cache' \in [Environments -> Records \cup {NIL}]
    BY <1>0, <1>9, <2>1, <2>2 DEF TypeOK, StoreAlias, Pending
  <2>4. todo' \in Seq(Pending)
    <3>1. [todo[1] EXCEPT !.left = Tail(@)] \in Pending
      BY <2>1, <2>2 DEF Pending
    <3>2. todo' = [todo EXCEPT ![1] = [todo[1] EXCEPT !.left = Tail(@)]]
      BY <1>9 DEF StoreAlias
    <3>. QED  BY <2>1, <3>1, <3>2, ExceptSeq
  <2>. QED  BY <1>0, <1>9, <2>3, <2>4 DEF TypeOK, StoreAlias, history, Pending
<1>10. CASE EntryStored
  <2>1. todo' \in Seq(Pending)
    BY <1>0, <1>10, SequenceTypes, HeadTailProperties DEF EntryStored
  <2>. QED  BY <1>0, <1>10, <2>1 DEF TypeOK, EntryStored, history, Pending
<1>11. CASE StoreOwn
  <2>1. block.caller \in Callers /\ Env \in Environments
    BY <1>0, <1>11, Caller DEF StoreOwn, Working
  <2>2. cache' \in [Environments -> Records \cup {NIL}]
    BY <1>0, <1>11, <2>1, RecordFacts DEF TypeOK, StoreOwn
  <2>3. /\ pc' \in [Callers -> {"idle", "waiting", "done"}]
        /\ result' \in [Callers -> Results \cup {NIL}]
    BY <1>0, <1>11, <2>1, Completes DEF StoreOwn
  <2>4. block' \in [caller : Callers, at : {"recheck", "sent", "store", "signal"}]
    BY <1>11, <2>1, AtTypes DEF StoreOwn
  <2>. QED  BY <1>0, <1>11, <2>2, <2>3, <2>4 DEF TypeOK, StoreOwn, history
<1>12. CASE Signal
  BY <1>0, <1>12 DEF TypeOK, Signal, history
<1>. QED  BY <1>1, <1>2, <1>3, <1>4, <1>5, <1>6, <1>7, <1>8, <1>9, <1>10, <1>11, <1>12
          DEF Next, Block, Resolve

-----------------------------------------------------------------------------
(* A caller waits for its block *)

LEMMA QueueCallers == ASSUME TypeOK, NEW i \in 1..Len(queue) PROVE queue[i].caller \in Callers
<1>1. queue[i] \in Asks
  BY SequenceTypes, ElementOfSeq
<1>. QED  BY <1>1 DEF Asks

\* A block that completes its caller leaves the others waiting.
LEMMA CompletionWaits ==
    ASSUME TypeOK, Waits, Working, NEW endpoint \in BOOLEAN, NEW validated \in BOOLEAN,
           NEW error \in BOOLEAN, Complete(block.caller, endpoint, validated, error),
           block'.at = "signal", UNCHANGED <<queue, asked>>
    PROVE  Waits'
<1>1. block.caller \in Callers
  BY Caller
<1>2. /\ pc'[block.caller] = "done"
      /\ \A d \in Callers : d # block.caller => pc'[d] = pc[d]
  BY <1>1, Completes
<1>3. \A i \in 1..Len(queue) : queue[i].caller \in Callers
  BY QueueCallers
<1>4. ~Working'
  BY DEF Working
<1>. QED  BY <1>1, <1>2, <1>3, <1>4 DEF Waits

\* A block that goes on, or ends, leaves its caller waiting.
LEMMA BlockWaits ==
    ASSUME Waits, UNCHANGED <<queue, asked, pc>>, Working' => Working /\ block'.caller = block.caller
    PROVE  Waits'
  BY DEF Waits, Working

LEMMA NextWaits == ASSUME IInv, Next PROVE Waits'
<1>0. TypeOK /\ Waits
  BY DEF IInv
<1>1. ASSUME NEW c \in Callers, NEW env \in Environments, NEW validate \in BOOLEAN,
             ResolveFromCache(c, env, validate)
      PROVE  Waits'
  <2>1. cache[env].validated \in BOOLEAN /\ cache[env].error \in BOOLEAN
    BY <1>0, <1>1, RecordFacts DEF TypeOK, ResolveFromCache
  <2>2. pc'[c] = "done" /\ \A d \in Callers : d # c => pc'[d] = pc[d]
    BY <1>0, <1>1, <2>1, Completes DEF ResolveFromCache, HandleRecord
  <2>3. pc[c] # "waiting" /\ UNCHANGED <<queue, block>>
        /\ \A d \in Callers : d # c => asked'[d] = asked[d]
    BY <1>0, <1>1 DEF ResolveFromCache, TypeOK
  <2>4. \A i \in 1..Len(queue) : queue[i].caller \in Callers
    BY <1>0, QueueCallers
  <2>. QED  BY <1>0, <2>2, <2>3, <2>4 DEF Waits, Working
<1>2. ASSUME NEW c \in Callers, NEW env \in Environments, NEW validate \in BOOLEAN,
             ResolveLater(c, env, validate)
      PROVE  Waits'
  <2> DEFINE ask == [caller |-> c, env |-> env, validate |-> validate]
  <2>1. /\ Len(queue') = Len(queue) + 1 /\ queue'[Len(queue) + 1].caller = c
        /\ \A i \in 1..Len(queue) : queue'[i] = queue[i]
        /\ Len(queue) \in Nat
    <3>1. ask \in Asks
      BY DEF Asks
    <3>. QED  BY <1>0, <1>2, <3>1, SequenceTypes, AppendProperties, LenProperties DEF ResolveLater
  <2>2. /\ pc'[c] = "waiting" /\ \A d \in Callers : d # c => pc'[d] = pc[d]
        /\ asked'[c] \in Questions /\ \A d \in Callers : d # c => asked'[d] = asked[d]
        /\ pc[c] # "waiting" /\ UNCHANGED block
    BY <1>0, <1>2 DEF ResolveLater, TypeOK, Questions
  <2>3. \A i \in 1..Len(queue) : queue[i].caller \in Callers /\ queue[i].caller # c
    BY <1>0, <2>2, QueueCallers DEF Waits
  <2>4. \A i \in 1..Len(queue') : i \in 1..Len(queue) \/ i = Len(queue) + 1
    BY <2>1
  <2>5. \A i \in 1..Len(queue') :
           /\ pc'[queue'[i].caller] = "waiting"
           /\ Working => queue'[i].caller # block.caller
    BY <1>0, <2>1, <2>2, <2>3, <2>4 DEF Waits
  <2>6. \A i, j \in 1..Len(queue') : i # j => queue'[i].caller # queue'[j].caller
    BY <1>0, <2>1, <2>3, <2>4 DEF Waits
  <2>. QED  BY <1>0, <2>2, <2>5, <2>6 DEF Waits, Working
<1>3. CASE StartBlock
  <2>1. /\ queue \in Seq(Asks) /\ queue # <<>> /\ queue' = Tail(queue)
        /\ Len(queue) \in Nat \ {0}
    BY <1>0, <1>3, SequenceTypes, EmptySeq DEF StartBlock
  <2>2. Len(queue') = Len(queue) - 1 /\ \A i \in 1..Len(queue') : queue'[i] = queue[i + 1]
    BY <2>1, HeadTailProperties
  <2>3. \A i \in 1..Len(queue') : i + 1 \in 1..Len(queue) /\ i + 1 # 1
    BY <2>1, <2>2
  <2>4. 1 \in 1..Len(queue) /\ Head(queue) = queue[1] /\ Head(queue).caller \in Callers
    <3>1. 1 \in 1..Len(queue) /\ Head(queue) = queue[1]
      BY <2>1
    <3>. QED  BY <1>0, <3>1, QueueCallers
  <2>5. block'.caller = Head(queue).caller /\ UNCHANGED <<pc, asked>>
    BY <1>3 DEF StartBlock, At
  <2>6. \A i \in 1..Len(queue') :
           /\ pc[queue'[i].caller] = "waiting"
           /\ queue'[i].caller # Head(queue).caller
    BY <1>0, <2>2, <2>3, <2>4 DEF Waits
  <2>7. \A i, j \in 1..Len(queue') : i # j => queue'[i].caller # queue'[j].caller
    <3>1. SUFFICES ASSUME NEW i \in 1..Len(queue'), NEW j \in 1..Len(queue'), i # j
                   PROVE  queue[i + 1].caller # queue[j + 1].caller
      BY <2>2
    <3>2. i + 1 # j + 1
      BY <2>1, <2>2, <3>1
    <3>. QED  BY <1>0, <2>3, <3>2 DEF Waits
  <2>. QED  BY <1>0, <2>4, <2>5, <2>6, <2>7 DEF Waits, Working
<1>4. CASE RecheckHit
  <2>1. Working /\ Env \in Environments
    BY <1>0, <1>4, Caller DEF RecheckHit, Working
  <2>2. cache[Env].validated \in BOOLEAN /\ cache[Env].error \in BOOLEAN
    BY <1>0, <1>4, <2>1, RecordFacts DEF TypeOK, RecheckHit
  <2>. QED  BY <1>0, <1>4, <2>1, <2>2, CompletionWaits DEF RecheckHit, HandleRecord, At
<1>5. CASE SendDiscovery
  BY <1>0, <1>5, BlockWaits DEF SendDiscovery, At, Working
<1>6. ASSUME NEW invalidInstance \in BOOLEAN, DiscoveryFails(invalidInstance) PROVE Waits'
  <2>1. Working /\ asked[block.caller].validate \in BOOLEAN
    BY <1>0, <1>6, Caller DEF DiscoveryFails, Working, Questions
  <2>. QED  BY <1>0, <1>6, <2>1, CompletionWaits DEF DiscoveryFails, At
<1>7. CASE MetadataMalformed
  BY <1>0, <1>7, CompletionWaits DEF MetadataMalformed, At, Working
<1>8. ASSUME NEW m \in Metadata, MetadataArrives(m) PROVE Waits'
  BY <1>0, <1>8, BlockWaits DEF MetadataArrives, At, Working
<1>9. CASE StoreAlias
  BY <1>0, <1>9, BlockWaits DEF StoreAlias, Working
<1>10. CASE EntryStored
  BY <1>0, <1>10, BlockWaits DEF EntryStored, Working
<1>11. CASE StoreOwn
  BY <1>0, <1>11, CompletionWaits DEF StoreOwn, At, Working
<1>12. CASE Signal
  BY <1>0, <1>12, BlockWaits DEF Signal, Idle, Working
<1>. QED  BY <1>1, <1>2, <1>3, <1>4, <1>5, <1>6, <1>7, <1>8, <1>9, <1>10, <1>11, <1>12
          DEF Next, Block, Resolve

-----------------------------------------------------------------------------
(* What is reported was accepted, and what was answered is kept *)

\* The block reports on the environment its caller asked about.
LEMMA CompletionVouched ==
    ASSUME TypeOK, Waits, NoFalseValidation, Working,
           NEW endpoint \in BOOLEAN, NEW validated \in BOOLEAN, NEW error \in BOOLEAN,
           Complete(block.caller, endpoint, validated, error), asked' = asked,
           vouched' = vouched, validated => Env \in vouched
    PROVE  NoFalseValidation'
<1>1. block.caller \in Callers
  BY Caller
<1>2. /\ result'[block.caller].validated = validated
      /\ \A d \in Callers : d # block.caller => result'[d] = result[d]
  BY <1>1, Completes
<1>. QED  BY <1>1, <1>2 DEF NoFalseValidation, Env

LEMMA NextVouched == ASSUME IInv, Next PROVE Vouched'
<1>0. TypeOK /\ Waits /\ Vouched /\ NoFalseValidation
  BY DEF IInv, Vouched
<1>1. ASSUME NEW c \in Callers, NEW env \in Environments, NEW validate \in BOOLEAN,
             ResolveFromCache(c, env, validate)
      PROVE  Vouched'
  <2>1. cache[env].validated \in BOOLEAN /\ cache[env].error \in BOOLEAN /\ cache[env] # NIL
    BY <1>0, <1>1, RecordFacts DEF TypeOK, ResolveFromCache
  <2>2. /\ result'[c].validated = cache[env].validated
        /\ \A d \in Callers : d # c => result'[d] = result[d]
    BY <1>0, <1>1, <2>1, Completes DEF ResolveFromCache, HandleRecord
  <2>3. /\ asked'[c].env = env /\ \A d \in Callers : d # c => asked'[d] = asked[d]
        /\ UNCHANGED <<cache, cloud, queue, block, todo, settled, vouched>> /\ pc[c] # "waiting"
    BY <1>0, <1>1 DEF ResolveFromCache, TypeOK, history
  <2>4. NoFalseValidation'
    BY <1>0, <2>1, <2>2, <2>3 DEF Vouched, NoFalseValidation
  <2>5. block.at = "store" => asked'[block.caller] = asked[block.caller]
    BY <1>0, <2>3 DEF Waits, Working
  <2>. QED  BY <1>0, <2>3, <2>4, <2>5 DEF Vouched, Env
<1>2. ASSUME NEW c \in Callers, NEW env \in Environments, NEW validate \in BOOLEAN,
             ResolveLater(c, env, validate)
      PROVE  Vouched'
  <2>1. /\ result'[c] = NIL /\ \A d \in Callers : d # c => result'[d] = result[d] /\ asked'[d] = asked[d]
        /\ UNCHANGED <<cache, cloud, block, todo, settled, vouched>> /\ pc[c] # "waiting"
    BY <1>0, <1>2 DEF ResolveLater, TypeOK, history
  <2>2. NoFalseValidation'
    BY <1>0, <2>1 DEF NoFalseValidation
  <2>3. block.at = "store" => asked'[block.caller] = asked[block.caller]
    BY <1>0, <2>1 DEF Waits, Working
  <2>. QED  BY <1>0, <2>1, <2>2, <2>3 DEF Vouched, Env
<1>3. CASE StartBlock
  BY <1>0, <1>3 DEF StartBlock, At, Vouched, NoFalseValidation, history
<1>4. CASE RecheckHit
  <2>1. Working /\ Env \in Environments
    BY <1>0, <1>4, Caller DEF RecheckHit, Working
  <2>2. cache[Env].validated \in BOOLEAN /\ cache[Env].error \in BOOLEAN /\ cache[Env] # NIL
    BY <1>0, <1>4, <2>1, RecordFacts DEF TypeOK, RecheckHit
  <2>3. NoFalseValidation'
    BY <1>0, <1>4, <2>1, <2>2, CompletionVouched DEF RecheckHit, HandleRecord, Vouched, history
  <2>. QED  BY <1>0, <1>4, <2>3 DEF RecheckHit, At, Vouched, history
<1>5. CASE SendDiscovery
  BY <1>0, <1>5 DEF SendDiscovery, At, Vouched, NoFalseValidation, history
<1>6. ASSUME NEW invalidInstance \in BOOLEAN, DiscoveryFails(invalidInstance) PROVE Vouched'
  <2>1. Working /\ asked[block.caller].validate \in BOOLEAN /\ Env \in Environments
    BY <1>0, <1>6, Caller DEF DiscoveryFails, Working, Questions
  <2>2. NoFalseValidation'
    BY <1>0, <1>6, <2>1, CompletionVouched DEF DiscoveryFails
  <2>3. \A env \in Environments : cache'[env] = cache[env] \/ cache'[env] = InvalidRecord
    BY <1>0, <1>6, <2>1 DEF DiscoveryFails, TypeOK
  <2>. QED  BY <1>0, <1>6, <2>2, <2>3, RecordFacts DEF DiscoveryFails, At, Vouched
<1>7. CASE MetadataMalformed
  <2>1. NoFalseValidation'
    BY <1>0, <1>7, CompletionVouched DEF MetadataMalformed, Working, history
  <2>. QED  BY <1>0, <1>7, <2>1 DEF MetadataMalformed, At, Vouched, history
<1>8. ASSUME NEW m \in Metadata, MetadataArrives(m) PROVE Vouched'
  <2>1. /\ vouched \subseteq vouched' /\ Env \in vouched'
        /\ \A i \in DOMAIN m : ToSet(m[i].aliases) \subseteq vouched'
    BY <1>8 DEF MetadataArrives
  <2>2. UNCHANGED <<cache, asked, result>> /\ Env' = Env
    BY <1>8 DEF MetadataArrives, At, Env
  <2>3. \A i \in 1..Len(todo') : \A j \in 1..Len(todo'[i].left) : todo'[i].left[j] \in vouched'
    <3>1. SUFFICES ASSUME NEW i \in 1..Len(todo'), NEW j \in 1..Len(todo'[i].left)
                   PROVE  todo'[i].left[j] \in vouched'
      OBVIOUS
    <3>2. todo' = [k \in 1..Len(m) |-> [left |-> m[k].aliases, rec |-> ValidRecord(m[k])]]
          /\ Len(m) \in Nat /\ DOMAIN m = 1..Len(m)
      BY <1>8, MetadataEntries DEF MetadataArrives, Writes
    <3>3. Len(todo') = Len(m)
      BY <3>2
    <3>4. i \in DOMAIN m /\ todo'[i].left = m[i].aliases
      BY <3>1, <3>2, <3>3
    <3>5. m[i].aliases \in Seq(Environments)
      BY <3>4, MetadataEntries
    <3>6. m[i].aliases[j] \in ToSet(m[i].aliases)
      BY <3>1, <3>4, <3>5 DEF ToSet
    <3>. QED  BY <2>1, <3>4, <3>6
  <2>. QED  BY <1>0, <2>1, <2>2, <2>3 DEF Vouched, NoFalseValidation
<1>9. CASE StoreAlias
  <2>1. todo[1] \in Pending /\ 1 \in 1..Len(todo) /\ todo \in Seq(Pending)
    BY <1>0, <1>9, SequenceTypes, EmptySeq, ElementOfSeq DEF StoreAlias
  <2> DEFINE left == todo[1].left
  <2>2. left \in Seq(Environments) /\ left # <<>> /\ Len(left) \in Nat \ {0}
    BY <1>9, <2>1, EmptySeq DEF StoreAlias, Pending
  <2>3. /\ Len(Tail(left)) = Len(left) - 1
        /\ \A j \in 1..Len(Tail(left)) : Tail(left)[j] = left[j + 1]
        /\ Head(left) = left[1] /\ Head(left) \in Environments
    <3> HIDE DEF left
    <3>. QED  BY <2>2, HeadTailProperties
  <2>4. \A j \in 1..Len(left) : left[j] \in vouched
    BY <1>0, <2>1 DEF Vouched
  <2>5. /\ cache' = [cache EXCEPT ![Head(left)] = todo[1].rec]
        /\ todo' = [todo EXCEPT ![1] = [todo[1] EXCEPT !.left = Tail(left)]]
        /\ UNCHANGED <<block, asked, result, vouched>>
    BY <1>9 DEF StoreAlias, history
  <2>6. [todo[1] EXCEPT !.left = Tail(left)].left = Tail(left)
        /\ [todo[1] EXCEPT !.left = Tail(left)] \in Pending
    <3>1. Tail(left) \in Seq(Environments)
      BY <2>2, HeadTailProperties
    <3>. QED  BY <2>1, <3>1 DEF Pending
  <2> HIDE DEF left
  <2>7. Len(todo') = Len(todo) /\ todo'[1].left = Tail(left)
        /\ \A i \in 1..Len(todo) : i # 1 => todo'[i] = todo[i]
    BY <2>1, <2>5, <2>6, ExceptSeq
  <2>8. \A j \in 1..Len(Tail(left)) : Tail(left)[j] \in vouched
    BY <2>2, <2>3, <2>4
  <2>9. \A i \in 1..Len(todo') : \A j \in 1..Len(todo'[i].left) : todo'[i].left[j] \in vouched
    BY <1>0, <2>7, <2>8 DEF Vouched
  <2>10. Head(left) \in vouched
    BY <2>2, <2>3, <2>4
  <2>11. \A env \in Environments : env # Head(left) => cache'[env] = cache[env]
    BY <1>0, <2>5 DEF TypeOK
  <2>. QED  BY <1>0, <2>5, <2>9, <2>10, <2>11 DEF Vouched, NoFalseValidation, Env
<1>10. CASE EntryStored
  <2>1. /\ todo \in Seq(Pending) /\ todo # <<>> /\ Len(todo) \in Nat \ {0} /\ todo' = Tail(todo)
    BY <1>0, <1>10, SequenceTypes, EmptySeq DEF EntryStored
  <2>2. Len(todo') = Len(todo) - 1 /\ \A i \in 1..Len(todo') : todo'[i] = todo[i + 1]
    BY <2>1, HeadTailProperties
  <2>3. \A i \in 1..Len(todo') : i + 1 \in 1..Len(todo)
    BY <2>1, <2>2
  <2>4. \A i \in 1..Len(todo') : \A j \in 1..Len(todo'[i].left) : todo'[i].left[j] \in vouched
    BY <1>0, <2>2, <2>3 DEF Vouched
  <2>. QED  BY <1>0, <1>10, <2>4 DEF EntryStored, Vouched, NoFalseValidation, Env, history
<1>11. CASE StoreOwn
  <2>1. Working /\ Env \in Environments /\ Env \in vouched
    BY <1>0, <1>11, Caller DEF StoreOwn, Working, Vouched
  <2>2. NoFalseValidation'
    BY <1>0, <1>11, <2>1, CompletionVouched DEF StoreOwn, history
  <2>3. \A env \in Environments : env # Env => cache'[env] = cache[env]
    BY <1>0, <1>11, <2>1 DEF StoreOwn, TypeOK
  <2>. QED  BY <1>0, <1>11, <2>1, <2>2, <2>3 DEF StoreOwn, At, Vouched, history
<1>12. CASE Signal
  BY <1>0, <1>12 DEF Signal, Idle, Vouched, NoFalseValidation, history
<1>. QED  BY <1>1, <1>2, <1>3, <1>4, <1>5, <1>6, <1>7, <1>8, <1>9, <1>10, <1>11, <1>12
          DEF Next, Block, Resolve

LEMMA NextSettled == ASSUME IInv, Next PROVE Settled'
<1>0. TypeOK /\ Waits /\ Settled /\ settled \subseteq Environments
  BY DEF IInv, TypeOK
<1>1. ASSUME NEW c \in Callers, NEW env \in Environments, NEW validate \in BOOLEAN,
             ResolveFromCache(c, env, validate) \/ ResolveLater(c, env, validate)
      PROVE  Settled'
  <2>1. /\ \A d \in Callers : d # c => asked'[d] = asked[d]
        /\ UNCHANGED <<cache, block, settled>> /\ pc[c] # "waiting"
    BY <1>0, <1>1 DEF ResolveFromCache, ResolveLater, TypeOK, history
  <2>2. block.at = "store" => asked'[block.caller] = asked[block.caller]
    BY <1>0, <2>1 DEF Waits, Working
  <2>. QED  BY <1>0, <2>1, <2>2 DEF Settled, Env
<1>2. CASE StartBlock
  BY <1>0, <1>2 DEF StartBlock, Settled, Idle, history
<1>3. CASE RecheckHit \/ SendDiscovery \/ MetadataMalformed
  BY <1>0, <1>3 DEF RecheckHit, SendDiscovery, MetadataMalformed, Settled, history
<1>4. ASSUME NEW invalidInstance \in BOOLEAN, DiscoveryFails(invalidInstance) PROVE Settled'
  <2>1. Env \in Environments
    BY <1>0, <1>4, Caller DEF DiscoveryFails, Working
  <2>2. /\ invalidInstance => cache'[Env] # NIL /\ settled' = settled \cup {Env}
        /\ \A env \in Environments : env # Env => cache'[env] = cache[env]
        /\ ~invalidInstance => UNCHANGED <<cache, settled>>
    BY <1>0, <1>4, <2>1, RecordFacts DEF DiscoveryFails, TypeOK
  <2>. QED  BY <1>0, <1>4, <2>2 DEF DiscoveryFails, Settled
<1>5. ASSUME NEW m \in Metadata, MetadataArrives(m) PROVE Settled'
  BY <1>0, <1>5 DEF MetadataArrives, At, Settled, Env
<1>6. CASE StoreAlias
  <2>1. todo[1].rec \in Records
    <3>1. todo[1] \in Pending
      BY <1>0, <1>6, SequenceTypes, EmptySeq, ElementOfSeq DEF StoreAlias
    <3>. QED  BY <3>1 DEF Pending
  <2>2. \A env \in Environments : cache[env] # NIL => cache'[env] # NIL
    BY <1>0, <1>6, <2>1, RecordFacts DEF StoreAlias, TypeOK
  <2>. QED  BY <1>0, <1>6, <2>2 DEF StoreAlias, Settled, Env, history
<1>7. CASE EntryStored
  BY <1>0, <1>7 DEF EntryStored, Settled, Env, history
<1>8. CASE StoreOwn
  <2>1. Env \in Environments
    BY <1>0, <1>8, Caller DEF StoreOwn, Working
  <2>2. cache'[Env] # NIL /\ \A env \in Environments : env # Env => cache'[env] = cache[env]
    BY <1>0, <1>8, <2>1, RecordFacts DEF StoreOwn, TypeOK
  <2>. QED  BY <1>0, <1>8, <2>2 DEF StoreOwn, Settled, history
<1>9. CASE Signal
  BY <1>0, <1>9 DEF Signal, Settled, history
<1>. QED  BY <1>1, <1>2, <1>3, <1>4, <1>5, <1>6, <1>7, <1>8, <1>9 DEF Next, Block, Resolve

-----------------------------------------------------------------------------
(* The theorems *)

LEMMA Initially == Init => IInv
<1> SUFFICES ASSUME Init PROVE IInv
  OBVIOUS
<1>1. TypeOK
  BY DEF Init, TypeOK, Idle
<1>2. Waits
  BY DEF Init, Waits, Working, Idle
<1>3. Vouched /\ Settled
  BY DEF Init, Vouched, NoFalseValidation, Settled, Idle
<1>. QED  BY <1>1, <1>2, <1>3 DEF IInv

LEMMA NextKeeps == IInv /\ [Next]_vars => IInv'
<1>1. ASSUME IInv, Next PROVE IInv'
  BY <1>1, NextTypes, NextWaits, NextVouched, NextSettled DEF IInv
<1>2. ASSUME IInv, UNCHANGED vars PROVE IInv'
  BY <1>2 DEF IInv, TypeOK, Waits, Working, Vouched, NoFalseValidation, Settled, Env, vars, history
<1>. QED  BY <1>1, <1>2

LEMMA Inductive == Spec => []IInv
  BY Initially, NextKeeps, PTL DEF Spec

\* The state keeps to its types, whatever metadata arrives: what is stored are records of
\* entries, of the authority itself, or of an invalid instance.
THEOREM TypeCorrect == Spec => []TypeOK
<1>1. IInv => TypeOK
  BY DEF IInv
<1>. QED  BY <1>1, Inductive, PTL

\* handleRecord: and processImpl: report as validated only what the server has accepted,
\* for any number of callers and any order of their blocks and the others' lookups.
THEOREM ValidatedWasAccepted == Spec => []NoFalseValidation
<1>1. IInv => NoFalseValidation
  BY DEF IInv, Vouched
<1>. QED  BY <1>1, Inductive, PTL

\* The second look at the cache is enough: no discovery request is sent for an authority
\* that the server has answered for.
THEOREM AnsweredIsNotAskedAgain == Spec => NoRepeatedDiscovery
<1>1. ASSUME IInv, SendDiscovery PROVE Env \notin settled
  BY <1>1 DEF IInv, Settled, SendDiscovery
<1>. QED  BY <1>1, Inductive, PTL DEF NoRepeatedDiscovery

-----------------------------------------------------------------------------
(***************************************************************************)
(* The aliases of a record share it, if the responses agree about who      *)
(* belongs together: processImpl stores what the server says alias by      *)
(* alias, so entries that overlap and differ would leave the last one      *)
(* written to some aliases of both.                                        *)
(***************************************************************************)
Consistent ==
    \A m, n \in Metadata : \A i \in DOMAIN m, j \in DOMAIN n :
        ToSet(m[i].aliases) \cap ToSet(n[j].aliases) # {} => m[i] = n[j]

\* The block that stores the answer will give alias a this record.
Due(a, rec) ==
    block.at = "store" /\ \E i \in 1..Len(todo) : todo[i].rec = rec /\ a \in ToSet(todo[i].left)

\* The environment of a request that is under way is not in the cache.
Unknown == block.at = "sent" => cache[Env] = NIL

\* An alias of an entry being stored has its record already, or is still left.
Halfway ==
    block.at = "store" =>
        \A i \in 1..Len(todo) :
            /\ ToSet(todo[i].left) \subseteq ToSet(todo[i].rec.aliases)
            /\ \A a \in ToSet(todo[i].rec.aliases) :
                  a \in ToSet(todo[i].left) \/ cache[a] = todo[i].rec

Shared ==
    \A env \in Environments : cache[env] # NIL =>
        \A a \in ToSet(cache[env].aliases) : cache[a] = cache[env] \/ Due(a, cache[env])

Sharing == Unknown /\ Halfway /\ Shared

LEMMA RecordAliases ==
    /\ \A rec \in Records : ToSet(rec.aliases) \subseteq Environments
    /\ InvalidRecord.aliases = <<>>
    /\ \A env \in Environments : DefaultRecord(env).aliases = <<>>
<1>1. InvalidRecord.aliases = <<>> /\ \A env \in Environments : DefaultRecord(env).aliases = <<>>
  BY DEF InvalidRecord, DefaultRecord
<1>2. ASSUME NEW m \in Metadata, NEW i \in DOMAIN m
      PROVE  ToSet(ValidRecord(m[i]).aliases) \subseteq Environments
  <2>1. m[i].aliases \in Seq(Environments) /\ ValidRecord(m[i]).aliases = m[i].aliases
    BY MetadataEntries DEF ValidRecord
  <2>. QED  BY <2>1 DEF ToSet
<1>3. ToSet(<<>>) = {}
  BY DEF ToSet
<1>. QED  BY <1>1, <1>2, <1>3 DEF Records

\* If the responses agree, a host is an alias of one record.
LEMMA RecordsAgree ==
    ASSUME Consistent, NEW q \in Records, NEW r \in Records,
           NEW h \in ToSet(q.aliases), h \in ToSet(r.aliases)
    PROVE  q = r
<1>1. ToSet(<<>>) = {}
  BY DEF ToSet
<1>2. ASSUME NEW rec \in Records, ToSet(rec.aliases) # {}
      PROVE  \E m \in Metadata : \E i \in DOMAIN m :
                rec = ValidRecord(m[i]) /\ rec.aliases = m[i].aliases
  BY <1>1, <1>2, RecordAliases DEF Records, ValidRecord
<1>3. PICK m \in Metadata : \E i \in DOMAIN m : q = ValidRecord(m[i]) /\ q.aliases = m[i].aliases
  BY <1>2
<1>4. PICK i \in DOMAIN m : q = ValidRecord(m[i]) /\ q.aliases = m[i].aliases
  BY <1>3
<1>5. PICK n \in Metadata : \E j \in DOMAIN n : r = ValidRecord(n[j]) /\ r.aliases = n[j].aliases
  BY <1>2
<1>6. PICK j \in DOMAIN n : r = ValidRecord(n[j]) /\ r.aliases = n[j].aliases
  BY <1>5
<1>7. m[i] = n[j]
  BY <1>4, <1>6 DEF Consistent
<1>. QED  BY <1>4, <1>6, <1>7

\* What does not touch the cache or the storing.
LEMMA SharingKept ==
    ASSUME Halfway, Shared, UNCHANGED <<cache, todo>>, block'.at = "store" <=> block.at = "store"
    PROVE  Halfway' /\ Shared'
  BY DEF Halfway, Shared, Due

\* Nobody's alias gets a record of its own.
LEMMA UnknownStored ==
    ASSUME TypeOK, Shared, NEW env \in Environments, NEW rec \in Records, rec.aliases = <<>>,
           cache[env] = NIL, cache' = [cache EXCEPT ![env] = rec],
           \A a, r : ~Due(a, r)
    PROVE  Shared'
<1> SUFFICES ASSUME NEW e \in Environments, cache'[e] # NIL, NEW a \in ToSet(cache'[e].aliases)
             PROVE  cache'[a] = cache'[e]
  BY DEF Shared
<1>1. e # env
  BY RecordFacts DEF TypeOK, ToSet
<1>2. cache'[e] = cache[e] /\ cache[e] \in Records
  BY <1>1 DEF TypeOK
<1>3. cache[a] = cache[e] /\ a \in Environments
  BY <1>2, RecordAliases DEF Shared
<1>. QED  BY <1>2, <1>3 DEF TypeOK

LEMMA ArrivalShares ==
    ASSUME TypeOK, Shared, NEW m \in Metadata, MetadataArrives(m)
    PROVE  Sharing'
<1>1. todo' = [k \in 1..Len(m) |-> [left |-> m[k].aliases, rec |-> ValidRecord(m[k])]]
      /\ Len(m) \in Nat
  BY MetadataEntries DEF MetadataArrives, Writes
<1>2. Len(todo') = Len(m)
  BY <1>1
<1>3. block'.at = "store" /\ block.at = "sent" /\ cache' = cache
  BY DEF MetadataArrives, At
<1>4. \A k \in 1..Len(m) : todo'[k].left = todo'[k].rec.aliases
  BY <1>1 DEF ValidRecord
<1>. QED  BY <1>2, <1>3, <1>4 DEF Sharing, Unknown, Halfway, Shared, Due

LEMMA StoringShares ==
    ASSUME TypeOK, Consistent, Halfway, Shared, StoreAlias
    PROVE  Sharing'
<1> DEFINE left == todo[1].left
           rec == todo[1].rec
           h == Head(left)
<1>1. todo[1] \in Pending /\ 1 \in 1..Len(todo) /\ todo \in Seq(Pending)
  BY SequenceTypes, EmptySeq, ElementOfSeq DEF StoreAlias
<1>2. left \in Seq(Environments) /\ left # <<>> /\ rec \in Records
  BY <1>1 DEF StoreAlias, Pending
<1>3. h \in Environments /\ Tail(left) \in Seq(Environments)
      /\ ToSet(left) = {h} \cup ToSet(Tail(left))
  <2>1. /\ Len(Tail(left)) = Len(left) - 1 /\ Len(left) \in Nat \ {0}
        /\ \A j \in 1..Len(Tail(left)) : Tail(left)[j] = left[j + 1]
        /\ h = left[1] /\ h \in Environments /\ Tail(left) \in Seq(Environments)
    <3> HIDE DEF left
    <3>. QED  BY <1>2, HeadTailProperties, EmptySeq
  <2> HIDE DEF left, h
  <2>2. DOMAIN left = 1..Len(left) /\ DOMAIN Tail(left) = 1..Len(Tail(left))
    BY <1>2, <2>1
  <2>3. ASSUME NEW j \in 1..Len(left) PROVE left[j] = h \/ left[j] \in ToSet(Tail(left))
    <3>1. CASE j = 1
      BY <2>1, <3>1
    <3>2. CASE j # 1
      <4>1. j - 1 \in 1..Len(Tail(left)) /\ left[j] = Tail(left)[j - 1]
        BY <2>1, <3>2
      <4>. QED  BY <2>2, <4>1 DEF ToSet
    <3>. QED  BY <3>1, <3>2
  <2>4. ASSUME NEW j \in 1..Len(Tail(left)) PROVE Tail(left)[j] \in ToSet(left)
    BY <2>1, <2>2 DEF ToSet
  <2>5. h \in ToSet(left)
    BY <2>1, <2>2 DEF ToSet
  <2>. QED  BY <2>1, <2>2, <2>3, <2>4, <2>5 DEF ToSet
<1>4. cache' = [cache EXCEPT ![h] = rec]
      /\ todo' = [todo EXCEPT ![1] = [todo[1] EXCEPT !.left = Tail(left)]]
      /\ block' = block /\ block.at = "store"
  BY DEF StoreAlias
<1>5. /\ Len(todo') = Len(todo) /\ todo'[1].left = Tail(left) /\ todo'[1].rec = rec
      /\ \A i \in 1..Len(todo) : i # 1 => todo'[i] = todo[i]
  <2>1. [todo[1] EXCEPT !.left = Tail(left)] \in Pending
        /\ [todo[1] EXCEPT !.left = Tail(left)].left = Tail(left)
        /\ [todo[1] EXCEPT !.left = Tail(left)].rec = rec
    BY <1>1, <1>3 DEF Pending
  <2> HIDE DEF left, rec
  <2>. QED  BY <1>1, <1>4, <2>1, ExceptSeq
<1>6. \A i \in 1..Len(todo) : todo[i].rec \in Records
  <2>1. ASSUME NEW i \in 1..Len(todo) PROVE todo[i] \in Pending
    BY <1>1, ElementOfSeq
  <2>. QED  BY <2>1 DEF Pending
<1>7. h \in ToSet(rec.aliases)
  BY <1>1, <1>3, <1>4 DEF Halfway
<1> HIDE DEF left, rec, h
\* The record of an alias is replaced by the same one.
<1>8. ASSUME NEW r \in Records, NEW a \in ToSet(r.aliases), cache[a] = r PROVE cache'[a] = r
  <2>1. a \in Environments
    BY RecordAliases
  <2>2. CASE a = h
    BY <1>2, <1>4, <1>3, <1>7, <2>2, RecordsAgree DEF TypeOK
  <2>. QED  BY <1>4, <1>8, <2>1, <2>2 DEF TypeOK
<1>9. cache'[h] = rec /\ \A e \in Environments : e # h => cache'[e] = cache[e]
  BY <1>3, <1>4 DEF TypeOK
<1>10. ASSUME NEW i \in 1..Len(todo), NEW a \in ToSet(todo[i].left),
              a \in ToSet(todo[i].rec.aliases)
       PROVE  a \in ToSet(todo'[i].left) \/ cache'[a] = todo[i].rec
  <2>1. CASE i = 1
    BY <1>3, <1>5, <1>9, <1>10, <2>1 DEF left, rec
  <2>2. CASE i # 1
    BY <1>5, <2>2
  <2>. QED  BY <2>1, <2>2
<1>11. \A i \in 1..Len(todo) : todo'[i].rec = todo[i].rec
                               /\ ToSet(todo'[i].left) \subseteq ToSet(todo[i].left)
  BY <1>3, <1>5 DEF left, rec
<1>12. Halfway'
  <2>1. \A i \in 1..Len(todo) :
            /\ ToSet(todo[i].left) \subseteq ToSet(todo[i].rec.aliases)
            /\ \A a \in ToSet(todo[i].rec.aliases) :
                    a \in ToSet(todo[i].left) \/ cache[a] = todo[i].rec
    BY <1>4 DEF Halfway
  <2>2. ASSUME NEW i \in 1..Len(todo), NEW a \in ToSet(todo[i].rec.aliases)
        PROVE  a \in ToSet(todo'[i].left) \/ cache'[a] = todo[i].rec
    <3>1. CASE a \in ToSet(todo[i].left)
      BY <1>10, <2>2, <3>1
    <3>2. CASE cache[a] = todo[i].rec
      BY <1>6, <1>8, <2>2, <3>2
    <3>. QED  BY <2>1, <2>2, <3>1, <3>2
  <2>3. ASSUME NEW i \in 1..Len(todo)
        PROVE  /\ ToSet(todo'[i].left) \subseteq ToSet(todo'[i].rec.aliases)
               /\ \A a \in ToSet(todo'[i].rec.aliases) :
                       a \in ToSet(todo'[i].left) \/ cache'[a] = todo'[i].rec
    BY <1>11, <2>1, <2>2, <2>3
  <2>. QED  BY <1>5, <2>3 DEF Halfway
<1>13. ASSUME NEW e \in Environments, cache'[e] # NIL, NEW a \in ToSet(cache'[e].aliases)
       PROVE  cache'[a] = cache'[e] \/ Due(a, cache[e])'
  <2>1. CASE e = h
    <3>1. cache'[e] = rec /\ 1 \in 1..Len(todo') /\ todo'[1].rec = rec /\ block'.at = "store"
      BY <1>1, <1>4, <1>5, <1>9, <2>1
    <3>2. a \in ToSet(todo'[1].left) \/ cache'[a] = rec
      BY <1>12, <1>13, <3>1 DEF Halfway
    <3>. QED  BY <3>1, <3>2 DEF Due
  <2>2. CASE e # h
    <3>1. cache'[e] = cache[e] /\ cache[e] \in Records
      BY <1>9, <1>13, <2>2 DEF TypeOK
    <3>2. CASE cache[a] = cache[e]
      BY <1>8, <1>13, <3>1, <3>2
    <3>3. CASE Due(a, cache[e])
      <4>1. PICK i \in 1..Len(todo) : todo[i].rec = cache[e] /\ a \in ToSet(todo[i].left)
        BY <3>3 DEF Due
      <4>2. a \in ToSet(todo'[i].left) \/ cache'[a] = cache[e]
        BY <1>10, <1>13, <3>1, <4>1
      <4>3. i \in 1..Len(todo') /\ todo'[i].rec = cache'[e] /\ block'.at = "store"
        BY <1>4, <1>5, <1>11, <3>1, <4>1
      <4>. QED  BY <3>1, <4>2, <4>3 DEF Due
    <3>. QED  BY <1>13, <3>1, <3>2, <3>3 DEF Shared
  <2>. QED  BY <2>1, <2>2
<1>. QED  BY <1>4, <1>12, <1>13 DEF Sharing, Unknown, Shared

LEMMA EntryStoredShares ==
    ASSUME TypeOK, Halfway, Shared, EntryStored
    PROVE  Sharing'
<1>1. todo \in Seq(Pending) /\ todo # <<>> /\ Len(todo) \in Nat \ {0} /\ todo' = Tail(todo)
      /\ todo[1].left = <<>> /\ UNCHANGED <<cache, block>> /\ block.at = "store"
  BY SequenceTypes, EmptySeq DEF EntryStored
<1>2. Len(todo') = Len(todo) - 1 /\ \A i \in 1..Len(todo') : todo'[i] = todo[i + 1]
  BY <1>1, HeadTailProperties
<1>3. \A i \in 1..Len(todo') : i + 1 \in 1..Len(todo)
  BY <1>1, <1>2
<1>4. Halfway'
  BY <1>1, <1>2, <1>3 DEF Halfway
<1>5. ASSUME NEW a, NEW r, Due(a, r) PROVE Due(a, r)'
  <2>1. PICK i \in 1..Len(todo) : todo[i].rec = r /\ a \in ToSet(todo[i].left)
    BY <1>5 DEF Due
  <2>2. i # 1
    BY <1>1, <2>1 DEF ToSet
  <2>3. i - 1 \in 1..Len(todo') /\ todo'[i - 1] = todo[i]
    BY <1>1, <1>2, <2>2
  <2>. QED  BY <1>1, <2>1, <2>3 DEF Due
<1>. QED  BY <1>1, <1>4, <1>5 DEF Sharing, Unknown, Shared

LEMMA NextShares == ASSUME IInv, Consistent, Sharing, Next PROVE Sharing'
<1>0. TypeOK /\ Waits /\ Unknown /\ Halfway /\ Shared
  BY DEF IInv, Sharing
<1>1. ASSUME NEW c \in Callers, NEW env \in Environments, NEW validate \in BOOLEAN,
             ResolveFromCache(c, env, validate) \/ ResolveLater(c, env, validate)
      PROVE  Sharing'
  <2>1. /\ \A d \in Callers : d # c => asked'[d] = asked[d]
        /\ UNCHANGED <<cache, block, todo>> /\ pc[c] # "waiting"
    BY <1>0, <1>1 DEF ResolveFromCache, ResolveLater, TypeOK
  <2>2. block.at = "sent" => asked'[block.caller] = asked[block.caller]
    BY <1>0, <2>1 DEF Waits, Working
  <2>. QED  BY <1>0, <2>1, <2>2, SharingKept DEF Sharing, Unknown, Env
<1>2. CASE StartBlock
  BY <1>0, <1>2, SharingKept DEF StartBlock, At, Idle, Sharing, Unknown
<1>3. CASE RecheckHit \/ MetadataMalformed
  <2>1. block.at \in {"recheck", "sent"} /\ block'.at = "signal" /\ UNCHANGED <<cache, todo>>
    <3>1. CASE RecheckHit
      BY <3>1 DEF RecheckHit, At
    <3>2. CASE MetadataMalformed
      BY <3>2 DEF MetadataMalformed, At
    <3>. QED  BY <1>3, <3>1, <3>2
  <2>. QED  BY <1>0, <2>1, SharingKept DEF Sharing, Unknown
<1>4. CASE SendDiscovery
  BY <1>0, <1>4, SharingKept DEF SendDiscovery, At, Sharing, Unknown, Env
<1>5. ASSUME NEW invalidInstance \in BOOLEAN, DiscoveryFails(invalidInstance) PROVE Sharing'
  <2>1. Env \in Environments /\ cache[Env] = NIL
    BY <1>0, <1>5, Caller DEF DiscoveryFails, Working, Unknown
  <2>2. block.at = "sent" /\ block'.at = "signal" /\ todo' = todo
    BY <1>5 DEF DiscoveryFails, At
  <2>3. CASE invalidInstance
    <3>1. Shared'
      BY <1>0, <1>5, <2>1, <2>2, <2>3, UnknownStored, RecordFacts, RecordAliases
         DEF DiscoveryFails, Due
    <3>. QED  BY <2>2, <3>1 DEF Sharing, Unknown, Halfway
  <2>4. CASE ~invalidInstance
    BY <1>0, <1>5, <2>2, <2>4, SharingKept DEF DiscoveryFails, Sharing, Unknown
  <2>. QED  BY <2>3, <2>4
<1>6. ASSUME NEW m \in Metadata, MetadataArrives(m) PROVE Sharing'
  BY <1>0, <1>6, ArrivalShares
<1>7. CASE StoreAlias
  BY <1>0, <1>7, StoringShares
<1>8. CASE EntryStored
  BY <1>0, <1>8, EntryStoredShares
<1>9. CASE StoreOwn
  <2>1. Env \in Environments
    BY <1>0, <1>9, Caller DEF StoreOwn, Working
  <2>2. block.at = "store" /\ block'.at = "signal" /\ todo = <<>> /\ todo' = <<>>
    BY <1>9 DEF StoreOwn, At
  <2>3. \A a, r : ~Due(a, r)
    BY <2>2 DEF Due
  <2>4. CASE cache[Env] = NIL
    <3>1. Shared'
      BY <1>0, <1>9, <2>1, <2>3, <2>4, UnknownStored, RecordFacts, RecordAliases DEF StoreOwn
    <3>. QED  BY <2>2, <3>1 DEF Sharing, Unknown, Halfway
  <2>5. CASE cache[Env] # NIL
    <3>1. cache' = cache
      BY <1>9, <2>5 DEF StoreOwn
    <3>2. Shared'
      BY <1>0, <2>3, <3>1 DEF Shared
    <3>. QED  BY <2>2, <3>2 DEF Sharing, Unknown, Halfway
  <2>. QED  BY <2>4, <2>5
<1>10. CASE Signal
  BY <1>0, <1>10, SharingKept DEF Signal, Idle, Sharing, Unknown
<1>. QED  BY <1>1, <1>2, <1>3, <1>4, <1>5, <1>6, <1>7, <1>8, <1>9, <1>10
          DEF Next, Block, Resolve

LEMMA SharingInitially == Init => Sharing
  BY DEF Init, Idle, Sharing, Unknown, Halfway, Shared

\* While no block is storing an answer, every alias of a record has that record, so the token
\* cache looks under the same names from each of them: for any callers, environments and
\* metadata whose entries do not contradict each other (processImpl, cacheAliasesForAuthorityImpl).
THEOREM AliasesShareRecord == ASSUME Consistent PROVE Spec => []AliasesAgree
<1>1. Sharing /\ UNCHANGED vars => Sharing'
  BY DEF Sharing, Unknown, Halfway, Shared, Due, Env, vars
<1>2. IInv /\ Sharing /\ [Next]_vars => Sharing'
  BY <1>1, NextShares
<1>3. Sharing => AliasesAgree
  BY DEF Sharing, Shared, Due, AliasesAgree
<1>. QED  BY <1>2, <1>3, SharingInitially, Inductive, PTL DEF Spec

-----------------------------------------------------------------------------
(***************************************************************************)
(* The lookups of the token cache.  The loop over the aliases is a         *)
(* recursive function; what it collects is shown of the first n aliases by *)
(* taking the least n for which it fails.                                  *)
(***************************************************************************)

\* Every set of naturals has a least element.
LEMMA Least ==
    ASSUME NEW S \in SUBSET Nat, S # {}
    PROVE  \E m \in S : \A n \in S : m <= n
<1> DEFINE R == {p \in Nat \X Nat : p[1] < p[2]}
<1>1. IsWellFoundedOn(R, Nat)
  <2>1. OpToRel(<, Nat) = R
    BY DEF OpToRel
  <2>. QED  BY <2>1, NatLessThanWellFounded
<1>2. \E x \in S : \A y \in S : ~ (<<y, x>> \in R)
  <2> HIDE DEF R
  <2>. QED  BY <1>1, WFMin
<1>3. PICK x \in S : \A y \in S : ~ (<<y, x>> \in R)
  BY <1>2
<1>4. ASSUME NEW y \in S PROVE x <= y
  <2>1. ~ (<<y, x>> \in R) /\ x \in Nat /\ y \in Nat
    BY <1>3
  <2>2. ~ (y < x)
    BY <2>1
  <2>. QED  BY <2>1, <2>2
<1>. QED  BY <1>4

\* What the loop has collected after an alias, from what it had before.
Collected(aliases, skipped, before, i) ==
    IF aliases[i] \in skipped THEN before ELSE Append(before, aliases[i])

\* f holds what the loop has collected after each of the first n aliases.
Collects(f, aliases, skipped, n) ==
    /\ f[0] = <<>>
    /\ \A i \in 1..n : f[i] = Collected(aliases, skipped, f[i - 1], i)

LEMMA CollectsExists ==
    ASSUME NEW aliases \in Seq(Environments), NEW skipped
    PROVE  \E f \in [0..Len(aliases) -> Seq(Environments)] :
              Collects(f, aliases, skipped, Len(aliases))
<1> DEFINE N == Len(aliases)
           P(n) == \E f \in [0..n -> Seq(Environments)] : Collects(f, aliases, skipped, n)
           S == {n \in 0..N : ~P(n)}
<1>1. N \in Nat /\ \A i \in 1..N : aliases[i] \in Environments
  OBVIOUS
<1>2. P(0)
  <2>1. [i \in 0..0 |-> <<>>] \in [0..0 -> Seq(Environments)]
    OBVIOUS
  <2>2. Collects([i \in 0..0 |-> <<>>], aliases, skipped, 0)
    BY DEF Collects
  <2>. QED  BY <2>1, <2>2
<1>3. ASSUME NEW n \in 1..N, P(n - 1) PROVE P(n)
  <2>1. PICK f \in [0..n - 1 -> Seq(Environments)] : Collects(f, aliases, skipped, n - 1)
    BY <1>3
  <2> DEFINE e == Collected(aliases, skipped, f[n - 1], n)
             g == [i \in 0..n |-> IF i = n THEN e ELSE f[i]]
  <2>2. n \in Nat /\ n - 1 \in 0..n - 1 /\ n # 0 /\ 0 \in 0..n - 1
    BY <1>1
  <2>3. e \in Seq(Environments)
    BY <1>1, <2>2, AppendProperties DEF Collected
  <2>4. g \in [0..n -> Seq(Environments)]
    <3> HIDE DEF e
    <3>1. \A i \in 0..n : i # n => i \in 0..n - 1
      BY <2>2
    <3>. QED  BY <2>3, <3>1
  <2>5. g[0] = <<>>
    BY <2>1, <2>2 DEF Collects
  <2>6. ASSUME NEW i \in 1..n PROVE g[i] = Collected(aliases, skipped, g[i - 1], i)
    <3>1. i - 1 \in 0..n /\ i - 1 # n /\ g[i - 1] = f[i - 1]
      BY <2>2
    <3>2. CASE i = n
      BY <2>2, <3>1, <3>2
    <3>3. CASE i # n
      <4>1. i \in 1..n - 1 /\ i \in 0..n
        BY <2>2, <3>3
      <4>2. f[i] = Collected(aliases, skipped, f[i - 1], i)
        BY <2>1, <4>1 DEF Collects
      <4>. QED  BY <3>1, <3>3, <4>1, <4>2
    <3>. QED  BY <3>2, <3>3
  <2>7. Collects(g, aliases, skipped, n)
    BY <2>5, <2>6 DEF Collects
  <2>. QED  BY <2>4, <2>7
<1>. HIDE DEF P
<1>4. S = {}
  <2> SUFFICES ASSUME S # {} PROVE FALSE
    OBVIOUS
  <2>1. S \in SUBSET Nat
    BY <1>1
  <2>2. PICK n \in S : \A k \in S : n <= k
    <3> HIDE DEF S
    <3>. QED  BY <2>1, Least
  <2>3. n \in 0..N /\ ~P(n) /\ n # 0
    BY <1>2, <2>2
  <2>4. n \in 1..N /\ n - 1 \in 0..N /\ ~ (n <= n - 1)
    BY <1>1, <2>3
  <2>5. n - 1 \notin S
    BY <2>2, <2>4
  <2>. QED  BY <1>3, <2>3, <2>4, <2>5
<1>5. N \in 0..N
  BY <1>1
<1>6. P(N)
  BY <1>4, <1>5
<1>. QED  BY <1>6 DEF P

\* The recursive definition is met by what the loop collects.
LEMMA OthersCollects ==
    ASSUME NEW aliases \in Seq(Environments), NEW skipped
    PROVE  \E f \in [0..Len(aliases) -> Seq(Environments)] :
              /\ Collects(f, aliases, skipped, Len(aliases))
              /\ Others(aliases, skipped) = f[Len(aliases)]
<1> DEFINE N == Len(aliases)
           Eq(f) == f = [i \in 0..N |-> IF i = 0 THEN <<>>
                            ELSE IF aliases[i] \in skipped THEN f[i - 1]
                            ELSE Append(f[i - 1], aliases[i])]
           upTo == CHOOSE f : Eq(f)
<1>1. Others(aliases, skipped) = upTo[N]
  BY DEF Others
<1>2. PICK f \in [0..N -> Seq(Environments)] : Collects(f, aliases, skipped, N)
  BY CollectsExists
<1>3. Eq(f)
  <2>1. N \in Nat
    OBVIOUS
  <2>2. ASSUME NEW i \in 0..N
        PROVE  f[i] = IF i = 0 THEN <<>>
                      ELSE IF aliases[i] \in skipped THEN f[i - 1]
                      ELSE Append(f[i - 1], aliases[i])
    <3>1. CASE i = 0
      BY <1>2, <3>1 DEF Collects
    <3>2. CASE i # 0
      <4>1. i \in 1..N
        BY <2>1, <3>2
      <4>. QED  BY <1>2, <3>2, <4>1 DEF Collects, Collected
    <3>. QED  BY <3>1, <3>2
  <2>3. f = [i \in 0..N |-> f[i]]
    BY <1>2
  <2>. QED  BY <2>2, <2>3
<1>. HIDE DEF Eq
<1>4. Eq(upTo)
  BY <1>3
<1>. HIDE DEF upTo
<1>5. \A i \in 0..N : upTo[i] = IF i = 0 THEN <<>>
                                ELSE IF aliases[i] \in skipped THEN upTo[i - 1]
                                ELSE Append(upTo[i - 1], aliases[i])
  BY <1>4 DEF Eq
<1>6. ASSUME NEW n \in 0..N PROVE upTo[n] = f[n]
  <2> DEFINE S == {i \in 0..N : upTo[i] # f[i]}
  <2>1. S = {}
    <3> SUFFICES ASSUME S # {} PROVE FALSE
      OBVIOUS
    <3>1. S \in SUBSET Nat /\ N \in Nat
      OBVIOUS
    <3>2. PICK i \in S : \A k \in S : i <= k
      <4> HIDE DEF S
      <4>. QED  BY <3>1, Least
    <3>3. i \in 0..N /\ upTo[i] # f[i] /\ f[0] = <<>>
      BY <1>2, <3>2 DEF Collects
    <3>4. i # 0
      BY <1>5, <3>3
    <3>5. i \in 1..N /\ i - 1 \in 0..N /\ ~ (i <= i - 1)
      BY <3>1, <3>3, <3>4
    <3>6. upTo[i - 1] = f[i - 1]
      BY <3>2, <3>5
    <3>7. f[i] = Collected(aliases, skipped, f[i - 1], i)
      BY <1>2, <3>5 DEF Collects
    <3>. QED  BY <1>5, <3>3, <3>4, <3>6, <3>7 DEF Collected
  <2>. QED  BY <2>1
<1>7. N \in 0..N
  OBVIOUS
<1>. QED  BY <1>1, <1>2, <1>6, <1>7

\* The loop collects the aliases it does not skip, each once if none is listed twice.
LEMMA OthersAre ==
    ASSUME NEW aliases \in Seq(Environments), NEW skipped
    PROVE  /\ Others(aliases, skipped) \in Seq(Environments)
           /\ ToSet(Others(aliases, skipped)) = ToSet(aliases) \ skipped
           /\ IsInjective(aliases) => IsInjective(Others(aliases, skipped))
<1> DEFINE N == Len(aliases)
<1>1. PICK f \in [0..N -> Seq(Environments)] :
         Collects(f, aliases, skipped, N) /\ Others(aliases, skipped) = f[N]
  BY OthersCollects
<1> DEFINE Upto(n) == {aliases[i] : i \in 1..n} \ skipped
           P(n) == ToSet(f[n]) = Upto(n) /\ (IsInjective(aliases) => IsInjective(f[n]))
           S == {n \in 0..N : ~P(n)}
<1>2. N \in Nat /\ DOMAIN aliases = 1..N
  OBVIOUS
<1>3. P(0)
  BY <1>1 DEF Collects, ToSet, IsInjective
<1>4. ASSUME NEW n \in 1..N, P(n - 1) PROVE P(n)
  <2> DEFINE before == f[n - 1]
             a == aliases[n]
  <2>1. /\ f[n] = IF a \in skipped THEN before ELSE Append(before, a)
        /\ before \in Seq(Environments) /\ a \in Environments
    BY <1>1, <1>2 DEF Collects, Collected
  <2>2. Upto(n) = Upto(n - 1) \cup ({a} \ skipped)
    <3>1. \A i \in 1..n : i \in 1..n - 1 \/ i = n
      BY <1>2
    <3>2. n \in 1..n /\ \A i \in 1..n - 1 : i \in 1..n
      BY <1>2
    <3>. QED  BY <3>1, <3>2
  <2>3. ToSet(before) = Upto(n - 1)
    BY <1>4
  <2>. HIDE DEF before, a, Upto
  <2>4. CASE a \in skipped
    BY <1>4, <2>1, <2>2, <2>3, <2>4 DEF before
  <2>5. CASE a \notin skipped
    <3>1. f[n] = Append(before, a)
      BY <2>1, <2>5
    <3>2. /\ Len(before) \in Nat /\ DOMAIN before = 1..Len(before)
          /\ DOMAIN f[n] = 1..Len(before) + 1 /\ f[n][Len(before) + 1] = a
          /\ \A i \in 1..Len(before) : f[n][i] = before[i]
      BY <2>1, <3>1, AppendProperties
    <3>3. \A i \in 1..Len(before) + 1 : i \in 1..Len(before) \/ i = Len(before) + 1
      BY <3>2
    <3>4. Len(before) + 1 \in DOMAIN f[n] /\ \A i \in 1..Len(before) : i \in DOMAIN f[n]
      BY <3>2
    <3>5. ToSet(f[n]) = ToSet(before) \cup {a}
      BY <3>2, <3>3, <3>4 DEF ToSet
    <3>6. ToSet(f[n]) = Upto(n)
      BY <2>2, <2>3, <2>5, <3>5
    <3>7. ASSUME IsInjective(aliases) PROVE IsInjective(f[n])
      <4>1. IsInjective(before)
        BY <1>4, <3>7 DEF before
      <4>2. a \notin ToSet(before)
        <5>1. ASSUME NEW i \in 1..n - 1 PROVE aliases[i] # a
          <6>1. i \in DOMAIN aliases /\ n \in DOMAIN aliases /\ i # n
            BY <1>2
          <6>. QED  BY <3>7, <6>1 DEF IsInjective, a
        <5>. QED  BY <2>3, <5>1 DEF Upto
      <4>3. \A i \in 1..Len(before) : before[i] # a
        BY <3>2, <4>2 DEF ToSet
      <4>4. ASSUME NEW i \in DOMAIN f[n], NEW j \in DOMAIN f[n], f[n][i] = f[n][j]
            PROVE  i = j
        BY <3>2, <3>3, <4>1, <4>3, <4>4 DEF IsInjective
      <4>. QED  BY <4>4 DEF IsInjective
    <3>. QED  BY <3>6, <3>7
  <2>. QED  BY <2>4, <2>5
<1>. HIDE DEF P
<1>5. S = {}
  <2> SUFFICES ASSUME S # {} PROVE FALSE
    OBVIOUS
  <2>1. S \in SUBSET Nat
    BY <1>2
  <2>2. PICK n \in S : \A k \in S : n <= k
    <3> HIDE DEF S
    <3>. QED  BY <2>1, Least
  <2>3. n \in 0..N /\ ~P(n) /\ n # 0
    BY <1>3, <2>2
  <2>4. n \in 1..N /\ n - 1 \in 0..N /\ ~ (n <= n - 1)
    BY <1>2, <2>3
  <2>5. n - 1 \notin S
    BY <2>2, <2>4
  <2>. QED  BY <1>4, <2>3, <2>4, <2>5
<1>6. P(N)
  BY <1>2, <1>5
<1>7. Upto(N) = ToSet(aliases) \ skipped
  BY <1>2 DEF ToSet
<1>8. f[N] \in Seq(Environments)
  BY <1>1, <1>2
<1>. QED  BY <1>1, <1>6, <1>7, <1>8 DEF P

\* No entry of a response lists an alias twice.
AliasesListedOnce ==
    \A m \in Metadata : \A i \in DOMAIN m : IsInjective(m[i].aliases)

LEMMA Concatenated ==
    ASSUME NEW s \in Seq(Environments), NEW t \in Seq(Environments)
    PROVE  /\ ToSet(s \o t) = ToSet(s) \cup ToSet(t)
           /\ IsInjective(s) /\ IsInjective(t) /\ ToSet(s) \cap ToSet(t) = {}
                 => IsInjective(s \o t)
<1> DEFINE u == s \o t
           m == Len(s)
           n == Len(t)
<1>1. /\ m \in Nat /\ n \in Nat /\ DOMAIN s = 1..m /\ DOMAIN t = 1..n
      /\ DOMAIN u = 1..m + n
      /\ \A i \in 1..m : u[i] = s[i]
      /\ \A i \in m + 1..m + n : u[i] = t[i - m]
  BY ConcatProperties
<1>. HIDE DEF u, m, n
<1>2. \A i \in 1..m + n : i \in 1..m \/ (i \in m + 1..m + n /\ i - m \in 1..n)
  BY <1>1
<1>3. ToSet(u) = ToSet(s) \cup ToSet(t)
  <2>1. ASSUME NEW i \in 1..m + n PROVE u[i] \in ToSet(s) \cup ToSet(t)
    BY <1>1, <1>2 DEF ToSet
  <2>2. ASSUME NEW i \in 1..m PROVE s[i] \in ToSet(u)
    <3>1. i \in 1..m + n
      BY <1>1
    <3>. QED  BY <1>1, <3>1 DEF ToSet
  <2>3. ASSUME NEW i \in 1..n PROVE t[i] \in ToSet(u)
    <3>1. i + m \in m + 1..m + n /\ (i + m) - m = i /\ i + m \in 1..m + n
      BY <1>1
    <3>2. u[i + m] = t[i]
      BY <1>1, <3>1
    <3>. QED  BY <1>1, <3>1, <3>2 DEF ToSet
  <2>4. ToSet(u) \subseteq ToSet(s) \cup ToSet(t)
    BY <1>1, <2>1 DEF ToSet
  <2>5. ToSet(s) \subseteq ToSet(u) /\ ToSet(t) \subseteq ToSet(u)
    BY <1>1, <2>2, <2>3 DEF ToSet
  <2>. QED  BY <2>4, <2>5
<1>4. ASSUME IsInjective(s), IsInjective(t), ToSet(s) \cap ToSet(t) = {}
      PROVE  IsInjective(u)
  <2>1. ASSUME NEW i \in 1..m + n, NEW j \in 1..m + n, u[i] = u[j] PROVE i = j
    <3>1. CASE i \in 1..m /\ j \in 1..m
      BY <1>1, <1>4, <2>1, <3>1 DEF IsInjective
    <3>2. CASE i \notin 1..m /\ j \notin 1..m
      <4>1. i - m \in 1..n /\ j - m \in 1..n /\ t[i - m] = t[j - m]
        BY <1>1, <1>2, <2>1, <3>2
      <4>2. i - m = j - m
        BY <1>1, <1>4, <4>1 DEF IsInjective
      <4>. QED  BY <1>1, <4>2
    <3>3. CASE i \in 1..m /\ j \notin 1..m
      <4>1. u[i] \in ToSet(s) /\ u[j] \in ToSet(t)
        BY <1>1, <1>2, <3>3 DEF ToSet
      <4>. QED  BY <1>4, <2>1, <4>1
    <3>4. CASE i \notin 1..m /\ j \in 1..m
      <4>1. u[i] \in ToSet(t) /\ u[j] \in ToSet(s)
        BY <1>1, <1>2, <3>4 DEF ToSet
      <4>. QED  BY <1>4, <2>1, <4>1
    <3>. QED  BY <3>1, <3>2, <3>3, <3>4
  <2>. QED  BY <1>1, <2>1 DEF IsInjective
<1>. QED  BY <1>3, <1>4 DEF u

\* What a record names.
LEMMA RecordHosts ==
    ASSUME AliasesListedOnce, NEW rec \in Records
    PROVE  /\ rec.cacheHost \in Environments \cup {NIL}
           /\ rec.aliases \in Seq(Environments) /\ IsInjective(rec.aliases)
<1>1. <<>> \in Seq(Environments) /\ IsInjective(<<>>)
  BY DEF IsInjective
<1>2. ASSUME NEW m \in Metadata, NEW i \in DOMAIN m, rec = ValidRecord(m[i])
      PROVE  /\ rec.cacheHost \in Environments \cup {NIL}
             /\ rec.aliases \in Seq(Environments) /\ IsInjective(rec.aliases)
  <2>1. m[i] \in Entry
    BY ResolverAssumption
  <2>2. rec.cacheHost = m[i].cacheHost /\ rec.aliases = m[i].aliases
    BY <1>2 DEF ValidRecord
  <2>. QED  BY <2>1, <2>2 DEF Entry, AliasesListedOnce
<1>3. CASE \E env \in Environments : rec = DefaultRecord(env)
  BY <1>1, <1>3 DEF DefaultRecord
<1>4. CASE rec = InvalidRecord
  BY <1>1, <1>4 DEF InvalidRecord
<1>5. \/ \E m \in Metadata : \E i \in DOMAIN m : rec = ValidRecord(m[i])
      \/ \E env \in Environments : rec = DefaultRecord(env)
      \/ rec = InvalidRecord
  BY DEF Records
<1>. QED  BY <1>2, <1>3, <1>4, <1>5

LEMMA Lookups ==
    ASSUME AliasesListedOnce, TypeOK, NEW env \in Environments
    PROVE  /\ IsInjective(AliasesForAuthority(env))
           /\ env \in ToSet(AliasesForAuthority(env))
           /\ ToSet(AliasesForEnvironment(env)) = ToSet(AliasesForAuthority(env))
<1>1. <<env>> \in Seq(Environments) /\ ToSet(<<env>>) = {env} /\ IsInjective(<<env>>)
  BY DEF ToSet, IsInjective
<1>2. CASE cache[env] = NIL
  <2>1. AliasesForAuthority(env) = <<env>> /\ AliasesForEnvironment(env) = <<env>>
    BY <1>2 DEF AliasesForAuthority, AliasesForEnvironment
  <2>. QED  BY <1>1, <2>1
<1>3. CASE cache[env] # NIL
  <2> DEFINE rec == cache[env]
             host == rec.cacheHost
             first == Preferred(env)
             rest == Others(rec.aliases, {env, host})
             others == Others(rec.aliases, {env})
  <2>1. rec \in Records
    BY <1>3 DEF TypeOK
  <2>2. /\ host \in Environments \cup {NIL} /\ NIL \notin Environments
        /\ rec.aliases \in Seq(Environments) /\ IsInjective(rec.aliases)
    BY <2>1, RecordHosts, ResolverAssumption
  <2>3. /\ first \in Seq(Environments) /\ IsInjective(first)
        /\ ToSet(first) = {env} \cup ({host} \ {NIL})
    <3>1. CASE host \in {NIL, env}
      <4>1. first = <<env>>
        BY <3>1 DEF Preferred
      <4>. QED  BY <1>1, <2>2, <3>1, <4>1
    <3>2. CASE host \notin {NIL, env}
      <4>1. first = <<host, env>> /\ host # env
        BY <1>3, <3>2 DEF Preferred
      <4>2. first \in Seq(Environments) /\ DOMAIN first = 1..2
        BY <2>2, <3>2, <4>1
      <4>3. first[1] = host /\ first[2] = env /\ \A i \in 1..2 : i = 1 \/ i = 2
        BY <4>1
      <4>. QED  BY <2>2, <3>2, <4>1, <4>2, <4>3 DEF ToSet, IsInjective
    <3>. QED  BY <3>1, <3>2
  <2>4. /\ rest \in Seq(Environments) /\ IsInjective(rest)
        /\ ToSet(rest) = ToSet(rec.aliases) \ {env, host}
    BY <2>2, OthersAre
  <2>5. /\ others \in Seq(Environments)
        /\ ToSet(others) = ToSet(rec.aliases) \ {env}
    BY <2>2, OthersAre
  <2>6. NIL \notin ToSet(rec.aliases)
    BY <2>2 DEF ToSet
  <2>7. /\ AliasesForAuthority(env) = first \o rest
        /\ AliasesForEnvironment(env) = first \o others
    BY <1>3 DEF AliasesForAuthority, AliasesForEnvironment
  <2>. HIDE DEF rec, host, first, rest, others
  <2>8. ToSet(first) \cap ToSet(rest) = {}
    BY <2>3, <2>4
  <2>9. IsInjective(first \o rest) /\ ToSet(first \o rest) = ToSet(first) \cup ToSet(rest)
    BY <2>3, <2>4, <2>8, Concatenated
  <2>10. ToSet(first \o others) = ToSet(first) \cup ToSet(others)
    BY <2>3, <2>5, Concatenated
  <2>11. ToSet(first) \cup ToSet(others) = ToSet(first) \cup ToSet(rest)
    BY <2>3, <2>4, <2>5, <2>6
  <2>. QED  BY <2>3, <2>7, <2>9, <2>10, <2>11
<1>. QED  BY <1>2, <1>3

\* No host is looked up twice, the developer's own is among them, and the lookup by
\* environment covers the same hosts, for any responses that list no alias twice
\* (cacheAliasesForAuthorityImpl, cacheAliasesForEnvironmentImpl).
THEOREM NoHostLookedUpTwice == ASSUME AliasesListedOnce PROVE Spec => []LookupsDistinct
<1>1. TypeOK => LookupsDistinct
  BY Lookups DEF LookupsDistinct
<1>. QED  BY <1>1, TypeCorrect, PTL
=============================================================================
