-------------------------- MODULE ThrottlingProofs --------------------------
(***************************************************************************)
(* Proofs about Throttling for any number of requests, thumbprints and     *)
(* slots, and for every length of time: which errors a request is refused  *)
(* with, until when, and what it removes.                                  *)
(*                                                                         *)
(* No answer depends on the order of the database: an eviction may take any*)
(* key.  So the invariant IInv says nothing of `order' and `dangling'; that*)
(* these two agree with the records is an invariant of its own, Orders.    *)
(***************************************************************************)
EXTENDS Throttling, TLAPS

Types ==
    /\ now \in Time /\ lastRefresh \in Time \cup {NIL}
    /\ interactive \in Time \cup {NIL}
    /\ value \in [Thumbprints -> CacheRecord \cup {NIL}]
    /\ pc \in [Requests -> {"idle", "strict", "full", "decide", "lift", "clean",
                            "send", "answered"}]
    /\ seen \in [Requests -> CacheRecord \cup {NIL}]
    /\ found \in [Requests -> Time \cup {NIL}]
    /\ before \in [Requests -> Time \cup {NIL}]
    /\ unread \subseteq Requests

\* A record is in effect for no longer than its model allows.
Short(rec) ==
    /\ rec.expiration <= rec.creation + Longest * SECOND
    /\ rec.throttleType = "InteractiveRequired" =>
            rec.expiration <= rec.creation + DefaultUI * SECOND

\* The kind of a record is the kind of the thumbprint it is stored under, which
\* is the thumbprint of the request whose error it holds.
Stored(k) ==
    value[k] # NIL =>
        /\ k = ModelKey(value[k].from, value[k].throttleType)
        /\ Short(value[k])

\* A request that looked up a record, between its lookup and its removal.
Holds(r) == pc[r] \in {"decide", "lift", "clean", "answered"}

Sees(r) ==
    Holds(r) =>
        /\ seen[r] \in CacheRecord /\ found[r] \in Time /\ found[r] <= now
        /\ Short(seen[r])
        /\ ModelKey(r, seen[r].throttleType) = ModelKey(seen[r].from, seen[r].throttleType)
        /\ pc[r] = "lift" => seen[r].throttleType = "InteractiveRequired"

\* What the thumbprint has by now is the record that was seen, or a later one.
Current(r) ==
    Holds(r) =>
        LET rec == value[ModelKey(r, seen[r].throttleType)] IN
        rec = NIL \/ rec = seen[r] \/ rec.creation >= found[r]

\* The keychain knows of every success that the history knows of: of those whose
\* time was saved, and of the last of them at least.
Remembered ==
    /\ interactive # NIL => interactive <= now /\ lastRefresh = Timestamp(interactive)
    /\ \A r \in Requests : before[r] # NIL =>
            /\ before[r] <= now /\ lastRefresh # NIL
            /\ Timestamp(before[r]) <= lastRefresh

\* What the decision to refuse was made from, the time of the last success when
\* the keychain gave it.
Refused(r) ==
    pc[r] = "answered" =>
        /\ found[r] < seen[r].expiration
        /\ r \notin unread /\ seen[r].throttleType = "InteractiveRequired" /\ before[r] # NIL =>
                Timestamp(before[r]) < seen[r].creation

IInv ==
    /\ Types /\ Remembered
    /\ \A k \in Thumbprints : Stored(k)
    /\ \A r \in Requests : Sees(r) /\ Current(r) /\ Refused(r)

-----------------------------------------------------------------------------
(* Time *)

\* Longest is the greatest of the three lengths.
LEMMA Lengths ==
    /\ Longest \in Nat /\ Default429 <= Longest /\ DefaultUI <= Longest
    /\ 2 * MaxRetryAfter <= Longest
<1> DEFINE S == {Default429, DefaultUI, 2 * MaxRetryAfter}
<1>1. Default429 \in Nat /\ DefaultUI \in Nat /\ 2 * MaxRetryAfter \in Nat
  BY ThrottlingAssumption
<1>2. \E m \in S : \A n \in S : n <= m
  <2>1. CASE Default429 >= DefaultUI /\ Default429 >= 2 * MaxRetryAfter
    BY <1>1, <2>1
  <2>2. CASE DefaultUI >= Default429 /\ DefaultUI >= 2 * MaxRetryAfter
    BY <1>1, <2>2
  <2>3. CASE 2 * MaxRetryAfter >= Default429 /\ 2 * MaxRetryAfter >= DefaultUI
    BY <1>1, <2>3
  <2>. QED  BY <1>1, <2>1, <2>2, <2>3
<1>3. Longest \in S /\ \A n \in S : n <= Longest
  BY <1>2 DEF Longest
<1>. QED  BY <1>1, <1>3

LEMMA LongerLasts ==
    ASSUME NEW m \in Nat, NEW n \in Nat, m <= n
    PROVE  SECOND * m \in Nat /\ n * SECOND \in Nat /\ SECOND * m <= n * SECOND
<1>1. SECOND \in Nat
  BY ThrottlingAssumption
<1>. QED  BY <1>1

\* Whole seconds: never later, and in the same order.
LEMMA WholeSeconds ==
    /\ \A t \in Time : Timestamp(t) \in Time /\ Timestamp(t) <= t
    /\ \A t, u \in Time : t <= u => Timestamp(t) <= Timestamp(u)
<1>1. SECOND \in Nat \ {0} /\ MaxTime \in Nat
  BY ThrottlingAssumption
<1>2. ASSUME NEW t \in Nat PROVE t \div SECOND \in Nat /\ (t \div SECOND) * SECOND <= t
                                 /\ t < ((t \div SECOND) + 1) * SECOND
  BY <1>1
<1>3. ASSUME NEW t \in Nat, NEW u \in Nat, t <= u PROVE t \div SECOND <= u \div SECOND
  BY <1>1, <1>3
<1>. QED  BY <1>1, <1>2, <1>3 DEF Timestamp, Time

-----------------------------------------------------------------------------
(* The database *)

\* What the two models make of an error.
LEMMA Made ==
    ASSUME Types, NEW r \in Requests, NEW e \in ErrorResponse, NEW lag \in {0, 1},
           ThrottleType(e) # "None"
    PROVE  LET rec == RecordFor(r, e, lag) IN
           /\ rec \in CacheRecord /\ Short(rec)
           /\ rec.from = r /\ rec.throttleType = ThrottleType(e) /\ rec.creation = now
<1> DEFINE length == IF ThrottleType(e) = "429" THEN Duration429(e, lag) ELSE DefaultUI
<1>1. ThrottleType(e) \in {"429", "InteractiveRequired"}
  BY DEF ThrottleType
<1>2. DefaultUI \in Nat /\ Default429 \in Nat /\ MaxRetryAfter \in Nat /\ SECOND \in Nat
      /\ MaxTime \in Nat /\ Longest \in Nat
  BY ThrottlingAssumption, Lengths
<1>3. length \in Nat /\ length <= Longest
  <2>1. CASE HasRetryDate(e.header)
    <3>1. e.header \in Nat \ {0}
      BY <2>1, ThrottlingAssumption DEF HasRetryDate
    <3>. QED  BY <1>2, <2>1, <3>1, Lengths DEF Duration429
  <2>2. CASE ~ HasRetryDate(e.header)
    BY <1>2, <2>2, Lengths DEF Duration429
  <2>. QED  BY <2>1, <2>2
<1>4. now \in 0..MaxTime
  BY DEF Types, Time
<1> HIDE DEF length
<1>5. SECOND * length \in Nat /\ Longest * SECOND \in Nat
      /\ SECOND * length <= Longest * SECOND
  BY <1>2, <1>3, LongerLasts
<1>6. RecordFor(r, e, lag) = [throttleType |-> ThrottleType(e), from |-> r,
                              creation |-> now, expiration |-> now + SECOND * length]
  BY DEF RecordFor, length
<1>7. now + SECOND * length \in 0..MaxTime + Longest * SECOND
  BY <1>2, <1>4, <1>5
<1>8. RecordFor(r, e, lag) \in CacheRecord
  BY <1>1, <1>4, <1>6, <1>7 DEF CacheRecord, Time
<1>9. ThrottleType(e) = "InteractiveRequired" => SECOND * length = DefaultUI * SECOND
  BY <1>2 DEF length
<1>10. Short(RecordFor(r, e, lag))
  BY <1>4, <1>5, <1>6, <1>9 DEF Short
<1>. QED  BY <1>6, <1>8, <1>10

\* A store puts the record there, evicts some other, or does nothing.
LEMMA Stores ==
    ASSUME Types, NEW k \in Thumbprints, NEW rec \in CacheRecord, DB!SetObject(k, rec)
    PROVE  /\ value' \in [Thumbprints -> CacheRecord \cup {NIL}]
           /\ \A j \in Thumbprints :
                value'[j] \in {value[j], NIL} \/ (j = k /\ value'[j] = rec)
<1>1. CASE DB!SetNew(k, rec)
  BY <1>1 DEF Types, DB!SetNew
<1>2. CASE UNCHANGED value
  BY <1>2 DEF Types
<1>. QED  BY <1>1, <1>2 DEF DB!SetObject, DB!SetRejected, DB!SetMapped, DB!SetDangling

LEMMA Takes ==
    ASSUME Types, NEW k \in Thumbprints, DB!RemoveObject(k)
    PROVE  /\ value' \in [Thumbprints -> CacheRecord \cup {NIL}]
           /\ \A j \in Thumbprints : value'[j] = value[j] \/ (j = k /\ value'[j] = NIL)
<1>1. CASE DB!RemoveMissing(k)
  BY <1>1 DEF Types, DB!RemoveMissing
<1>2. CASE DB!RemoveMapped(k)
  BY <1>2 DEF Types, DB!RemoveMapped
<1>. QED  BY <1>1, <1>2 DEF DB!RemoveObject

\* The thumbprints of a request.
LEMMA Keys ==
    ASSUME NEW r \in Requests
    PROVE  /\ StrictOf[r] \in StrictPrints /\ FullOf[r] \in FullPrints
           /\ \A type : ModelKey(r, type) \in Thumbprints
  BY DEF ModelKey, StrictPrints, FullPrints, Thumbprints

\* The two kinds of thumbprints tell the models apart.
LEMMA KindOfKey ==
    ASSUME NEW q \in Requests, NEW r \in Requests, NEW type \in {"429", "InteractiveRequired"}
    PROVE  /\ StrictOf[r] = ModelKey(q, type) => type = "429"
           /\ FullOf[r] = ModelKey(q, type) => type = "InteractiveRequired"
  BY ThrottlingAssumption DEF ModelKey, StrictPrints, FullPrints
LEMMA NilIsNone ==
    /\ NIL \notin CacheRecord /\ NIL \notin Time
    /\ \A rec \in CacheRecord :
        /\ rec.throttleType \in {"429", "InteractiveRequired"} /\ rec.from \in Requests
        /\ rec.creation \in Time /\ rec.creation \in Nat /\ rec.expiration \in Nat
    /\ Time \subseteq Nat
<1>1. MaxTime \in Nat /\ Longest * SECOND \in Nat
  BY ThrottlingAssumption, Lengths
<1>. QED  BY <1>1, ThrottlingAssumption DEF CacheRecord, Time

-----------------------------------------------------------------------------
LEMMA Initially == Init => IInv
  BY NilIsNone, ThrottlingAssumption
     DEF Init, DB!Init, IInv, Types, Remembered, Stored, Sees, Current, Refused, Holds, Time

\* A record goes on being vouched for when its request, or another, goes on.
LEMMA OtherKeeps ==
    ASSUME IInv, NEW r \in Requests, now' = now, lastRefresh' = lastRefresh,
           interactive' = interactive, value' \in [Thumbprints -> CacheRecord \cup {NIL}],
           pc'[r] = pc[r], seen'[r] = seen[r], found'[r] = found[r], before'[r] = before[r],
           r \in unread => r \in unread',
           \A k \in Thumbprints :
                \/ value'[k] \in {value[k], NIL}
                \/ value'[k] \in CacheRecord /\ value'[k].creation = now
    PROVE  Sees(r)' /\ Current(r)' /\ Refused(r)'
<1>1. Sees(r) /\ Current(r) /\ Refused(r)
  BY DEF IInv
<1>2. Sees(r)' /\ Refused(r)'
  BY <1>1 DEF Sees, Refused, Holds, Short, ModelKey, Timestamp
<1>3. Current(r)'
  <2>. SUFFICES ASSUME Holds(r)'
                PROVE  LET rec == value'[ModelKey(r, seen[r].throttleType)] IN
                       rec = NIL \/ rec = seen[r] \/ rec.creation >= found[r]
    BY DEF Current, Holds, ModelKey
  <2>1. Holds(r) /\ found[r] <= now
    BY <1>1 DEF Holds, Sees
  <2>2. ModelKey(r, seen[r].throttleType) \in Thumbprints
    BY Keys
  <2>. QED  BY <1>1, <2>1, <2>2 DEF Current
<1>. QED  BY <1>2, <1>3

\* What one request does to the database and to its own place.
LEMMA AloneSuffices ==
    ASSUME IInv, NEW r \in Requests, now' = now, lastRefresh' = lastRefresh,
           interactive' = interactive, value' \in [Thumbprints -> CacheRecord \cup {NIL}],
           NEW there \in {"idle", "strict", "full", "decide", "lift", "clean", "send", "answered"},
           NEW rec \in CacheRecord \cup {NIL}, NEW at \in Time \cup {NIL},
           NEW since \in {before[r], interactive, NIL},
           pc' = [pc EXCEPT ![r] = there], seen' = [seen EXCEPT ![r] = rec],
           found' = [found EXCEPT ![r] = at], before' = [before EXCEPT ![r] = since],
           unread' \subseteq Requests, unread \subseteq unread' \cup {r},
           \A k \in Thumbprints :
                \/ value'[k] \in {value[k], NIL}
                \/ value'[k] \in CacheRecord /\ value'[k].creation = now /\ Stored(k)',
           Sees(r)' /\ Current(r)' /\ Refused(r)'
    PROVE  IInv'
<1>1. Types /\ Remembered
  BY DEF IInv
<1>2. Types'
  BY <1>1 DEF Types
<1>3. Remembered'
  <2>1. \A t : Timestamp(t)' = Timestamp(t)
    BY DEF Timestamp
  <2>2. interactive # NIL => /\ interactive \in Time /\ interactive <= now
                            /\ lastRefresh = Timestamp(interactive)
                            /\ Timestamp(interactive) \in Time
    BY <1>1, WholeSeconds DEF Remembered, Types
  <2>3. \A q \in Requests : before'[q] \in {before[q], interactive, NIL}
    BY <1>1 DEF Types
  <2>4. \A t \in Time : t <= t
    BY NilIsNone
  <2>. QED  BY <1>1, <2>1, <2>2, <2>3, <2>4, NilIsNone DEF Remembered
<1>4. ASSUME NEW k \in Thumbprints PROVE Stored(k)'
  <2>1. CASE value'[k] = NIL
    BY <2>1 DEF Stored
  <2>2. CASE value'[k] = value[k]
    <3>1. Stored(k)
      BY DEF IInv
    <3>. QED  BY <2>2, <3>1 DEF Stored, Short, ModelKey
  <2>. QED  BY <2>1, <2>2
<1>5. ASSUME NEW q \in Requests PROVE Sees(q)' /\ Current(q)' /\ Refused(q)'
  <2>1. CASE q # r
    <3>1. pc'[q] = pc[q] /\ seen'[q] = seen[q] /\ found'[q] = found[q] /\ before'[q] = before[q]
      BY <1>1, <2>1 DEF Types
    <3>2. q \in unread => q \in unread'
      BY <2>1
    <3>. QED  BY <3>1, <3>2, OtherKeeps
  <2>. QED  BY <2>1
<1>. QED  BY <1>2, <1>3, <1>4, <1>5 DEF IInv

-----------------------------------------------------------------------------
(* The steps of a request *)

LEMMA StartKeeps == ASSUME IInv, NEW r \in Requests, Start(r) PROVE IInv'
<1>1. Types
  BY DEF IInv
<1>2. value' = value
  BY DEF Start, db
<1>3. Sees(r)' /\ Current(r)' /\ Refused(r)'
  BY <1>1 DEF Start, Goto, Types, Sees, Current, Refused, Holds
<1>4. unread' \subseteq Requests /\ unread \subseteq unread' \cup {r}
  BY <1>1 DEF Start, Types
<1>. QED  BY <1>1, <1>2, <1>3, <1>4, AloneSuffices DEF Start, Goto, Types

LEMMA LookupKeeps ==
    ASSUME IInv, NEW r \in Requests, NEW at, NEW key, NEW miss,
           \/ at = "strict" /\ key = StrictOf[r] /\ miss = "full"
           \/ at = "full" /\ key = FullOf[r] /\ miss = "send",
           Lookup(r, at, key, miss)
    PROVE  IInv'
<1>1. Types /\ key \in Thumbprints /\ Stored(key)
  BY Keys DEF IInv, StrictPrints, FullPrints, Thumbprints
<1>2. value' = value /\ value[key] \in CacheRecord \cup {NIL}
  BY <1>1 DEF Lookup, DB!GetHit, DB!GetMiss, Types
<1>3. now' = now /\ seen'[r] = value[key]
      /\ found'[r] = IF value[key] = NIL THEN NIL ELSE now
  BY <1>1 DEF Lookup, Types
<1>4. \/ value[key] # NIL /\ pc' = [pc EXCEPT ![r] = "decide"]
      \/ pc' = [pc EXCEPT ![r] = miss]
  BY DEF Lookup, Goto, DB!GetHit, DB!Cached
<1>5. /\ lastRefresh' = lastRefresh /\ interactive' = interactive
      /\ before' = [before EXCEPT ![r] = before[r]]
      /\ seen' = [seen EXCEPT ![r] = value[key]]
      /\ found' = [found EXCEPT ![r] = IF value[key] = NIL THEN NIL ELSE now]
      /\ (IF value[key] = NIL THEN NIL ELSE now) \in Time \cup {NIL}
      /\ value' \in [Thumbprints -> CacheRecord \cup {NIL}]
      /\ \A k \in Thumbprints : value'[k] \in {value[k], NIL}
      /\ unread' \subseteq Requests /\ unread \subseteq unread' \cup {r}
  BY <1>1, <1>2 DEF Lookup, Types
<1>6. CASE value[key] # NIL /\ pc' = [pc EXCEPT ![r] = "decide"]
  <2>1. value[key] \in CacheRecord /\ now \in Time /\ now <= now
    BY <1>1, <1>2, <1>6, NilIsNone DEF Types
  <2>2. value[key].from \in Requests /\ value[key].throttleType \in {"429", "InteractiveRequired"}
    BY <2>1, NilIsNone
  <2>3. key = ModelKey(value[key].from, value[key].throttleType) /\ Short(value[key])
    BY <1>1, <1>6 DEF Stored
  <2>4. ModelKey(r, value[key].throttleType) = key
    BY <2>2, <2>3, KindOfKey DEF ModelKey
  <2>5. pc'[r] = "decide"
    BY <1>1, <1>6 DEF Types
  <2>6. Sees(r)'
    BY <1>3, <1>6, <2>1, <2>3, <2>4, <2>5 DEF Sees, Holds, Short, ModelKey
  <2>7. Current(r)'
    BY <1>2, <1>3, <2>4 DEF Current, ModelKey
  <2>8. Refused(r)'
    BY <2>5 DEF Refused
  <2>. QED  BY <1>2, <1>3, <1>5, <1>6, <2>6, <2>7, <2>8, AloneSuffices
<1>7. CASE pc' = [pc EXCEPT ![r] = miss]
  <2>1. pc'[r] \in {"full", "send"}
    BY <1>1, <1>7 DEF Types
  <2>2. Sees(r)' /\ Current(r)' /\ Refused(r)'
    BY <2>1 DEF Sees, Current, Refused, Holds
  <2>3. miss \in {"idle", "strict", "full", "decide", "lift", "clean", "send", "answered"}
    OBVIOUS
  <2>. QED  BY <1>2, <1>3, <1>5, <1>7, <2>2, <2>3, AloneSuffices
<1>. QED  BY <1>4, <1>6, <1>7

\* A request that decided: it keeps what it looked up, and a refusal has its reasons.
LEMMA DecisionKeeps ==
    ASSUME IInv, NEW r \in Requests, pc[r] = "decide", NEW there \in {"answered", "clean", "lift"},
           Goto(r, there), UNCHANGED <<now, lastRefresh, db, seen, found, interactive, before>>,
           unread' \subseteq Requests, unread \subseteq unread' \cup {r},
           there = "lift" => seen[r].throttleType = "InteractiveRequired",
           there = "answered" =>
                /\ now < seen[r].expiration
                /\ r \notin unread' /\ seen[r].throttleType = "InteractiveRequired"
                        /\ before[r] # NIL => Timestamp(before[r]) < seen[r].creation
    PROVE  IInv'
<1>1. Types /\ Sees(r) /\ Current(r) /\ Holds(r)
  BY DEF IInv, Holds
<1>2. value' = value /\ now' = now /\ lastRefresh' = lastRefresh /\ seen' = seen
      /\ found' = found /\ before' = before /\ interactive' = interactive
  BY DEF db
<1>3. pc' = [pc EXCEPT ![r] = there] /\ pc'[r] = there
  BY <1>1 DEF Goto, Types
<1>4. seen[r] \in CacheRecord /\ found[r] \in Nat /\ found[r] <= now /\ now \in Nat
      /\ seen[r].expiration \in Nat
  BY <1>1, NilIsNone DEF Sees, Types
<1>5. Sees(r)'
  BY <1>1, <1>2, <1>3 DEF Sees, Holds, Short, ModelKey
<1>6. Current(r)'
  BY <1>1, <1>2 DEF Current, ModelKey
<1>7. there = "answered" => found[r] < seen[r].expiration
  BY <1>4
<1>8. Refused(r)'
  BY <1>2, <1>3, <1>7 DEF Refused, Timestamp
<1>9. /\ seen' = [seen EXCEPT ![r] = seen[r]] /\ found' = [found EXCEPT ![r] = found[r]]
      /\ before' = [before EXCEPT ![r] = before[r]]
      /\ seen[r] \in CacheRecord \cup {NIL} /\ found[r] \in Time \cup {NIL}
      /\ value' \in [Thumbprints -> CacheRecord \cup {NIL}]
      /\ \A k \in Thumbprints : value'[k] \in {value[k], NIL}
  BY <1>1, <1>2 DEF Types
<1>. QED  BY <1>2, <1>3, <1>5, <1>6, <1>8, <1>9, AloneSuffices

LEMMA Decide429Keeps == ASSUME IInv, NEW r \in Requests, Decide429(r) PROVE IInv'
<1>1. unread' \subseteq Requests /\ unread \subseteq unread' \cup {r}
      /\ UNCHANGED <<now, lastRefresh, db, seen, found, interactive, before>>
  BY DEF Decide429, history, IInv, Types
<1>2. seen[r].throttleType # "InteractiveRequired" /\ pc[r] = "decide"
  BY DEF Decide429
<1>3. CASE Throttles429(seen[r])
  <2>1. Goto(r, "answered") /\ now < seen[r].expiration
    BY <1>3 DEF Decide429, Throttles429
  <2>. QED  BY <1>1, <1>2, <2>1, DecisionKeeps
<1>4. CASE ~ Throttles429(seen[r])
  <2>1. Goto(r, "clean")
    BY <1>4 DEF Decide429
  <2>. QED  BY <1>1, <1>2, <2>1, DecisionKeeps
<1>. QED  BY <1>3, <1>4

\* A demand for interaction is repeated to a request that reads the time of the last
\* success only if the demand is later.
LEMMA DecideUIKeeps == ASSUME IInv, NEW r \in Requests, DecideUI(r) PROVE IInv'
<1>1. Types /\ Remembered /\ Sees(r) /\ Holds(r) /\ pc[r] = "decide"
      /\ seen[r].throttleType = "InteractiveRequired"
  BY DEF IInv, DecideUI, Holds
<1>2. UNCHANGED <<now, lastRefresh, db, seen, found, interactive, before>>
  BY DEF DecideUI
<1>3. PICK time \in {lastRefresh, NIL} :
          /\ Goto(r, IF ThrottlesUI(seen[r], time) THEN "answered" ELSE "lift")
          /\ unread' = IF ThrottlesUI(seen[r], time) /\ time # lastRefresh
                       THEN unread \cup {r} ELSE unread
  BY DEF DecideUI
<1>4. unread' \subseteq Requests /\ unread \subseteq unread' \cup {r}
  BY <1>1, <1>3 DEF Types
<1>5. CASE ThrottlesUI(seen[r], time)
  <2>1. Goto(r, "answered") /\ now < seen[r].expiration
    BY <1>3, <1>5 DEF ThrottlesUI
  <2>2. ASSUME r \notin unread', before[r] # NIL PROVE Timestamp(before[r]) < seen[r].creation
    <3>1. time = lastRefresh
      BY <1>3, <1>5, <2>2
    <3>2. before[r] \in Time /\ lastRefresh # NIL /\ lastRefresh \in Time
          /\ Timestamp(before[r]) <= lastRefresh
      BY <1>1, <2>2 DEF Remembered, Types
    <3>3. Timestamp(before[r]) \in Nat /\ lastRefresh \in Nat /\ seen[r].creation \in Nat
      BY <1>1, <3>2, WholeSeconds, NilIsNone DEF Sees
    <3>4. ~ (lastRefresh >= seen[r].creation)
      BY <1>5, <3>1, <3>2 DEF ThrottlesUI
    <3>. QED  BY <3>2, <3>3, <3>4
  <2>. QED  BY <1>1, <1>2, <1>4, <2>1, <2>2, DecisionKeeps
<1>6. CASE ~ ThrottlesUI(seen[r], time)
  <2>1. Goto(r, "lift")
    BY <1>3, <1>6
  <2>. QED  BY <1>1, <1>2, <1>4, <2>1, DecisionKeeps
<1>. QED  BY <1>5, <1>6

\* Lift and Clean take the key of the record that was seen.
LEMMA RemovalKeeps ==
    ASSUME IInv, NEW r \in Requests, Holds(r), NEW k \in Thumbprints, DB!RemoveObject(k),
           NEW there \in {"clean", "send"}, Goto(r, there),
           UNCHANGED <<now, lastRefresh, seen, history>>
    PROVE  IInv'
<1>1. Types /\ Sees(r) /\ Current(r)
  BY DEF IInv
<1>2. value' \in [Thumbprints -> CacheRecord \cup {NIL}]
      /\ \A j \in Thumbprints : value'[j] \in {value[j], NIL}
  BY <1>1, Takes
<1>3. now' = now /\ lastRefresh' = lastRefresh /\ interactive' = interactive
  BY DEF history
<1>4. /\ seen' = [seen EXCEPT ![r] = seen[r]] /\ found' = [found EXCEPT ![r] = found[r]]
      /\ before' = [before EXCEPT ![r] = before[r]]
      /\ seen[r] \in CacheRecord \cup {NIL} /\ found[r] \in Time \cup {NIL}
      /\ seen' = seen /\ found' = found
      /\ unread' \subseteq Requests /\ unread \subseteq unread' \cup {r}
  BY <1>1 DEF Types, history
<1>5. pc' = [pc EXCEPT ![r] = there] /\ pc'[r] = there
  BY <1>1 DEF Goto, Types
<1>6. Sees(r)'
  BY <1>1, <1>3, <1>4, <1>5 DEF Sees, Holds, Short, ModelKey
<1>7. Current(r)'
  BY <1>1, <1>2, <1>4, Keys DEF Current, ModelKey
<1>8. Refused(r)'
  BY <1>5 DEF Refused
<1>. QED  BY <1>2, <1>3, <1>4, <1>5, <1>6, <1>7, <1>8, AloneSuffices

LEMMA LiftKeeps == ASSUME IInv, NEW r \in Requests, Lift(r) PROVE IInv'
<1>1. Holds(r) /\ FullOf[r] \in Thumbprints
  BY Keys DEF Lift, Holds, Thumbprints
<1>. QED  BY <1>1, RemovalKeeps DEF Lift

LEMMA CleanKeeps == ASSUME IInv, NEW r \in Requests, Clean(r) PROVE IInv'
<1>1. Holds(r) /\ ModelKey(r, seen[r].throttleType) \in Thumbprints
  BY Keys DEF Clean, Holds
<1>. QED  BY <1>1, RemovalKeeps DEF Clean

\* The answer of the server, with what it leaves in the database.
LEMMA AnswerKeeps ==
    ASSUME IInv, NEW r \in Requests, Goto(r, "idle"),
           seen' = [seen EXCEPT ![r] = NIL], found' = [found EXCEPT ![r] = NIL],
           before' = [before EXCEPT ![r] = NIL],
           UNCHANGED <<now, lastRefresh, interactive, unread>>,
           value' \in [Thumbprints -> CacheRecord \cup {NIL}],
           \A k \in Thumbprints :
                \/ value'[k] \in {value[k], NIL}
                \/ value'[k] \in CacheRecord /\ value'[k].creation = now /\ Stored(k)'
    PROVE  IInv'
<1>1. pc'[r] = "idle"
  BY DEF IInv, Types, Goto
<1>2. Sees(r)' /\ Current(r)' /\ Refused(r)'
  BY <1>1 DEF Sees, Current, Refused, Holds
<1>3. unread' \subseteq Requests /\ unread \subseteq unread' \cup {r}
  BY DEF IInv, Types
<1>. QED  BY <1>2, <1>3, AloneSuffices DEF Goto

LEMMA SucceedsKeeps == ASSUME IInv, NEW r \in Requests, Succeeds(r) PROVE IInv'
<1>1. value' = value
  BY DEF Succeeds, db
<1>. QED  BY <1>1, AnswerKeeps DEF Succeeds, IInv, Types

LEMMA FailsKeeps ==
    ASSUME IInv, NEW r \in Requests, NEW e \in ErrorResponse, NEW lag \in {0, 1},
           FailsWith(r, e, lag)
    PROVE  IInv'
<1>1. Types
  BY DEF IInv
<1>2. CASE ThrottleType(e) = "None"
  <2>1. value' = value
    BY <1>2 DEF FailsWith, db
  <2>. QED  BY <1>1, <2>1, AnswerKeeps DEF FailsWith, Types
<1>3. CASE ThrottleType(e) # "None"
  <2> DEFINE rec == RecordFor(r, e, lag)
             key == ModelKey(r, ThrottleType(e))
  <2>1. /\ rec \in CacheRecord /\ Short(rec)
        /\ rec.from = r /\ rec.throttleType = ThrottleType(e) /\ rec.creation = now
    BY <1>1, <1>3, Made
  <2>2. DB!SetObject(key, rec) /\ key \in Thumbprints
    BY <1>3, Keys DEF FailsWith
  <2> HIDE DEF rec
  <2>3. /\ value' \in [Thumbprints -> CacheRecord \cup {NIL}]
        /\ \A j \in Thumbprints :
                value'[j] \in {value[j], NIL} \/ (j = key /\ value'[j] = rec)
    BY <1>1, <2>1, <2>2, Stores
  <2>4. ASSUME NEW j \in Thumbprints, j = key, value'[j] = rec
        PROVE  value'[j] \in CacheRecord /\ value'[j].creation = now /\ Stored(j)'
    BY <2>1, <2>4 DEF Stored, Short, ModelKey
  <2>. QED  BY <2>3, <2>4, AnswerKeeps DEF FailsWith
<1>. QED  BY <1>2, <1>3

-----------------------------------------------------------------------------
(* The steps of the clock, the user and the system *)

LEMMA TickKeeps == ASSUME IInv, Tick PROVE IInv'
<1>1. Types /\ Remembered /\ (\A k \in Thumbprints : Stored(k))
      /\ \A r \in Requests : Sees(r) /\ Current(r) /\ Refused(r)
  BY DEF IInv
<1>2. UNCHANGED <<lastRefresh, value, pc, seen, found, interactive, before, unread>>
  BY DEF Tick, db, history
<1>3. now' \in Time /\ now \in Nat /\ now' = now + 1
  BY <1>1, ThrottlingAssumption DEF Tick, Types, Time
<1>4. \A t \in Time : t <= now => t <= now'
  BY <1>3, NilIsNone
<1>5. Types'
  BY <1>1, <1>2, <1>3 DEF Types
<1>6. Remembered'
  BY <1>1, <1>2, <1>4 DEF Remembered, Timestamp, Types
<1>7. \A k \in Thumbprints : Stored(k)'
  BY <1>1, <1>2 DEF Stored, Short, ModelKey
<1>8. ASSUME NEW r \in Requests PROVE Sees(r)' /\ Current(r)' /\ Refused(r)'
  <2>1. Sees(r)'
    BY <1>1, <1>2, <1>4 DEF Sees, Holds, Short, ModelKey
  <2>2. Current(r)' /\ Refused(r)'
    BY <1>1, <1>2 DEF Current, Refused, Holds, ModelKey, Timestamp
  <2>. QED  BY <2>1, <2>2
<1>. QED  BY <1>5, <1>6, <1>7, <1>8 DEF IInv

\* A success whose time is saved; one whose time is not changes nothing.
LEMMA SavedKeeps ==
    ASSUME IInv, InteractiveSuccess, lastRefresh' = Timestamp(now), interactive' = now
    PROVE  IInv'
<1>1. Types /\ Remembered /\ (\A k \in Thumbprints : Stored(k))
      /\ \A r \in Requests : Sees(r) /\ Current(r) /\ Refused(r)
  BY DEF IInv
<1>2. UNCHANGED <<now, value, pc, seen, found, before, unread>>
  BY DEF InteractiveSuccess, db
<1>3. lastRefresh' = Timestamp(now) /\ interactive' = now /\ now \in Time /\ now <= now
      /\ Timestamp(now) \in Time
  BY <1>1, WholeSeconds, NilIsNone DEF Types
<1>4. Types'
  BY <1>1, <1>2, <1>3 DEF Types
<1>5. Remembered'
  <2>1. \A t : Timestamp(t)' = Timestamp(t)
    BY DEF Timestamp
  <2>2. ASSUME NEW r \in Requests, before[r] # NIL
        PROVE  before[r] <= now /\ Timestamp(before[r]) <= Timestamp(now)
    <3>1. before[r] \in Time /\ before[r] <= now
      BY <1>1, <2>2 DEF Remembered, Types
    <3>. QED  BY <1>3, <3>1, WholeSeconds
  <2>. QED  BY <1>2, <1>3, <2>1, <2>2, NilIsNone DEF Remembered
<1>6. \A k \in Thumbprints : Stored(k)'
  BY <1>1, <1>2 DEF Stored, Short, ModelKey
<1>7. ASSUME NEW r \in Requests PROVE Sees(r)' /\ Current(r)' /\ Refused(r)'
  BY <1>1, <1>2 DEF Sees, Current, Refused, Holds, Short, ModelKey, Timestamp
<1>. QED  BY <1>4, <1>5, <1>6, <1>7 DEF IInv

LEMMA StutterKeeps == ASSUME IInv, UNCHANGED vars PROVE IInv'
  BY DEF IInv, vars, db, history, Types, Remembered, Stored, Sees, Current, Refused, Holds,
         Short, ModelKey, Timestamp

LEMMA SuccessKeeps == ASSUME IInv, InteractiveSuccess PROVE IInv'
<1>1. CASE lastRefresh' = Timestamp(now) /\ interactive' = now
  BY <1>1, SavedKeeps
<1>2. CASE UNCHANGED <<lastRefresh, interactive>>
  BY <1>2, StutterKeeps DEF InteractiveSuccess, vars, history
<1>. QED  BY <1>1, <1>2 DEF InteractiveSuccess

LEMMA RestartKeeps == ASSUME IInv, Restart PROVE IInv'
<1>1. Types /\ Remembered
  BY DEF IInv
<1>2. Types'
  BY <1>1 DEF Types, Restart
<1>3. Remembered'
  BY <1>1 DEF Remembered, Restart, Timestamp
<1>4. \A k \in Thumbprints : Stored(k)'
  BY DEF Stored, Restart
<1>5. ASSUME NEW r \in Requests PROVE Sees(r)' /\ Current(r)' /\ Refused(r)'
  BY DEF Sees, Current, Refused, Holds, Restart
<1>. QED  BY <1>2, <1>3, <1>4, <1>5 DEF IInv

-----------------------------------------------------------------------------
(* The specification *)

LEMMA NextKeeps == IInv /\ [Next]_vars => IInv'
<1>. SUFFICES ASSUME IInv, [Next]_vars PROVE IInv'
  OBVIOUS
<1>1. ASSUME NEW r \in Requests, Ask(r) PROVE IInv'
  <2>1. CASE Start(r)
    BY <2>1, StartKeeps
  <2>2. CASE LookupStrict(r)
    BY <2>2, LookupKeeps DEF LookupStrict
  <2>3. CASE LookupFull(r)
    BY <2>3, LookupKeeps DEF LookupFull
  <2>4. CASE Decide429(r)
    BY <2>4, Decide429Keeps
  <2>5. CASE DecideUI(r)
    BY <2>5, DecideUIKeeps
  <2>6. CASE Lift(r)
    BY <2>6, LiftKeeps
  <2>7. CASE Clean(r)
    BY <2>7, CleanKeeps
  <2>. QED  BY <1>1, <2>1, <2>2, <2>3, <2>4, <2>5, <2>6, <2>7 DEF Ask
<1>2. ASSUME NEW r \in Requests, Answer(r) PROVE IInv'
  BY <1>2, SucceedsKeeps, FailsKeeps DEF Answer
<1>3. CASE InteractiveSuccess
  BY <1>3, SuccessKeeps
<1>4. CASE Tick
  BY <1>4, TickKeeps
<1>5. CASE Restart
  BY <1>5, RestartKeeps
<1>6. CASE UNCHANGED vars
  BY <1>6, StutterKeeps
<1>. QED  BY <1>1, <1>2, <1>3, <1>4, <1>5, <1>6 DEF Next

\* IInv holds in every reachable state.
LEMMA Inductive == Spec => []IInv
  BY Initially, NextKeeps, PTL DEF Spec

Has(s, k)   == \E i \in DOMAIN s : s[i] = k
Distinct(s) == \A i, j \in DOMAIN s : s[i] = s[j] => i = j

\* The order lists the cached keys, each once, and no key that dangles.
Orders ==
    /\ order \in Seq(Thumbprints) /\ Distinct(order) /\ Len(order) <= CacheSize
    /\ \A k \in Thumbprints : Has(order, k) <=> value[k] # NIL
    /\ dangling \subseteq Thumbprints /\ \A k \in dangling : value[k] = NIL

-----------------------------------------------------------------------------
(* The order of the database *)

\* Taking a key out of the order.
LEMMA WithoutKey ==
    ASSUME order \in Seq(Thumbprints), Distinct(order), NEW k, NEW s, s = DB!Without(k)
    PROVE  /\ s \in Seq(Thumbprints) /\ Distinct(s)
           /\ Len(s) = IF Has(order, k) THEN Len(order) - 1 ELSE Len(order)
           /\ \A j : Has(s, j) <=> Has(order, j) /\ j # k
<1>1. CASE Has(order, k)
  <2> DEFINE at == DB!At(k)
             n == Len(order)
  <2>1. at \in 1..n /\ order[at] = k
    BY <1>1 DEF DB!At, Has
  <2>2. n - 1 \in Nat /\ n \in Nat /\ DOMAIN order = 1..n
    BY <2>1
  <2>3. s = [i \in 1..n - 1 |-> order[IF i < at THEN i ELSE i + 1]]
    BY <1>1 DEF DB!Without, Has
  <2> HIDE DEF at, n
  <2>4. \A i \in 1..n - 1 : /\ (IF i < at THEN i ELSE i + 1) \in 1..n \ {at}
                            /\ s[i] = order[IF i < at THEN i ELSE i + 1]
    BY <2>1, <2>2, <2>3
  <2>5. s \in [1..n - 1 -> Thumbprints]
    BY <2>2, <2>3, <2>4
  <2>6. s \in Seq(Thumbprints) /\ Len(s) = n - 1 /\ DOMAIN s = 1..n-1
    BY <2>2, <2>5
  <2>7. Distinct(s)
    <3>. SUFFICES ASSUME NEW i \in 1..n-1, NEW j \in 1..n-1, s[i] = s[j] PROVE i = j
      BY <2>6 DEF Distinct
    <3>1. (IF i < at THEN i ELSE i + 1) = (IF j < at THEN j ELSE j + 1)
      BY <2>2, <2>4 DEF Distinct
    <3>. QED  BY <2>1, <2>2, <3>1
  <2>8. ASSUME NEW i \in 1..n-1 PROVE Has(order, s[i]) /\ s[i] # k
    BY <2>1, <2>2, <2>4 DEF Has, Distinct
  <2>9. ASSUME NEW j, Has(order, j), j # k PROVE \E i \in 1..n-1 : s[i] = j
    <3>1. PICK h \in 1..n : order[h] = j
      BY <2>2, <2>9 DEF Has
    <3>2. CASE h < at
      BY <2>1, <2>2, <2>4, <3>1, <3>2
    <3>3. CASE h > at
      <4>1. h - 1 \in 1..n-1 /\ ~ (h - 1 < at) /\ (h - 1) + 1 = h
        BY <2>1, <2>2, <3>3
      <4>. QED  BY <2>4, <3>1, <4>1
    <3>. QED  BY <2>1, <2>2, <2>9, <3>1, <3>2, <3>3
  <2>10. \A j : Has(s, j) <=> Has(order, j) /\ j # k
    BY <2>6, <2>8, <2>9 DEF Has
  <2>. QED  BY <1>1, <2>6, <2>7, <2>10 DEF n
<1>2. CASE ~ Has(order, k)
  <2>1. s = order
    BY <1>2 DEF DB!Without, Has
  <2>. QED  BY <1>2, <2>1 DEF Has
<1>. QED  BY <1>1, <1>2

\* t is s with k before it.
Fronts(t, k, s) ==
    /\ t \in Seq(Thumbprints) /\ Len(t) = Len(s) + 1 /\ t[1] = k
    /\ \A i \in 1..Len(s) : t[i + 1] = s[i]

LEMMA FrontsConcat ==
    ASSUME NEW s \in Seq(Thumbprints), NEW k \in Thumbprints, NEW t, t = <<k>> \o s
    PROVE  Fronts(t, k, s)
  BY DEF Fronts

\* Putting a key before the others.
LEMMA FrontKey ==
    ASSUME NEW s \in Seq(Thumbprints), Distinct(s), NEW k, ~ Has(s, k), NEW t, Fronts(t, k, s)
    PROVE  /\ t \in Seq(Thumbprints) /\ Distinct(t) /\ Len(t) = Len(s) + 1
           /\ \A j : Has(t, j) <=> j = k \/ Has(s, j)
<1>1. Len(s) \in Nat /\ t \in Seq(Thumbprints) /\ Len(t) = Len(s) + 1 /\ t[1] = k
  BY DEF Fronts
<1>2. DOMAIN t = 1..Len(s) + 1 /\ DOMAIN s = 1..Len(s)
  BY <1>1
<1>3. \A i \in 2..Len(s) + 1 : i - 1 \in 1..Len(s) /\ t[i] = s[i - 1]
  BY <1>1 DEF Fronts
<1>4. Distinct(t)
  <2>. SUFFICES ASSUME NEW i \in 1..Len(s) + 1, NEW j \in 1..Len(s) + 1, t[i] = t[j] PROVE i = j
    BY <1>2 DEF Distinct
  <2>1. CASE i = 1 /\ j # 1
    BY <1>1, <1>2, <1>3, <2>1 DEF Has
  <2>2. CASE i # 1 /\ j = 1
    BY <1>1, <1>2, <1>3, <2>2 DEF Has
  <2>3. CASE i # 1 /\ j # 1
    <3>1. i - 1 \in DOMAIN s /\ j - 1 \in DOMAIN s /\ s[i - 1] = s[j - 1]
      BY <1>1, <1>2, <1>3, <2>3
    <3>. QED  BY <1>2, <3>1 DEF Distinct
  <2>. QED  BY <2>1, <2>2, <2>3
<1>5. ASSUME NEW j, Has(t, j) PROVE j = k \/ Has(s, j)
  <2>1. PICK i \in 1..Len(s) + 1 : t[i] = j
    BY <1>2, <1>5 DEF Has
  <2>. QED  BY <1>1, <1>2, <1>3, <2>1 DEF Has
<1>6. ASSUME NEW j, j = k \/ Has(s, j) PROVE Has(t, j)
  <2>1. 1 \in DOMAIN t /\ \A i \in DOMAIN s : i + 1 \in DOMAIN t /\ t[i + 1] = s[i]
    BY <1>1, <1>2 DEF Fronts
  <2>. QED  BY <1>1, <1>6, <2>1 DEF Has
<1>. QED  BY <1>1, <1>4, <1>5, <1>6

\* A key that is read, or stored again, moves to the front.
LEMMA MovedToFront ==
    ASSUME Types, Orders, NEW k \in Thumbprints, DB!Cached(k), order' = DB!ToFront(k),
           UNCHANGED <<value, dangling>>
    PROVE  Orders'
<1>1. PICK s : s = DB!Without(k)
  OBVIOUS
<1>2. /\ s \in Seq(Thumbprints) /\ Distinct(s) /\ Len(s) = Len(order) - 1
      /\ \A j : Has(s, j) <=> Has(order, j) /\ j # k
  BY <1>1, WithoutKey DEF Orders, DB!Cached
<1>3. PICK t : t = order'
  OBVIOUS
<1>4. t = <<k>> \o s
  BY <1>1, <1>3 DEF DB!ToFront
<1>5. Fronts(t, k, s) /\ ~ Has(s, k)
  BY <1>2, <1>4, FrontsConcat
<1>6. /\ t \in Seq(Thumbprints) /\ Distinct(t) /\ Len(t) = Len(s) + 1
      /\ \A j : Has(t, j) <=> j = k \/ Has(s, j)
  BY <1>2, <1>5, FrontKey
<1>7. Len(order) \in Nat
  BY DEF Orders
<1>. QED  BY <1>2, <1>3, <1>6, <1>7 DEF Orders, DB!Cached

LEMMA SetNewOrders ==
    ASSUME Types, Orders, NEW k \in Thumbprints, NEW rec \in CacheRecord, DB!SetNew(k, rec)
    PROVE  Orders'
<1> DEFINE gone == IF DB!Full THEN {DB!Last} ELSE {}
<1>1. Len(order) \in Nat /\ CacheSize \in Nat \ {0}
  BY ThrottlingAssumption DEF Orders
<1>2. ~ Has(order, k) /\ k \notin dangling /\ NIL \notin CacheRecord
  BY NilIsNone, ThrottlingAssumption DEF DB!SetNew, DB!Mapped, DB!Cached, Orders
<1>3. gone \subseteq Thumbprints /\ \A j \in gone : Has(order, j)
  BY <1>1 DEF DB!Full, DB!Last, Orders, Has
<1>4. PICK s : s = IF DB!Full THEN DB!Without(DB!Last) ELSE order
  OBVIOUS
<1>5. /\ s \in Seq(Thumbprints) /\ Distinct(s) /\ Len(s) < CacheSize
      /\ \A j : Has(s, j) <=> Has(order, j) /\ j \notin gone
  <2>1. CASE DB!Full
    <3>1. Has(order, DB!Last)
      BY <1>3, <2>1
    <3>2. s = DB!Without(DB!Last) /\ gone = {DB!Last}
      BY <1>4, <2>1
    <3> HIDE DEF gone
    <3>3. /\ s \in Seq(Thumbprints) /\ Distinct(s) /\ Len(s) = Len(order) - 1
          /\ \A j : Has(s, j) <=> Has(order, j) /\ j # DB!Last
      BY <3>1, <3>2, WithoutKey DEF Orders
    <3>4. Len(order) - 1 < CacheSize
      BY <1>1 DEF Orders
    <3>. QED  BY <3>2, <3>3, <3>4
  <2>2. CASE ~ DB!Full
    BY <1>1, <1>4, <2>2 DEF Orders, DB!Full
  <2>. QED  BY <2>1, <2>2
<1>6. PICK t : t = order'
  OBVIOUS
<1>7. t = <<k>> \o s
  BY <1>4, <1>6 DEF DB!SetNew
<1>8. dangling' = dangling \cup gone
  BY DEF DB!SetNew
<1>9. \A j \in Thumbprints : value'[j] = IF j = k THEN rec ELSE IF j \in gone THEN NIL ELSE value[j]
  <2>1. value \in [Thumbprints -> CacheRecord \cup {NIL}]
    BY DEF Types
  <2>. QED  BY <2>1 DEF DB!SetNew
<1> HIDE DEF gone
<1>10. Fronts(t, k, s) /\ ~ Has(s, k)
  BY <1>2, <1>5, <1>7, FrontsConcat
<1>11. /\ t \in Seq(Thumbprints) /\ Distinct(t) /\ Len(t) = Len(s) + 1
       /\ \A j : Has(t, j) <=> j = k \/ Has(s, j)
  BY <1>5, <1>10, FrontKey
<1>12. Len(t) <= CacheSize
  BY <1>1, <1>5, <1>11
<1>13. \A j \in Thumbprints : Has(t, j) <=> value'[j] # NIL
  BY <1>2, <1>5, <1>9, <1>11 DEF Orders
<1>14. dangling' \subseteq Thumbprints /\ \A j \in dangling' : value'[j] = NIL
  BY <1>2, <1>3, <1>8, <1>9 DEF Orders
<1>. QED  BY <1>6, <1>11, <1>12, <1>13, <1>14 DEF Orders

LEMMA StoreOrders ==
    ASSUME Types, Orders, NEW k \in Thumbprints, NEW rec \in CacheRecord, DB!SetObject(k, rec)
    PROVE  Orders'
<1>1. CASE DB!SetNew(k, rec)
  BY <1>1, SetNewOrders
<1>2. CASE DB!SetMapped(k, rec)
  BY <1>2, MovedToFront DEF DB!SetMapped
<1>3. CASE UNCHANGED <<order, value, dangling>>
  BY <1>3 DEF Orders
<1>. QED  BY <1>1, <1>2, <1>3 DEF DB!SetObject, DB!SetRejected, DB!SetDangling

LEMMA RemoveOrders ==
    ASSUME Types, Orders, NEW k \in Thumbprints, DB!RemoveObject(k) PROVE Orders'
<1>1. CASE DB!RemoveMissing(k)
  BY <1>1 DEF Orders, DB!RemoveMissing
<1>2. CASE DB!RemoveMapped(k)
  <2>1. PICK s : s = order'
    OBVIOUS
  <2>2. /\ s \in Seq(Thumbprints) /\ Distinct(s)
        /\ Len(s) = IF Has(order, k) THEN Len(order) - 1 ELSE Len(order)
        /\ \A j : Has(s, j) <=> Has(order, j) /\ j # k
    BY <1>2, <2>1, WithoutKey DEF Orders, DB!RemoveMapped
  <2>3. \A j \in Thumbprints : value'[j] = IF j = k THEN NIL ELSE value[j]
    BY <1>2 DEF DB!RemoveMapped, Types
  <2>4. dangling' = dangling \ {k}
    BY <1>2 DEF DB!RemoveMapped
  <2>5. Len(s) <= CacheSize
    BY <2>2, ThrottlingAssumption DEF Orders
  <2>. QED  BY <2>1, <2>2, <2>3, <2>4, <2>5 DEF Orders
<1>. QED  BY <1>1, <1>2 DEF DB!RemoveObject

LEMMA GetOrders ==
    ASSUME Types, Orders, NEW k \in Thumbprints, DB!GetHit(k) \/ DB!GetMiss(k) PROVE Orders'
<1>1. CASE DB!GetHit(k)
  BY <1>1, MovedToFront DEF DB!GetHit
<1>2. CASE DB!GetMiss(k)
  BY <1>2 DEF Orders, DB!GetMiss
<1>. QED  BY <1>1, <1>2

\* Every step keeps the order of the database in step with its records.
LEMMA OrdersStep == Types /\ Orders /\ [Next]_vars => Orders'
<1>. SUFFICES ASSUME Types, Orders, [Next]_vars PROVE Orders'
  OBVIOUS
<1>1. ASSUME UNCHANGED db PROVE Orders'
  BY <1>1 DEF Orders, db
<1>2. ASSUME NEW r \in Requests, Ask(r) PROVE Orders'
  <2>1. CASE LookupStrict(r) \/ LookupFull(r)
    BY <2>1, GetOrders, Keys DEF LookupStrict, LookupFull, Lookup, Thumbprints
  <2>2. CASE Lift(r) \/ Clean(r)
    BY <2>2, RemoveOrders, Keys DEF Lift, Clean, Thumbprints
  <2>3. CASE Start(r) \/ Decide429(r) \/ DecideUI(r)
    BY <1>1, <2>3 DEF Start, Decide429, DecideUI
  <2>. QED  BY <1>2, <2>1, <2>2, <2>3 DEF Ask
<1>3. ASSUME NEW r \in Requests, Answer(r) PROVE Orders'
  <2>1. CASE Succeeds(r)
    BY <1>1, <2>1 DEF Succeeds
  <2>2. ASSUME NEW e \in ErrorResponse, NEW lag \in {0, 1}, FailsWith(r, e, lag) PROVE Orders'
    <3>1. CASE ThrottleType(e) = "None"
      BY <1>1, <2>2, <3>1 DEF FailsWith
    <3>2. CASE ThrottleType(e) # "None"
      BY <2>2, <3>2, Made, Keys, StoreOrders DEF FailsWith
    <3>. QED  BY <3>1, <3>2
  <2>. QED  BY <1>3, <2>1, <2>2 DEF Answer
<1>4. CASE InteractiveSuccess \/ Tick \/ UNCHANGED vars
  BY <1>1, <1>4 DEF InteractiveSuccess, Tick, vars
<1>5. CASE Restart
  <2>1. order' = <<>> /\ value' = [k \in Thumbprints |-> NIL] /\ dangling' = {}
    BY <1>5 DEF Restart
  <2>. QED  BY <2>1, ThrottlingAssumption DEF Orders, Has, Distinct
<1>. QED  BY <1>2, <1>3, <1>4, <1>5 DEF Next

LEMMA OrdersInitially == Init => Orders
  BY ThrottlingAssumption DEF Init, DB!Init, Orders, Has, Distinct

LEMMA OrdersAlways == Spec => []Orders
<1>1. IInv => Types
  BY DEF IInv
<1>. QED  BY <1>1, OrdersInitially, OrdersStep, Inductive, PTL DEF Spec

-----------------------------------------------------------------------------
(* What a request is answered *)

\* shouldThrottleRequest:resultBlock: refuses a request only with an error that the server
\* gave to the same question, however many requests share the two kinds of thumbprints.
THEOREM RefusedWithOwnError == Spec => []NoCrossTalk
<1>1. IInv => NoCrossTalk
  BY DEF IInv, NoCrossTalk, Answered, Sees, Holds, ModelKey
<1>. QED  BY <1>1, Inductive, PTL

\* createDBCacheRecord bounds the time for which objectForKey:error: can refuse with a record:
\* reading it does not prolong it, and neither do the two readings of the clock.
THEOREM RefusedForALimitedTime == Spec => []RefusalEnds
<1>1. ASSUME IInv, NEW r \in Requests, pc[r] = "answered"
      PROVE  /\ found[r] < seen[r].creation + Longest * SECOND
             /\ seen[r].throttleType = "InteractiveRequired" =>
                    found[r] < seen[r].creation + DefaultUI * SECOND
  <2>1. /\ found[r] \in Nat /\ seen[r].creation \in Nat /\ seen[r].expiration \in Nat
        /\ Short(seen[r]) /\ found[r] < seen[r].expiration
    BY <1>1, NilIsNone DEF IInv, Sees, Holds, Refused
  <2>2. Longest * SECOND \in Nat /\ DefaultUI * SECOND \in Nat
    BY ThrottlingAssumption, Lengths
  <2>. QED  BY <2>1, <2>2 DEF Short
<1>2. IInv => RefusalEnds
  BY <1>1 DEF RefusalEnds, Answered
<1>. QED  BY <1>2, Inductive, PTL

\* shouldThrottleRequest of MSIDThrottlingModelNonRecoverableServerError: after an interactive
\* success whose time was saved, no demand for interaction of an earlier second is repeated to
\* a request that can read that time, also across restarts and when later saves fail.
THEOREM SuccessLiftsDemand == Spec => []InteractionLifts
<1>1. IInv => InteractionLifts
  BY DEF IInv, InteractionLifts, Answered, Refused
<1>. QED  BY <1>1, Inductive, PTL

\* Neither removal, of the model or of cleanCacheRecordFromDB, takes away a record that was
\* there at the lookup and that the request did not decide about.
THEOREM RemovesWhatItSaw == Spec => CleansWhatItSaw
<1> DEFINE Own == \A r \in Requests, k \in Thumbprints :
                    (Lift(r) \/ Clean(r)) /\ value[k] # NIL /\ value'[k] = NIL
                        => value[k] = seen[r] \/ value[k].creation >= found[r]
<1>1. IInv => Own
  <2>. SUFFICES ASSUME IInv, NEW r \in Requests, NEW k \in Thumbprints, Lift(r) \/ Clean(r),
                       value[k] # NIL, value'[k] = NIL
                PROVE  value[k] = seen[r] \/ value[k].creation >= found[r]
    OBVIOUS
  <2>1. Types /\ Sees(r) /\ Current(r) /\ Holds(r)
    BY DEF IInv, Lift, Clean, Holds
  <2>2. DB!RemoveObject(ModelKey(r, seen[r].throttleType))
    BY <2>1 DEF Sees, Lift, Clean, ModelKey
  <2>3. k = ModelKey(r, seen[r].throttleType)
    BY <2>1, <2>2, Takes, Keys
  <2>. QED  BY <2>1, <2>3 DEF Current
<1> HIDE DEF Own
<1>2. IInv /\ [Next]_vars => [Own]_vars
  BY <1>1
<1>3. Spec => [][Own]_vars
  BY <1>2, Inductive, PTL DEF Spec
<1>. QED  BY <1>3 DEF CleansWhatItSaw, Own

\* Every field of the database and of the requests keeps its type.
THEOREM TypeCorrect == Spec => []TypeOK
<1>1. IInv /\ Orders => TypeOK
  BY DEF IInv, Types, Orders, TypeOK
<1>. QED  BY <1>1, Inductive, OrdersAlways, PTL

\* setObject:forKey:error:, objectForKey:error: and removeObjectForKey:error: keep the records
\* and their order in step: a thumbprint has a record exactly when it is in the order, once; a
\* thumbprint whose record was evicted has none; and there are never more than
\* DEFAULT_CACHE_SIZE records.
THEOREM DatabaseInOrder == Spec => []Orders
  BY OrdersAlways
=============================================================================
