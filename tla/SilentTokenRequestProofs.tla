---------------------- MODULE SilentTokenRequestProofs ----------------------
(***************************************************************************)
(* Proofs about SilentTokenRequest for any number of clients, requests and *)
(* answers: a request moves on, a token the server called bad is gone when *)
(* the request ends, and the user is not asked without need.               *)
(***************************************************************************)
EXTENDS SilentTokenRequest, TLAPS

Kinds == {"app", "family"}
Early == {"access token", "result", "remove access token", "app token", "family token"}
Holding == {"redeem", "sent", "validate", "remove", "clear", "refused", "mismatch"}
Pcs == {"idle", "saving", "done"} \cup Early \cup Holding
Outcomes == {"none", "killed"} \cup Results

Record ==
    [pc : Pcs, client : Clients \cup {"nobody"}, kind : Kinds, token : Tokens,
     unexpired : Tokens, extended : Tokens, write : 0..6, outcome : Outcomes,
     excused : BOOLEAN, rejected : SUBSET (Kinds \X Ids)]

\* The last write of an answer for client c, and the one that writes the entry
\* of a kind: 0 if there is none.
LastWrite(c) == IF c \in Members THEN 6 ELSE 5
Place(c, kind) ==
    IF c \in Members THEN IF kind = "family" THEN 4 ELSE 5
                     ELSE IF kind = "family" THEN 0 ELSE 4

\* What a request holds fits where it is.
Placed(q) ==
    /\ q.pc = "idle" => q.client = "nobody" /\ q.rejected = {}
    /\ q.pc # "idle" => q.client \in Clients
    /\ q.pc \in {"idle"} \cup Early => q.kind = "app"
    /\ q.pc \in Holding \cup {"saving"} => q.token \in Ids
    /\ q.pc = "saving" => q.write \in 1..LastWrite(q.client)
    /\ q.pc # "saving" => q.write = 0
    /\ q.pc # "done" => q.outcome = "none"
    /\ q.pc = "mismatch" => q.kind = "family" /\ q.client \notin Members

Types ==
    /\ CacheTypeOK
    /\ request \in [Requests -> Record]
    /\ issued \in 0..MaxIssued
    /\ dead \in SUBSET (1..issued)
    /\ gone \in BOOLEAN
    /\ age \in [Ids -> {Ages[n] : n \in DOMAIN Ages}]
    /\ faults \in 0..MaxFaults

LEMMA SameTypes == TypeOK <=> Types /\ \A r \in Requests : usable[r] \subseteq Kinds \X Ids
  BY DEF TypeOK, Types, Record, Pcs, Early, Holding, Kinds, Outcomes, Results

-----------------------------------------------------------------------------
(* The steps of a request *)

\* Where the refresh token is written.
LEMMA WritesAre ==
    ASSUME NEW c \in Clients
    PROVE  /\ Len(Writes(c)) = LastWrite(c)
           /\ \A w \in 1..LastWrite(c) :
                /\ Writes(c)[w] = "family refresh token" <=> w = Place(c, "family")
                /\ Writes(c)[w] = "refresh token" <=> w = Place(c, "app")
<1>1. CASE c \in Members
  <2> DEFINE all == <<"remove access token", "access token", "id token",
                      "family refresh token", "refresh token", "app metadata">>
  <2>1. Writes(c) = all
    BY <1>1 DEF Writes
  <2>2. Len(all) = 6
    OBVIOUS
  <2>3. /\ all[1] = "remove access token" /\ all[2] = "access token"
        /\ all[3] = "id token" /\ all[4] = "family refresh token"
        /\ all[5] = "refresh token" /\ all[6] = "app metadata"
    OBVIOUS
  <2>4. LastWrite(c) = 6 /\ Place(c, "family") = 4 /\ Place(c, "app") = 5
    BY <1>1 DEF LastWrite, Place
  <2>5. \A w \in 1..6 : w = 1 \/ w = 2 \/ w = 3 \/ w = 4 \/ w = 5 \/ w = 6
    OBVIOUS
  <2> HIDE DEF all
  <2>6. Len(Writes(c)) = LastWrite(c)
    BY <2>1, <2>2, <2>4
  <2>7. \A w \in 1..6 :
            /\ all[w] = "family refresh token" <=> w = Place(c, "family")
            /\ all[w] = "refresh token" <=> w = Place(c, "app")
    BY <2>3, <2>4, <2>5
  <2>. QED  BY <2>1, <2>4, <2>6, <2>7
<1>2. CASE c \notin Members
  <2> DEFINE all == <<"remove access token", "access token", "id token", "refresh token",
                      "app metadata">>
  <2>1. Writes(c) = all
    BY <1>2 DEF Writes
  <2>2. Len(all) = 5
    OBVIOUS
  <2>3. /\ all[1] = "remove access token" /\ all[2] = "access token"
        /\ all[3] = "id token" /\ all[4] = "refresh token" /\ all[5] = "app metadata"
    OBVIOUS
  <2>4. LastWrite(c) = 5 /\ Place(c, "family") = 0 /\ Place(c, "app") = 4
    BY <1>2 DEF LastWrite, Place
  <2>5. \A w \in 1..5 : w # 0 /\ (w = 1 \/ w = 2 \/ w = 3 \/ w = 4 \/ w = 5)
    OBVIOUS
  <2> HIDE DEF all
  <2>6. Len(Writes(c)) = LastWrite(c)
    BY <2>1, <2>2, <2>4
  <2>7. \A w \in 1..5 :
            /\ all[w] = "family refresh token" <=> w = Place(c, "family")
            /\ all[w] = "refresh token" <=> w = Place(c, "app")
    BY <2>3, <2>4, <2>5
  <2>. QED  BY <2>1, <2>4, <2>6, <2>7
<1>. QED  BY <1>1, <1>2

\* What r becomes, of a record of types Record.
Becomes(r, n) == request' = [request EXCEPT ![r] = n]

LEMMA BecomesFacts ==
    ASSUME Types, NEW r \in Requests, NEW n \in Record, Becomes(r, n)
    PROVE  /\ request' \in [Requests -> Record] /\ request'[r] = n
           /\ \A s \in Requests : s # r => request'[s] = request[s]
  BY DEF Types, Becomes

LEMMA GoesFacts ==
    ASSUME Types, NEW r \in Requests, NEW pc \in Pcs, Goes(r, pc)
    PROVE  LET q == request[r]  n == request'[r] IN
           /\ request' \in [Requests -> Record]
           /\ \A s \in Requests : s # r => request'[s] = request[s]
           /\ n.pc = pc /\ n.client = q.client /\ n.kind = q.kind /\ n.token = q.token
           /\ n.write = q.write /\ n.outcome = q.outcome /\ n.excused = q.excused
           /\ n.rejected = q.rejected
<1>1. request[r] \in Record
  BY DEF Types
<1>2. [request[r] EXCEPT !.pc = pc] \in Record
  BY <1>1 DEF Record
<1>3. Becomes(r, [request[r] EXCEPT !.pc = pc])
  BY DEF Goes, Becomes
<1>. QED  BY <1>1, <1>2, <1>3, BecomesFacts DEF Record

LEMMA EndedFacts ==
    ASSUME Types, NEW r \in Requests, NEW how \in Outcomes
    PROVE  LET q == request[r]  n == Ended(r, how) IN
           /\ n \in Record
           /\ n.pc = "done" /\ n.client = q.client /\ n.kind = "app" /\ n.token = None
           /\ n.write = 0 /\ n.outcome = how /\ n.excused = q.excused
           /\ n.rejected = q.rejected
<1>1. request[r] \in Record
  BY DEF Types
<1> DEFINE q == request[r]
<1>2. Ended(r, how) \in
        [pc : {"done"}, client : {q.client}, kind : {"app"}, token : {None},
         unexpired : {None}, extended : {None}, write : {0}, outcome : {how},
         excused : {q.excused}, rejected : {q.rejected}]
  BY DEF Ended, Client, Idle
<1>3. q.client \in Clients \cup {"nobody"} /\ q.excused \in BOOLEAN
      /\ q.rejected \in SUBSET (Kinds \X Ids)
  BY <1>1 DEF Record
<1>4. "done" \in Pcs /\ "app" \in Kinds /\ None \in Tokens /\ 0 \in 0..6
  BY DEF Pcs, Kinds, Tokens
<1> DEFINE n == Ended(r, how)
<1>5. n \in Record
  BY <1>2, <1>3, <1>4 DEF Record
<1>6. /\ n.pc = "done" /\ n.client = q.client /\ n.kind = "app" /\ n.token = None
      /\ n.write = 0 /\ n.outcome = how /\ n.excused = q.excused
      /\ n.rejected = q.rejected
  BY <1>2
<1>. QED  BY <1>5, <1>6

LEMMA CompletesFacts ==
    ASSUME Types, NEW r \in Requests, NEW how \in Outcomes,
           Completes(r, how) \/ CompletesExcused(r, how)
    PROVE  LET q == request[r]  n == request'[r] IN
           /\ request' \in [Requests -> Record]
           /\ \A s \in Requests : s # r => request'[s] = request[s]
           /\ n.pc = "done" /\ n.client = q.client /\ n.kind = "app" /\ n.token = None
           /\ n.write = 0 /\ n.outcome = how
           /\ (n.excused = q.excused /\ Completes(r, how)) \/ n.excused
           /\ n.rejected = q.rejected
<1> DEFINE q == request[r]  e == Ended(r, how)
<1>1. /\ e \in Record /\ e.pc = "done" /\ e.client = q.client /\ e.kind = "app"
      /\ e.token = None /\ e.write = 0 /\ e.outcome = how /\ e.excused = q.excused
      /\ e.rejected = q.rejected
  BY EndedFacts
<1>2. CASE Completes(r, how)
  <2>1. Becomes(r, e)
    BY <1>2 DEF Completes, Becomes
  <2> HIDE DEF e
  <2>. QED  BY <1>1, <1>2, <2>1, BecomesFacts
<1>3. CASE CompletesExcused(r, how)
  <2>1. Becomes(r, [e EXCEPT !.excused = TRUE])
    BY <1>3 DEF CompletesExcused, Becomes
  <2> HIDE DEF e
  <2>2. [e EXCEPT !.excused = TRUE] \in Record
    BY <1>1 DEF Record
  <2>. QED  BY <1>1, <2>1, <2>2, BecomesFacts DEF Record
<1>. QED  BY <1>2, <1>3

LEMMA TriesFacts ==
    ASSUME Types, NEW r \in Requests, NEW kind \in Kinds, NEW t \in Ids, Tries(r, kind, t)
    PROVE  LET q == request[r]  n == request'[r] IN
           /\ request' \in [Requests -> Record]
           /\ \A s \in Requests : s # r => request'[s] = request[s]
           /\ n.pc = "redeem" /\ n.client = q.client /\ n.kind = kind /\ n.token = t
           /\ n.write = q.write /\ n.outcome = q.outcome /\ n.excused = q.excused
           /\ n.rejected = q.rejected
<1> DEFINE n == [request[r] EXCEPT !.pc = "redeem", !.kind = kind, !.token = t]
<1>1. request[r] \in Record
  BY DEF Types
<1>2. n \in Record
  BY <1>1 DEF Record, Pcs, Holding, Tokens
<1>3. Becomes(r, n)
  BY <1>1 DEF Tries, Becomes, Types
<1>4. LET q == request[r] IN
      /\ n.pc = "redeem" /\ n.client = q.client /\ n.kind = kind /\ n.token = t
      /\ n.write = q.write /\ n.outcome = q.outcome /\ n.excused = q.excused
      /\ n.rejected = q.rejected
  BY <1>1 DEF Record
<1> HIDE DEF n
<1>. QED  BY <1>2, <1>3, <1>4, BecomesFacts

-----------------------------------------------------------------------------
(* The stages: a request moves on *)

Rank(pc) ==
    CASE pc = "idle" -> 0
      [] pc = "access token" -> 1
      [] pc \in {"result", "remove access token"} -> 2
      [] pc = "app token" -> 3
      [] pc = "family token" -> 4
      [] pc = "redeem" -> 5
      [] pc = "sent" -> 6
      [] pc \in {"saving", "validate", "clear", "mismatch"} -> 7
      [] pc = "remove" -> 8
      [] pc = "refused" -> 9
      [] pc = "done" -> 50

LEMMA Ranks ==
    /\ Rank("idle") = 0 /\ Rank("access token") = 1 /\ Rank("result") = 2
    /\ Rank("remove access token") = 2 /\ Rank("app token") = 3
    /\ Rank("family token") = 4 /\ Rank("redeem") = 5 /\ Rank("sent") = 6
    /\ Rank("saving") = 7 /\ Rank("validate") = 7 /\ Rank("clear") = 7
    /\ Rank("mismatch") = 7 /\ Rank("remove") = 8 /\ Rank("refused") = 9
    /\ Rank("done") = 50
  BY DEF Rank

LEMMA RankRange ==
    /\ \A pc \in Early : Rank(pc) \in Nat /\ Rank(pc) <= 4
    /\ \A pc \in Pcs : Rank(pc) \in Nat /\ (pc # "done" => Rank(pc) <= 9)
<1>1. \A pc \in Early : Rank(pc) \in Nat /\ Rank(pc) <= 4
  <2> SUFFICES ASSUME NEW pc \in Early PROVE Rank(pc) \in {1, 2, 3, 4}
    <3>1. \A n \in {1, 2, 3, 4} : n \in Nat /\ n <= 4
      OBVIOUS
    <3>. QED  BY <3>1
  <2>1. \/ pc = "access token" \/ pc = "result" \/ pc = "remove access token"
        \/ pc = "app token" \/ pc = "family token"
    BY DEF Early
  <2>. QED  BY <2>1, Ranks
<1>2. \A pc \in Holding \cup {"idle", "saving"} : Rank(pc) \in Nat /\ Rank(pc) <= 9
  <2> SUFFICES ASSUME NEW pc \in Holding \cup {"idle", "saving"}
               PROVE  Rank(pc) \in {0, 5, 6, 7, 8, 9}
    <3>1. \A n \in {0, 5, 6, 7, 8, 9} : n \in Nat /\ n <= 9
      OBVIOUS
    <3>. QED  BY <3>1
  <2>1. \/ pc = "redeem" \/ pc = "sent" \/ pc = "validate" \/ pc = "remove"
        \/ pc = "clear" \/ pc = "refused" \/ pc = "mismatch"
        \/ pc = "idle" \/ pc = "saving"
    BY DEF Holding
  <2>. QED  BY <2>1, Ranks
<1>3. Rank("done") = 50
  BY Ranks
<1>4. 50 \in Nat /\ \A n \in Nat : n <= 4 => n <= 9
  OBVIOUS
<1>. QED  BY <1>1, <1>2, <1>3, <1>4 DEF Pcs

LEMMA StageIs ==
    ASSUME NEW q
    PROVE  Stage(q) = (IF q.kind = "family" THEN 20 ELSE 0) + q.write + Rank(q.pc)
  BY DEF Stage, Rank

\* What every step of a request has in common.
Moves(r) ==
    LET q == request[r]  n == request'[r] IN
    /\ request' \in [Requests -> Record]
    /\ \A s \in Requests : s # r => request'[s] = request[s]
    /\ Placed(n)
    /\ Stage(n) > Stage(q)
    /\ q.pc # "done" /\ (q.pc # "idle" => n.client = q.client)
    /\ n.pc \in Holding =>
            IF n.pc = "redeem" THEN n.token = Entry(n.client, n.kind)
            ELSE q.pc \in Holding /\ n.kind = q.kind /\ n.token = q.token
    /\ n.pc = "saving" =>
            IF q.pc = "saving" THEN n.token = q.token /\ n.write = q.write + 1
            ELSE n.token = issued + 1 /\ issued' = issued + 1
    /\ n.rejected \subseteq q.rejected \/ BadToken(r)
    /\ q.excused => n.excused
    /\ n.pc = "done" => n.outcome \in Results

\* Only these are sent back to nothing, or come from the server.
LEMMA MovesByGoing ==
    ASSUME Types, NEW r \in Requests, Placed(request[r]),
           request[r].pc \in Early \cup Holding,
           NEW pc \in Early \cup Holding, Goes(r, pc), Rank(pc) > Rank(request[r].pc),
           pc \in Early => request[r].pc \in Early,
           pc \in Holding => request[r].pc \in Holding, pc # "redeem",
           pc = "mismatch" => request[r].kind = "family" /\ request[r].client \notin Members
    PROVE  Moves(r)
<1> DEFINE q == request[r]  n == request'[r]
<1>0. pc \in Pcs /\ pc \notin {"idle", "saving", "done"}
  BY DEF Pcs, Early, Holding
<1>1. /\ request' \in [Requests -> Record]
      /\ \A s \in Requests : s # r => request'[s] = request[s]
      /\ n.pc = pc /\ n.client = q.client /\ n.kind = q.kind /\ n.token = q.token
      /\ n.write = q.write /\ n.outcome = q.outcome /\ n.excused = q.excused
      /\ n.rejected = q.rejected
  BY <1>0, GoesFacts
<1>2. q.pc \notin {"idle", "saving", "done"} /\ q.pc \in Pcs /\ n \in Record
  BY <1>1 DEF Pcs, Early, Holding
<1>3. Placed(n)
  BY <1>0, <1>1, <1>2 DEF Placed
<1>4. Stage(n) > Stage(q)
  <2>1. q.write = 0 /\ n.write = 0
    BY <1>1, <1>2 DEF Placed
  <2>2. Rank(q.pc) \in Nat /\ Rank(n.pc) \in Nat
    BY <1>0, <1>1, <1>2, RankRange
  <2>. QED  BY <1>1, <2>1, <2>2, StageIs
<1>. QED  BY <1>0, <1>1, <1>2, <1>3, <1>4 DEF Moves

\* The transitions of a request that change nothing but its place.
Edge(from, to) ==
    \/ from = "access token" /\ to \in {"app token", "result", "remove access token"}
    \/ from \in {"result", "remove access token"} /\ to = "app token"
    \/ from = "app token" /\ to = "family token"
    \/ from = "redeem" /\ to \in {"sent", "mismatch"}
    \/ from = "sent" /\ to \in {"refused", "mismatch", "clear"}
    \/ from = "validate" /\ to \in {"remove", "refused"}
    \/ from \in {"remove", "clear"} /\ to = "refused"

LEMMA EdgesRise ==
    ASSUME NEW from, NEW to, Edge(from, to)
    PROVE  Rank(to) > Rank(from)
<1>1. Rank("app token") > Rank("access token")
  BY DEF Rank
<1>2. Rank("result") > Rank("access token")
  BY DEF Rank
<1>3. Rank("remove access token") > Rank("access token")
  BY DEF Rank
<1>4. Rank("app token") > Rank("result")
  BY DEF Rank
<1>5. Rank("app token") > Rank("remove access token")
  BY DEF Rank
<1>6. Rank("family token") > Rank("app token")
  BY DEF Rank
<1>7. Rank("sent") > Rank("redeem")
  BY DEF Rank
<1>8. Rank("refused") > Rank("sent")
  BY DEF Rank
<1>9. Rank("mismatch") > Rank("redeem")
  BY DEF Rank
<1>10. Rank("mismatch") > Rank("sent")
  BY DEF Rank
<1>11. Rank("clear") > Rank("sent")
  BY DEF Rank
<1>12. Rank("remove") > Rank("validate")
  BY DEF Rank
<1>13. Rank("refused") > Rank("validate")
  BY DEF Rank
<1>14. Rank("refused") > Rank("remove")
  BY DEF Rank
<1>15. Rank("refused") > Rank("clear")
  BY DEF Rank
<1>. QED
  BY <1>1, <1>2, <1>3, <1>4, <1>5, <1>6, <1>7, <1>8, <1>9, <1>10, <1>11, <1>12, <1>13,
     <1>14, <1>15 DEF Edge

LEMMA EdgesStay ==
    ASSUME NEW from, NEW to, Edge(from, to)
    PROVE  /\ from \in Early \cup Holding /\ to \in Early \cup Holding
           /\ to \in Early => from \in Early
           /\ to \in Holding => from \in Holding
           /\ to # "redeem"
  BY DEF Edge, Early, Holding

LEMMA MovesAlong ==
    ASSUME Types, NEW r \in Requests, Placed(request[r]),
           NEW from, NEW to, Edge(from, to), request[r].pc = from, Goes(r, to),
           to = "mismatch" => request[r].kind = "family" /\ request[r].client \notin Members
    PROVE  Moves(r)
  BY EdgesRise, EdgesStay, MovesByGoing

LEMMA MovesByCompleting ==
    ASSUME Types, NEW r \in Requests, Placed(request[r]),
           request[r].pc \notin {"idle", "done"},
           NEW how \in Results, Completes(r, how) \/ CompletesExcused(r, how)
    PROVE  Moves(r)
<1> DEFINE q == request[r]  n == request'[r]
<1>0. how \in Outcomes
  BY DEF Outcomes
<1>1. /\ request' \in [Requests -> Record]
      /\ \A s \in Requests : s # r => request'[s] = request[s]
      /\ n.pc = "done" /\ n.client = q.client /\ n.kind = "app" /\ n.write = 0
      /\ n.outcome = how /\ n.rejected = q.rejected /\ (q.excused => n.excused)
  BY <1>0, CompletesFacts
<1>2. Placed(n)
  BY <1>1 DEF Placed, Early, Holding
<1>3. q \in Record /\ q.pc \in Pcs /\ q.write \in 0..6
  BY DEF Types, Record
<1>4. Stage(n) > Stage(q)
  <2>1. Rank(q.pc) \in Nat /\ Rank(q.pc) <= 9 /\ Rank(n.pc) = 50
    BY <1>1, <1>3, Ranks, RankRange
  <2>. QED  BY <1>1, <1>3, <2>1, StageIs
<1>5. n.pc \notin Holding /\ n.pc # "saving"
  BY <1>1 DEF Holding
<1>. QED  BY <1>1, <1>2, <1>4, <1>5 DEF Moves

LEMMA MovesByTrying ==
    ASSUME Types, NEW r \in Requests, Placed(request[r]),
           NEW kind \in Kinds, NEW t \in Ids, Tries(r, kind, t),
           t = Entry(Client(r), kind),
           \/ request[r].pc \in Early
           \/ request[r].pc = "refused" /\ request[r].kind = "app" /\ kind = "family"
    PROVE  Moves(r)
<1> DEFINE q == request[r]  n == request'[r]
<1>1. /\ request' \in [Requests -> Record]
      /\ \A s \in Requests : s # r => request'[s] = request[s]
      /\ n.pc = "redeem" /\ n.client = q.client /\ n.kind = kind /\ n.token = t
      /\ n.write = q.write /\ n.outcome = q.outcome
      /\ n.excused = q.excused /\ n.rejected = q.rejected
  BY TriesFacts
<1>2. q.pc \notin {"idle", "saving", "done"} /\ q.write = 0
  BY DEF Placed, Early
<1>3. Placed(n)
  BY <1>1, <1>2 DEF Placed, Early, Holding
<1>4. Stage(n) > Stage(q)
  <2>1. n.write = 0 /\ Rank(n.pc) = 5
    BY <1>1, <1>2, Ranks
  <2>2. CASE q.pc \in Early
    <3>1. Rank(q.pc) \in Nat /\ Rank(q.pc) <= 4
      BY <2>2, RankRange
    <3>2. q.kind = "app"
      BY <2>2 DEF Placed
    <3>. QED  BY <1>1, <1>2, <2>1, <3>1, <3>2, StageIs
  <2>3. CASE q.pc = "refused" /\ q.kind = "app" /\ kind = "family"
    <3>1. Rank(q.pc) = 9
      BY <2>3, Ranks
    <3>. QED  BY <1>1, <1>2, <2>1, <2>3, <3>1, StageIs
  <2>. QED  BY <2>2, <2>3
<1>5. n.token = Entry(n.client, n.kind)
  BY <1>1 DEF Client
<1>. QED  BY <1>1, <1>2, <1>3, <1>4, <1>5 DEF Moves

\* What the actions of one request may be.
Acts(r) ==
    \/ \E c \in Clients, force \in BOOLEAN : Start(r, c, force)
    \/ \E c \in Clients : SignIn(r, c)
    \/ Handles(r)
    \/ Faulty(r)

LEMMA TokensRead ==
    ASSUME Types, NEW c \in Clients
    PROVE  /\ accessToken[c] \in Tokens /\ refreshToken[c] \in Tokens
           /\ familyRefreshToken.secret \in Tokens /\ FamilyTokenFor(c) \in Tokens
           /\ FamilyTokenFor(c) # None => FamilyTokenFor(c) = familyRefreshToken.secret
           /\ \A kind \in Kinds : Entry(c, kind) \in Tokens
<1>1. accessToken[c] \in Tokens /\ refreshToken[c] \in Tokens
  BY DEF Types, CacheTypeOK, Tokens
<1>2. familyRefreshToken.secret \in Tokens
  <2>1. CASE familyRefreshToken = NoFamilyToken
    BY <2>1 DEF Tokens, NoFamilyToken
  <2>2. CASE familyRefreshToken \in [secret : Ids, owner : Clients]
    <3>1. familyRefreshToken.secret \in Ids
      BY <2>2
    <3>. QED  BY <3>1 DEF Tokens
  <2>. QED  BY <2>1, <2>2 DEF Types, CacheTypeOK
<1>3. None \in Tokens
  BY DEF Tokens
<1>. QED  BY <1>1, <1>2, <1>3 DEF FamilyTokenFor, Entry, Kinds

\* The ones that begin.
LEMMA BeginningMoves ==
    ASSUME Types, NEW r \in Requests, NEW c \in Clients, Placed(request[r]),
           (\E force \in BOOLEAN : Start(r, c, force)) \/ SignIn(r, c)
    PROVE  Moves(r) /\ request'[r].client = c
<1> DEFINE q == request[r]
<1>0. q \in Record /\ q.pc = "idle" /\ q.write = 0 /\ q.kind = "app" /\ q.outcome = "none"
  BY DEF Types, Start, SignIn, At, Placed, Early
<1>1. ASSUME NEW force \in BOOLEAN, Start(r, c, force)
      PROVE  Moves(r) /\ request'[r].client = c
  <2> DEFINE pc == IF force THEN "app token" ELSE "access token"
             n == [q EXCEPT !.client = c, !.pc = pc]
  <2>1. pc \in Early /\ pc \in Pcs /\ pc # "idle"
    BY DEF Early, Pcs
  <2> HIDE DEF pc
  <2>2. n \in Record /\ n.pc = pc /\ n.client = c /\ n.write = 0 /\ n.kind = "app"
        /\ n.outcome = "none"
        /\ n.excused = q.excused /\ n.rejected = q.rejected
    BY <1>0, <2>1 DEF Record
  <2>3. Becomes(r, n)
    BY <1>0, <1>1 DEF Start, Becomes, Types, pc
  <2> HIDE DEF n
  <2>4. /\ request' \in [Requests -> Record] /\ request'[r] = n
        /\ \A s \in Requests : s # r => request'[s] = request[s]
    BY <2>2, <2>3, BecomesFacts
  <2>5. Placed(n)
    BY <2>1, <2>2 DEF Placed, Early, Holding
  <2>6. Stage(n) > Stage(q)
    <3>1. Rank(pc) \in {1, 3} /\ Rank("idle") = 0
      BY Ranks DEF pc
    <3>. QED  BY <1>0, <2>2, <3>1, StageIs
  <2>7. n.pc \notin Holding /\ n.pc # "saving" /\ n.pc # "done"
    BY <2>1, <2>2 DEF Early, Holding
  <2>. QED  BY <1>0, <2>2, <2>4, <2>5, <2>6, <2>7 DEF Moves
<1>2. ASSUME SignIn(r, c) PROVE Moves(r) /\ request'[r].client = c
  <2> DEFINE n == [q EXCEPT !.client = c, !.pc = "saving", !.write = 1, !.token = issued + 1]
  <2>1. issued + 1 \in Ids /\ issued + 1 \in Tokens
    BY <1>2, TokenCacheAssumption DEF Types, Ids, SignIn, Tokens
  <2>a. 1 \in 0..6 /\ "saving" \in Pcs /\ c \in Clients \cup {"nobody"}
    BY DEF Pcs
  <2>2. n \in Record /\ n.pc = "saving" /\ n.client = c /\ n.write = 1 /\ n.kind = "app"
        /\ n.outcome = "none" /\ n.token = issued + 1
        /\ n.excused = q.excused /\ n.rejected = q.rejected
    BY <1>0, <2>1, <2>a DEF Record
  <2>3. Becomes(r, n)
    BY <1>0, <1>2 DEF SignIn, Becomes, Types
  <2> HIDE DEF n
  <2>4. /\ request' \in [Requests -> Record] /\ request'[r] = n
        /\ \A s \in Requests : s # r => request'[s] = request[s]
    BY <2>2, <2>3, BecomesFacts
  <2>b. 1 \in 1..LastWrite(c)
    BY DEF LastWrite
  <2>5. Placed(n)
    BY <2>1, <2>2, <2>b DEF Placed, Early, Holding
  <2>6. Stage(n) > Stage(q)
    <3>1. Rank("saving") = 7 /\ Rank("idle") = 0
      BY Ranks
    <3>. QED  BY <1>0, <2>2, <3>1, StageIs
  <2>7. n.pc \notin Holding /\ issued' = issued + 1
    BY <1>2, <2>2 DEF Holding, SignIn
  <2>. QED  BY <1>0, <2>2, <2>4, <2>5, <2>6, <2>7 DEF Moves
<1>. QED  BY <1>1, <1>2

LEMMA HandlesMoves ==
    ASSUME Types, NEW r \in Requests, Placed(request[r]), Handles(r) PROVE Moves(r)
<1> DEFINE q == request[r]  c == Client(r)
<1>0. q \in Record /\ (q.pc # "idle" => c \in Clients)
  BY DEF Types, Placed, Client
<1>1. CASE ReadAccessToken(r)
  <2>0. q.pc = "access token"
    BY <1>1 DEF ReadAccessToken, At
  <2>1. CASE Goes(r, "app token")
    BY <2>0, <2>1, MovesAlong DEF Edge
  <2>2. CASE Goes(r, "result")
    BY <2>0, <2>2, MovesAlong DEF Edge
  <2>3. CASE Goes(r, "remove access token")
    BY <2>0, <2>3, MovesAlong DEF Edge
  <2>4. ASSUME NEW n \in {[q EXCEPT !.pc = "app token", !.unexpired = accessToken[c]],
                          [q EXCEPT !.pc = "app token", !.extended = accessToken[c]]},
               Becomes(r, n)
        PROVE  Moves(r)
    <3>1. accessToken[c] \in Tokens
      BY <1>0, <2>0, TokensRead
    <3>2. "app token" \in Pcs
      BY DEF Pcs, Early
    <3>3. n \in Record /\ n.pc = "app token" /\ n.client = q.client /\ n.kind = q.kind
          /\ n.write = q.write /\ n.outcome = q.outcome
          /\ n.excused = q.excused /\ n.rejected = q.rejected
      <4>1. CASE n = [q EXCEPT !.pc = "app token", !.unexpired = accessToken[c]]
        BY <1>0, <3>1, <3>2, <4>1 DEF Record
      <4>2. CASE n = [q EXCEPT !.pc = "app token", !.extended = accessToken[c]]
        BY <1>0, <3>1, <3>2, <4>2 DEF Record
      <4>. QED  BY <2>4, <4>1, <4>2
    <3>4. /\ request' \in [Requests -> Record] /\ request'[r] = n
          /\ \A s \in Requests : s # r => request'[s] = request[s]
      BY <2>4, <3>3, BecomesFacts
    <3>5. Placed(n)
      BY <2>0, <3>3 DEF Placed, Early, Holding
    <3>6. Stage(n) > Stage(q)
      <4>0. Rank("access token") = 1 /\ Rank("app token") = 3
        BY Ranks
      <4>1. q.write = 0 /\ Rank(q.pc) = 1 /\ Rank(n.pc) = 3
        BY <2>0, <3>3, <4>0 DEF Placed
      <4>2. q.kind = "app"
        BY <2>0 DEF Placed, Early
      <4>3. n.write = 0 /\ n.kind # "family" /\ q.kind # "family"
        BY <3>3, <4>1, <4>2
      <4>4. Stage(q) = 0 + q.write + Rank(q.pc) /\ Stage(n) = 0 + n.write + Rank(n.pc)
        BY <4>3, StageIs
      <4>5. Stage(q) = 1 /\ Stage(n) = 3
        BY <4>1, <4>3, <4>4
      <4>. QED  BY <4>5
    <3>. QED  BY <2>0, <3>3, <3>4, <3>5, <3>6 DEF Moves, Early, Holding
  <2>5. \/ Goes(r, "app token") \/ Goes(r, "result") \/ Goes(r, "remove access token")
        \/ Becomes(r, [q EXCEPT !.pc = "app token", !.unexpired = accessToken[c]])
        \/ Becomes(r, [q EXCEPT !.pc = "app token", !.extended = accessToken[c]])
    BY <1>1 DEF ReadAccessToken, Becomes, Types
  <2>. QED  BY <2>1, <2>2, <2>3, <2>4, <2>5
<1>2. CASE Result(r)
  <2>1. q.pc = "result" /\ (Completes(r, "cached") \/ Goes(r, "app token"))
    BY <1>2 DEF Result, At
  <2>2. CASE Completes(r, "cached")
    BY <2>1, <2>2, MovesByCompleting DEF Results
  <2>3. CASE Goes(r, "app token")
    BY <2>1, <2>3, MovesAlong DEF Edge
  <2>. QED  BY <2>1, <2>2, <2>3
<1>3. CASE RemoveExpired(r)
  <2>1. q.pc = "remove access token" /\ Goes(r, "app token")
    BY <1>3 DEF RemoveExpired, At
  <2>. QED  BY <2>1, MovesAlong DEF Edge
<1>4. CASE ReadAppToken(r)
  <2>1. q.pc = "app token" /\ (\/ Goes(r, "family token")
                               \/ refreshToken[c] # None /\ Tries(r, "app", refreshToken[c]))
    BY <1>4 DEF ReadAppToken, At
  <2>2. CASE Goes(r, "family token")
    BY <2>1, <2>2, MovesAlong DEF Edge
  <2>3. CASE refreshToken[c] # None /\ Tries(r, "app", refreshToken[c])
    <3>1. refreshToken[c] \in Ids
      BY <1>0, <2>1, <2>3, TokensRead DEF Tokens
    <3>2. refreshToken[c] = Entry(c, "app")
      BY DEF Entry
    <3>. QED  BY <2>1, <2>3, <3>1, <3>2, MovesByTrying DEF Early, Kinds
  <2>. QED  BY <2>1, <2>2, <2>3
<1>5. CASE ReadFamilyToken(r)
  <2>1. q.pc = "family token" /\ (\/ Completes(r, "interaction")
                                  \/ /\ FamilyTokenFor(c) # None
                                     /\ Tries(r, "family", FamilyTokenFor(c)))
    BY <1>5 DEF ReadFamilyToken, At
  <2>2. CASE Completes(r, "interaction")
    BY <2>1, <2>2, MovesByCompleting DEF Results
  <2>3. CASE FamilyTokenFor(c) # None /\ Tries(r, "family", FamilyTokenFor(c))
    <3>1. FamilyTokenFor(c) \in Ids
      BY <1>0, <2>1, <2>3, TokensRead DEF Tokens
    <3>2. FamilyTokenFor(c) = Entry(c, "family")
      BY <1>0, <2>1, <2>3, TokensRead DEF Entry
    <3>. QED  BY <2>1, <2>3, <3>1, <3>2, MovesByTrying DEF Early, Kinds
  <2>. QED  BY <2>1, <2>2, <2>3
<1>6. CASE Send(r)
  <2>1. q.pc = "redeem" /\ Goes(r, "sent")
    BY <1>6 DEF Send, At
  <2>. QED  BY <2>1, MovesAlong DEF Edge
<1>7. CASE WrongCloud(r)
  <2>1. q.pc = "redeem" /\ CompletesExcused(r, "interaction")
    BY <1>7 DEF WrongCloud, At
  <2>. QED  BY <2>1, MovesByCompleting DEF Results
<1>8. CASE Fails(r)
  <2>1. q.pc \in {"redeem", "sent"} /\ Completes(r, "error")
    BY <1>8 DEF Fails, At
  <2>. QED  BY <2>1, MovesByCompleting DEF Results
<1>9. CASE Refused(r)
  <2> DEFINE n == [q EXCEPT !.pc = "refused", !.excused = TRUE]
  <2>1. q.pc \in {"redeem", "sent"}
    BY <1>9 DEF Refused, At
  <2>2. "refused" \in Pcs
    BY DEF Pcs, Holding
  <2>3. n \in Record /\ n.pc = "refused" /\ n.client = q.client /\ n.kind = q.kind
        /\ n.token = q.token /\ n.write = q.write /\ n.outcome = q.outcome
        /\ (q.excused => n.excused) /\ (n.rejected \subseteq q.rejected \/ BadToken(r))
    BY <1>0, <2>2 DEF Record
  <2>4. Becomes(r, n)
    BY <1>0, <1>9 DEF Refused, Becomes, Types
  <2> HIDE DEF n
  <2>5. /\ request' \in [Requests -> Record] /\ request'[r] = n
        /\ \A s \in Requests : s # r => request'[s] = request[s]
    BY <2>3, <2>4, BecomesFacts
  <2>6. Placed(n)
    BY <2>1, <2>3 DEF Placed, Early, Holding
  <2>7. Stage(n) > Stage(q)
    <3>1. q.write = 0 /\ Rank(q.pc) \in {5, 6} /\ Rank(n.pc) = 9
      BY <2>1, <2>3, Ranks DEF Placed
    <3>. QED  BY <2>3, <3>1, StageIs
  <2>. QED  BY <2>1, <2>3, <2>5, <2>6, <2>7 DEF Moves, Early, Holding
<1>10. CASE Succeeds(r)
  <2> DEFINE n == [q EXCEPT !.pc = "saving", !.write = 1, !.token = issued + 1]
  <2>1. q.pc = "sent"
    BY <1>10 DEF Succeeds, Answered, At
  <2>2. issued + 1 \in Ids /\ issued + 1 \in Tokens
    BY <1>10, TokenCacheAssumption DEF Types, Ids, Succeeds, Tokens
  <2>3. 1 \in 0..6 /\ "saving" \in Pcs
    BY DEF Pcs
  <2>4. n \in Record /\ n.pc = "saving" /\ n.client = q.client /\ n.kind = q.kind
        /\ n.token = issued + 1 /\ n.write = 1 /\ n.outcome = q.outcome
        /\ n.excused = q.excused /\ n.rejected = q.rejected
    BY <1>0, <2>2, <2>3 DEF Record
  <2>5. Becomes(r, n)
    BY <1>0, <1>10 DEF Succeeds, Becomes, Types
  <2> HIDE DEF n
  <2>6. /\ request' \in [Requests -> Record] /\ request'[r] = n
        /\ \A s \in Requests : s # r => request'[s] = request[s]
    BY <2>4, <2>5, BecomesFacts
  <2>7. 1 \in 1..LastWrite(q.client)
    BY DEF LastWrite
  <2>8. Placed(n)
    BY <2>1, <2>2, <2>4, <2>7 DEF Placed, Early, Holding
  <2>9. Stage(n) > Stage(q)
    <3>1. q.write = 0 /\ Rank(q.pc) = 6 /\ Rank(n.pc) = 7
      BY <2>1, <2>4, Ranks DEF Placed
    <3>. QED  BY <2>4, <3>1, StageIs
  <2>10. n.pc \notin Holding /\ issued' = issued + 1
    BY <1>10, <2>4 DEF Holding, Succeeds
  <2>. QED  BY <2>1, <2>4, <2>6, <2>8, <2>9, <2>10 DEF Moves
<1>11. CASE BadToken(r)
  <2> DEFINE n == [q EXCEPT !.pc = "validate", !.rejected = @ \cup {Presented(r)}]
  <2>1. q.pc = "sent" /\ q.token \in Ids
    BY <1>11 DEF BadToken, Answered, At, Placed, Holding
  <2>2. Presented(r) \in Kinds \X Ids /\ "validate" \in Pcs
    BY <1>0, <2>1 DEF Presented, Record, Pcs, Holding
  <2>3. n \in Record /\ n.pc = "validate" /\ n.client = q.client /\ n.kind = q.kind
        /\ n.token = q.token /\ n.write = q.write /\ n.outcome = q.outcome
        /\ (q.excused => n.excused) /\ (n.rejected \subseteq q.rejected \/ BadToken(r))
    BY <1>0, <1>11, <2>2 DEF Record
  <2>4. Becomes(r, n)
    BY <1>0, <1>11 DEF BadToken, Becomes, Types
  <2> HIDE DEF n
  <2>5. /\ request' \in [Requests -> Record] /\ request'[r] = n
        /\ \A s \in Requests : s # r => request'[s] = request[s]
    BY <2>3, <2>4, BecomesFacts
  <2>6. Placed(n)
    BY <2>1, <2>3 DEF Placed, Early, Holding
  <2>7. Stage(n) > Stage(q)
    <3>1. q.write = 0 /\ Rank(q.pc) = 6 /\ Rank(n.pc) = 7
      BY <2>1, <2>3, Ranks DEF Placed
    <3>. QED  BY <2>3, <3>1, StageIs
  <2>. QED  BY <2>1, <2>3, <2>5, <2>6, <2>7 DEF Moves, Early, Holding
<1>12. CASE InvalidGrant(r)
  <2>1. q.pc = "sent" /\ Goes(r, "refused")
    BY <1>12 DEF InvalidGrant, At, Answered
  <2>. QED  BY <2>1, MovesAlong DEF Edge
<1>13. CASE ClientMismatch(r)
  <2>1. /\ q.pc \in {"redeem", "sent"} /\ Goes(r, "mismatch")
        /\ q.kind = "family" /\ q.client \notin Members
    BY <1>13 DEF ClientMismatch, At, Client
  <2>. QED  BY <2>1, MovesAlong DEF Edge
<1>14. CASE UserDeleted(r)
  <2>1. q.pc = "sent" /\ Goes(r, "clear")
    BY <1>14 DEF UserDeleted, At, Answered
  <2>. QED  BY <2>1, MovesAlong DEF Edge
<1>15. CASE Unavailable(r)
  <2>1. q.pc = "sent" /\ \E how \in {"unexpired", "extended", "error"} : Completes(r, how)
    BY <1>15 DEF Unavailable, Answered, At
  <2>. QED  BY <2>1, MovesByCompleting DEF Results
<1>16. CASE Save(r)
  <2>1. q.pc = "saving" /\ q.write \in 1..LastWrite(c) /\ c \in Clients
    BY <1>16 DEF Save, At, Placed, Client
  <2>2. \/ Completes(r, "token")
        \/ /\ q.write # LastWrite(c)
           /\ Becomes(r, [q EXCEPT !.write = q.write + 1])
    BY <1>16, <2>1, WritesAre DEF Save, Becomes, Client
  <2>3. CASE Completes(r, "token")
    BY <2>1, <2>3, MovesByCompleting DEF Results
  <2>4. CASE q.write # LastWrite(c) /\ Becomes(r, [q EXCEPT !.write = q.write + 1])
    <3> DEFINE n == [q EXCEPT !.write = q.write + 1]
    <3>1. q.write + 1 \in 1..LastWrite(c) /\ q.write + 1 \in 0..6
      BY <2>1, <2>4 DEF LastWrite
    <3>2. n \in Record /\ n.pc = "saving" /\ n.client = q.client /\ n.kind = q.kind
          /\ n.token = q.token /\ n.write = q.write + 1 /\ n.outcome = q.outcome
          /\ n.excused = q.excused /\ n.rejected = q.rejected
      BY <1>0, <2>1, <3>1 DEF Record
    <3> HIDE DEF n
    <3>3. /\ request' \in [Requests -> Record] /\ request'[r] = n
          /\ \A s \in Requests : s # r => request'[s] = request[s]
      BY <2>4, <3>2, BecomesFacts DEF n
    <3>4. Placed(n)
      BY <2>1, <3>1, <3>2 DEF Placed, Early, Holding, Client
    <3>5. Stage(n) > Stage(q)
      <4>0. Rank("saving") = 7
        BY Ranks
      <4>1. Rank(q.pc) = 7 /\ Rank(n.pc) = 7 /\ q.write \in Nat
        BY <2>1, <3>2, <4>0 DEF LastWrite
      <4>. QED  BY <3>2, <4>1, StageIs
    <3>. QED  BY <2>1, <3>2, <3>3, <3>4, <3>5 DEF Moves, Early, Holding
  <2>. QED  BY <2>2, <2>3, <2>4
<1>17. CASE Validate(r)
  <2>1. q.pc = "validate" /\ (Goes(r, "remove") \/ Goes(r, "refused"))
    BY <1>17 DEF Validate, At
  <2>2. CASE Goes(r, "remove")
    BY <2>1, <2>2, MovesAlong DEF Edge
  <2>3. CASE Goes(r, "refused")
    BY <2>1, <2>3, MovesAlong DEF Edge
  <2>. QED  BY <2>1, <2>2, <2>3
<1>18. CASE Remove(r)
  <2>1. q.pc = "remove" /\ Goes(r, "refused")
    BY <1>18 DEF Remove, At
  <2>. QED  BY <2>1, MovesAlong DEF Edge
<1>19. CASE Clear(r)
  <2>1. q.pc = "clear" /\ Goes(r, "refused")
    BY <1>19 DEF Clear, At
  <2>. QED  BY <2>1, MovesAlong DEF Edge
<1>20. CASE AfterRefusal(r)
  <2>1. q.pc = "refused" /\ (\/ Completes(r, "interaction")
                             \/ /\ q.kind = "app" /\ FamilyTokenFor(c) # None
                                /\ Tries(r, "family", FamilyTokenFor(c)))
    BY <1>20 DEF AfterRefusal, At, OtherToken
  <2>2. CASE Completes(r, "interaction")
    BY <2>1, <2>2, MovesByCompleting DEF Results
  <2>3. CASE q.kind = "app" /\ FamilyTokenFor(c) # None /\ Tries(r, "family", FamilyTokenFor(c))
    <3>1. FamilyTokenFor(c) \in Ids
      BY <1>0, <2>1, <2>3, TokensRead DEF Tokens
    <3>2. FamilyTokenFor(c) = Entry(c, "family")
      BY <1>0, <2>1, <2>3, TokensRead DEF Entry
    <3>. QED  BY <2>1, <2>3, <3>1, <3>2, MovesByTrying DEF Kinds
  <2>. QED  BY <2>1, <2>2, <2>3
<1>21. CASE LeaveFamily(r)
  <2>1. q.pc = "mismatch" /\ Completes(r, "interaction")
    BY <1>21 DEF LeaveFamily, At
  <2>. QED  BY <2>1, MovesByCompleting DEF Results
<1>. QED
  BY <1>1, <1>2, <1>3, <1>4, <1>5, <1>6, <1>7, <1>8, <1>9, <1>10, <1>11, <1>12, <1>13,
     <1>14, <1>15, <1>16, <1>17, <1>18, <1>19, <1>20, <1>21 DEF Handles

LEMMA FaultyMoves ==
    ASSUME Types, NEW r \in Requests, Placed(request[r]), Faulty(r) PROVE Moves(r)
<1> DEFINE q == request[r]
<1>0. q \in Record
  BY DEF Types
<1>1. CASE AccessTokenUnreadable(r)
  <2>1. q.pc = "access token" /\ Completes(r, "error")
    BY <1>1 DEF AccessTokenUnreadable, At
  <2>. QED  BY <2>1, MovesByCompleting DEF Results
<1>2. CASE RemoveExpiredFails(r)
  <2>1. q.pc = "remove access token" /\ Goes(r, "app token")
    BY <1>2 DEF RemoveExpiredFails, At
  <2>. QED  BY <2>1, MovesAlong DEF Edge
<1>3. CASE AppTokenUnreadable(r)
  <2> DEFINE n == [q EXCEPT !.pc = "family token", !.excused = TRUE]
  <2>1. q.pc = "app token"
    BY <1>3 DEF AppTokenUnreadable, At
  <2>2. "family token" \in Pcs
    BY DEF Pcs, Early
  <2>3. n \in Record /\ n.pc = "family token" /\ n.client = q.client /\ n.kind = q.kind
        /\ n.token = q.token /\ n.write = q.write /\ n.outcome = q.outcome
        /\ (q.excused => n.excused) /\ (n.rejected \subseteq q.rejected \/ BadToken(r))
    BY <1>0, <2>2 DEF Record
  <2>4. Becomes(r, n)
    BY <1>0, <1>3 DEF AppTokenUnreadable, Becomes, Types
  <2> HIDE DEF n
  <2>5. /\ request' \in [Requests -> Record] /\ request'[r] = n
        /\ \A s \in Requests : s # r => request'[s] = request[s]
    BY <2>3, <2>4, BecomesFacts
  <2>6. Placed(n)
    BY <2>1, <2>3 DEF Placed, Early, Holding
  <2>7. Stage(n) > Stage(q)
    <3>0. Rank("app token") = 3 /\ Rank("family token") = 4
      BY Ranks
    <3>1. q.write = 0 /\ Rank(q.pc) = 3 /\ Rank(n.pc) = 4
      BY <2>1, <2>3, <3>0 DEF Placed
    <3>2. q.kind = "app"
      BY <2>1 DEF Placed, Early
    <3>3. n.write = 0 /\ n.kind # "family" /\ q.kind # "family"
      BY <2>3, <3>1, <3>2
    <3>4. Stage(q) = 0 + q.write + Rank(q.pc) /\ Stage(n) = 0 + n.write + Rank(n.pc)
      BY <3>3, StageIs
    <3>5. Stage(q) = 3 /\ Stage(n) = 4
      BY <3>1, <3>3, <3>4
    <3>. QED  BY <3>5
  <2>. QED  BY <2>1, <2>3, <2>5, <2>6, <2>7 DEF Moves, Early, Holding
<1>4. CASE FamilyTokenUnreadable(r)
  <2>1. q.pc = "family token" /\ CompletesExcused(r, "interaction")
    BY <1>4 DEF FamilyTokenUnreadable, At
  <2>. QED  BY <2>1, MovesByCompleting DEF Results
<1>5. CASE SaveFails(r)
  <2>1. q.pc = "saving" /\ Completes(r, "token")
    BY <1>5 DEF SaveFails, At
  <2>. QED  BY <2>1, MovesByCompleting DEF Results
<1>6. CASE RemoveFails(r)
  <2> DEFINE n == [q EXCEPT !.pc = "refused", !.rejected = @ \ {Presented(r)}]
  <2>1. q.pc \in {"validate", "remove"}
    BY <1>6 DEF RemoveFails, At
  <2>2. "refused" \in Pcs
    BY DEF Pcs, Holding
  <2>3. n \in Record /\ n.pc = "refused" /\ n.client = q.client /\ n.kind = q.kind
        /\ n.token = q.token /\ n.write = q.write /\ n.outcome = q.outcome
        /\ (q.excused => n.excused) /\ (n.rejected \subseteq q.rejected \/ BadToken(r))
    BY <1>0, <2>2 DEF Record
  <2>4. Becomes(r, n)
    BY <1>0, <1>6 DEF RemoveFails, Becomes, Types
  <2> HIDE DEF n
  <2>5. /\ request' \in [Requests -> Record] /\ request'[r] = n
        /\ \A s \in Requests : s # r => request'[s] = request[s]
    BY <2>3, <2>4, BecomesFacts
  <2>6. Placed(n)
    BY <2>1, <2>3 DEF Placed, Early, Holding
  <2>7. Stage(n) > Stage(q)
    <3>1. q.write = 0 /\ Rank(q.pc) \in {7, 8} /\ Rank(n.pc) = 9
      BY <2>1, <2>3, Ranks DEF Placed
    <3>. QED  BY <2>3, <3>1, StageIs
  <2>. QED  BY <2>1, <2>3, <2>5, <2>6, <2>7 DEF Moves, Early, Holding
<1>7. CASE ClearFails(r)
  <2>1. q.pc = "clear" /\ Goes(r, "refused")
    BY <1>7 DEF ClearFails, At
  <2>. QED  BY <2>1, MovesAlong DEF Edge
<1>8. CASE RefusalUnreadable(r)
  <2>1. q.pc = "refused" /\ CompletesExcused(r, "interaction")
    BY <1>8 DEF RefusalUnreadable, At
  <2>. QED  BY <2>1, MovesByCompleting DEF Results
<1>9. CASE LeaveFamilyFails(r)
  <2>1. q.pc = "mismatch" /\ Completes(r, "interaction")
    BY <1>9 DEF LeaveFamilyFails, At
  <2>. QED  BY <2>1, MovesByCompleting DEF Results
<1>. QED
  BY <1>1, <1>2, <1>3, <1>4, <1>5, <1>6, <1>7, <1>8, <1>9 DEF Faulty

LEMMA ActsMoves ==
    ASSUME Types, NEW r \in Requests, Placed(request[r]), Acts(r) PROVE Moves(r)
  BY BeginningMoves, HandlesMoves, FaultyMoves DEF Acts

-----------------------------------------------------------------------------
(* The accesses to the cache *)

\* An entry keeps its token, loses it, or gets the one that r is saving.
CacheSteps(r) ==
    /\ CacheTypeOK'
    /\ \A c \in Clients, kind \in Kinds :
        \/ Entry(c, kind)' \in {Entry(c, kind), None}
        \/ /\ request[r].pc = "saving" /\ request[r].write = Place(Client(r), kind)
           /\ Entry(c, kind)' = request[r].token

LEMMA CacheKept == ASSUME Types, UNCHANGED cache, NEW r \in Requests PROVE CacheSteps(r)
  BY DEF CacheSteps, Types, CacheTypeOK, cache, Entry

LEMMA Removals ==
    ASSUME Types, NEW r \in Requests, NEW c \in Clients,
           \/ RemoveAccessToken(c) \/ ClearAccount(c)
           \/ \E kind \in Kinds : RemoveEntry(c, kind)
           \/ \E i \in Ids : SaveAccessToken(c, i)
           \/ SaveIdToken(c)
           \/ \E family \in {"member", "blank"} : SaveAppMetadata(c, family)
    PROVE  CacheSteps(r)
<1>0. CacheTypeOK /\ None \in Ids \cup {None}
  BY DEF Types
<1>1. CASE RemoveAccessToken(c)
  BY <1>0, <1>1 DEF RemoveAccessToken, CacheSteps, CacheTypeOK, Entry
<1>2. CASE ClearAccount(c)
  <2>1. CacheTypeOK'
    BY <1>0, <1>2 DEF ClearAccount, CacheTypeOK
  <2>2. \A d \in Clients : refreshToken'[d] \in {refreshToken[d], None}
    BY <1>0, <1>2 DEF ClearAccount, CacheTypeOK
  <2>3. familyRefreshToken'.secret \in {familyRefreshToken.secret, None}
    BY <1>2 DEF ClearAccount, NoFamilyToken
  <2>. QED  BY <2>1, <2>2, <2>3 DEF CacheSteps, Entry
<1>3. ASSUME NEW kind \in Kinds, RemoveEntry(c, kind) PROVE CacheSteps(r)
  <2>1. CacheTypeOK'
    BY <1>0, <1>3 DEF RemoveEntry, CacheTypeOK
  <2>2. \A d \in Clients : refreshToken'[d] \in {refreshToken[d], None}
    BY <1>0, <1>3 DEF RemoveEntry, CacheTypeOK
  <2>3. familyRefreshToken'.secret \in {familyRefreshToken.secret, None}
    BY <1>3 DEF RemoveEntry, NoFamilyToken
  <2>. QED  BY <2>1, <2>2, <2>3 DEF CacheSteps, Entry
<1>4. ASSUME NEW i \in Ids, SaveAccessToken(c, i) PROVE CacheSteps(r)
  BY <1>0, <1>4 DEF SaveAccessToken, CacheSteps, CacheTypeOK, Entry
<1>5. CASE SaveIdToken(c)
  BY <1>0, <1>5 DEF SaveIdToken, CacheSteps, CacheTypeOK, Entry
<1>6. ASSUME NEW family \in {"member", "blank"}, SaveAppMetadata(c, family)
      PROVE  CacheSteps(r)
  BY <1>0, <1>6 DEF SaveAppMetadata, CacheSteps, CacheTypeOK, Entry
<1>. QED  BY <1>1, <1>2, <1>3, <1>4, <1>5, <1>6

LEMMA SavesTokens ==
    ASSUME Types, NEW r \in Requests, Placed(request[r]), Save(r) PROVE CacheSteps(r)
<1> DEFINE q == request[r]  c == q.client  w == q.write  item == Writes(c)[w]
<1>1. q.pc = "saving" /\ c \in Clients /\ q.token \in Ids /\ w \in 1..LastWrite(c)
  BY DEF Save, At, Placed
<1>2. Write(item, c, q.token)
  BY DEF Save, Client
<1>3. /\ item = "family refresh token" => w = Place(c, "family")
      /\ item = "refresh token" => w = Place(c, "app")
  BY <1>1, WritesAre
<1>0. CacheTypeOK
  BY DEF Types
<1> HIDE DEF item
<1>4. CASE item = "family refresh token" /\ SaveFamilyRefreshToken(c, q.token)
  <2>1. CacheTypeOK'
    BY <1>0, <1>1, <1>4 DEF SaveFamilyRefreshToken, CacheTypeOK
  <2>2. refreshToken' = refreshToken /\ familyRefreshToken'.secret = q.token
    BY <1>4 DEF SaveFamilyRefreshToken
  <2>. QED  BY <1>1, <1>3, <1>4, <2>1, <2>2 DEF CacheSteps, Entry, Client, Kinds
<1>5. CASE item = "refresh token" /\ SaveRefreshToken(c, q.token)
  <2>1. CacheTypeOK'
    BY <1>0, <1>1, <1>5 DEF SaveRefreshToken, CacheTypeOK
  <2>2. /\ familyRefreshToken' = familyRefreshToken
        /\ \A d \in Clients : refreshToken'[d] \in {refreshToken[d], q.token}
    BY <1>0, <1>5 DEF SaveRefreshToken, CacheTypeOK
  <2>. QED  BY <1>1, <1>3, <1>5, <2>1, <2>2 DEF CacheSteps, Entry, Client, Kinds
<1>6. \/ item = "family refresh token" /\ SaveFamilyRefreshToken(c, q.token)
      \/ item = "refresh token" /\ SaveRefreshToken(c, q.token)
      \/ RemoveAccessToken(c) \/ SaveAccessToken(c, q.token) \/ SaveIdToken(c)
      \/ SaveAppMetadata(c, "member") \/ SaveAppMetadata(c, "blank")
  BY <1>2 DEF Write
<1>. QED  BY <1>1, <1>4, <1>5, <1>6, Removals

LEMMA ActsOnCache ==
    ASSUME Types, NEW r \in Requests, Placed(request[r]), Acts(r) PROVE CacheSteps(r)
<1>1. \/ UNCHANGED cache \/ RemoveExpired(r) \/ Save(r) \/ Remove(r) \/ Clear(r)
      \/ LeaveFamily(r)
  BY DEF Acts, Handles, Faulty, Start, SignIn, ReadAccessToken, Result, ReadAppToken,
         ReadFamilyToken, Send, WrongCloud, Fails, Refused, Succeeds, Answered, BadToken,
         InvalidGrant, ClientMismatch, UserDeleted, Unavailable, Validate, AfterRefusal,
         AccessTokenUnreadable, RemoveExpiredFails, AppTokenUnreadable,
         FamilyTokenUnreadable, SaveFails, RemoveFails, ClearFails, RefusalUnreadable,
         LeaveFamilyFails, Fault
<1>2. ~At(r, "idle") => Client(r) \in Clients
  BY DEF Placed, At, Client
<1>3. request[r].kind \in Kinds
  BY DEF Types, Record
<1>4. CASE RemoveExpired(r)
  BY <1>2, <1>4, Removals DEF RemoveExpired, At
<1>5. CASE Remove(r)
  BY <1>2, <1>3, <1>5, Removals DEF Remove, At
<1>6. CASE Clear(r)
  BY <1>2, <1>6, Removals DEF Clear, At
<1>7. CASE LeaveFamily(r)
  BY <1>2, <1>7, Removals DEF LeaveFamily, At
<1>. QED  BY <1>1, <1>4, <1>5, <1>6, <1>7, CacheKept, SavesTokens

LEMMA ActsOnServer ==
    ASSUME Types, NEW r \in Requests, Acts(r)
    PROVE  /\ issued' \in {issued, issued + 1} \cap (0..MaxIssued)
           /\ UNCHANGED <<dead, gone, age>>
           /\ faults' \in 0..MaxFaults
<1>0. issued \in 0..MaxIssued /\ faults \in 0..MaxFaults /\ MaxFaults \in Nat
      /\ MaxIssued \in Nat
  BY SilentAssumption, TokenCacheAssumption DEF Types
<1>1. UNCHANGED <<dead, gone, age>>
  BY DEF Acts, Handles, Faulty, Start, SignIn, ReadAccessToken, Result, RemoveExpired,
         ReadAppToken, ReadFamilyToken, Send, WrongCloud, Fails, Refused, Succeeds,
         Answered, BadToken, InvalidGrant, ClientMismatch, UserDeleted, Unavailable,
         Save, Validate, Remove, Clear, AfterRefusal, LeaveFamily,
         AccessTokenUnreadable, RemoveExpiredFails, AppTokenUnreadable,
         FamilyTokenUnreadable, SaveFails, RemoveFails, ClearFails, RefusalUnreadable,
         LeaveFamilyFails, Fault, server
<1>2. issued' = issued \/ Succeeds(r) \/ \E c \in Clients : SignIn(r, c)
  BY DEF Acts, Handles, Faulty, Start, ReadAccessToken, Result, RemoveExpired,
         ReadAppToken, ReadFamilyToken, Send, WrongCloud, Fails, Refused,
         BadToken, InvalidGrant, ClientMismatch, UserDeleted, Unavailable,
         Save, Validate, Remove, Clear, AfterRefusal, LeaveFamily,
         AccessTokenUnreadable, RemoveExpiredFails, AppTokenUnreadable,
         FamilyTokenUnreadable, SaveFails, RemoveFails, ClearFails, RefusalUnreadable,
         LeaveFamilyFails, Fault, server
<1>3. issued' = issued \/ (issued' = issued + 1 /\ issued < MaxIssued)
  <2>1. CASE Succeeds(r)
    BY <2>1 DEF Succeeds
  <2>2. ASSUME NEW c \in Clients, SignIn(r, c)
        PROVE  issued' = issued + 1 /\ issued < MaxIssued
    BY <2>2 DEF SignIn
  <2>. QED  BY <1>2, <2>1, <2>2
<1>4. faults' = faults \/ Fault
  BY DEF Acts, Handles, Faulty, Start, SignIn, ReadAccessToken, Result, RemoveExpired,
         ReadAppToken, ReadFamilyToken, Send, WrongCloud, Fails, Refused, Succeeds,
         Answered, BadToken, InvalidGrant, ClientMismatch, UserDeleted, Unavailable,
         Save, Validate, Remove, Clear, AfterRefusal, LeaveFamily,
         AccessTokenUnreadable, RemoveExpiredFails, AppTokenUnreadable,
         FamilyTokenUnreadable, SaveFails, RemoveFails, ClearFails, RefusalUnreadable,
         LeaveFamilyFails
<1>5. faults' = faults \/ (faults' = faults + 1 /\ faults < MaxFaults)
  <2>1. CASE Fault
    BY <2>1 DEF Fault
  <2>. QED  BY <1>4, <2>1
<1>6. \A m, n \in Nat : n < m => n + 1 \in 0..m
  OBVIOUS
<1>. QED  BY <1>0, <1>1, <1>3, <1>5, <1>6

-----------------------------------------------------------------------------
(* Types *)

AllPlaced == \A r \in Requests : Placed(request[r])

\* What becomes of a request when its client is killed.
LEMMA KilledMoves ==
    ASSUME Types, AllPlaced, NEW c \in Clients, Killed(c)
    PROVE  /\ request' \in [Requests -> Record]
           /\ UNCHANGED <<cache, server>> /\ faults' \in 0..MaxFaults
           /\ \A r \in Requests :
                LET q == request[r]  n == request'[r] IN
                \/ n = q
                \/ /\ n.pc = "done" /\ n.outcome = "killed" /\ n.rejected = {}
                   /\ n.client = q.client /\ Placed(n)
                   /\ q.pc # "done" /\ Stage(n) > Stage(q)
<1> DEFINE Gets(r) == [Ended(r, "killed") EXCEPT !.rejected = {}]
<1>1. request' = [r \in Requests |-> IF Client(r) = c /\ ~At(r, "done")
                                     THEN Gets(r) ELSE request[r]]
  BY DEF Killed
<1>2. ASSUME NEW r \in Requests
      PROVE  /\ Gets(r) \in Record
             /\ Gets(r).pc = "done" /\ Gets(r).outcome = "killed"
             /\ Gets(r).rejected = {} /\ Gets(r).client = Client(r)
             /\ Gets(r).write = 0 /\ Gets(r).kind = "app"
  <2> DEFINE e == Ended(r, "killed")
  <2>1. /\ e \in Record /\ e.pc = "done" /\ e.client = Client(r) /\ e.kind = "app"
        /\ e.write = 0 /\ e.outcome = "killed"
    BY EndedFacts DEF Outcomes, Results, Client
  <2>2. {} \in SUBSET (Kinds \X Ids)
    OBVIOUS
  <2> HIDE DEF e
  <2>3. LET n == [e EXCEPT !.rejected = {}] IN
        /\ n \in Record /\ n.pc = "done" /\ n.outcome = "killed" /\ n.rejected = {}
        /\ n.client = Client(r) /\ n.write = 0 /\ n.kind = "app"
    BY <2>1, <2>2 DEF Record
  <2>. QED  BY <2>3 DEF e
<1> HIDE DEF Gets
<1>3. request' \in [Requests -> Record]
  BY <1>1, <1>2 DEF Types
<1>4. UNCHANGED <<cache, server>> /\ faults' \in 0..MaxFaults
  <2>1. Fault /\ faults \in 0..MaxFaults /\ MaxFaults \in Nat
    BY SilentAssumption DEF Killed, Types
  <2>2. faults < MaxFaults /\ faults' = faults + 1 /\ UNCHANGED <<cache, server>>
    BY <2>1 DEF Fault
  <2>. QED  BY <2>1, <2>2
<1>5. ASSUME NEW r \in Requests, Client(r) = c, ~At(r, "done")
      PROVE  LET q == request[r]  n == request'[r] IN
             /\ n.pc = "done" /\ n.outcome = "killed" /\ n.rejected = {}
             /\ n.client = q.client /\ Placed(n)
             /\ q.pc # "done" /\ Stage(n) > Stage(q)
  <2> DEFINE q == request[r]  n == request'[r]
  <2>1. n = Gets(r)
    BY <1>1, <1>5
  <2>2. Placed(n)
    BY <1>2, <1>5, <2>1 DEF Placed, Early, Holding
  <2>3. Stage(n) > Stage(q)
    <3>1. q \in Record /\ q.pc # "done" /\ q.pc \in Pcs /\ q.write \in 0..6
      BY <1>5 DEF Types, Record, At
    <3>2. Rank(q.pc) \in Nat /\ Rank(q.pc) <= 9 /\ Rank("done") = 50
      BY <3>1, Ranks, RankRange
    <3>3. n.pc = "done" /\ n.write = 0
      BY <1>2, <2>1
    <3>4. Stage(n) >= 50
      BY <3>2, <3>3, StageIs
    <3>5. Stage(q) <= 35 /\ Stage(q) \in Nat
      BY <3>1, <3>2, StageIs
    <3>. QED  BY <3>2, <3>3, <3>5, StageIs
  <2>. QED  BY <1>2, <1>5, <2>1, <2>2, <2>3 DEF At, Client
<1>. QED  BY <1>1, <1>3, <1>4, <1>5

\* The steps of others than requests.
Others ==
    \/ \E t \in Ids : Revoke(t)
    \/ DeleteAccount
    \/ \E i \in Ids : GetsOlder(i)

LEMMA OthersKeep ==
    ASSUME Types, Others
    PROVE  /\ UNCHANGED <<cache, request, issued>>
           /\ dead \subseteq dead' /\ (gone => gone')
           /\ dead' \in SUBSET (1..issued) /\ gone' \in BOOLEAN
           /\ age' \in [Ids -> {Ages[n] : n \in DOMAIN Ages}]
           /\ faults' = faults
<1>1. ASSUME NEW t \in Ids, Revoke(t)
      PROVE  /\ UNCHANGED <<cache, request, issued, gone, age, faults>>
             /\ dead \subseteq dead' /\ dead' \in SUBSET (1..issued)
  BY <1>1 DEF Revoke, Types
<1>2. CASE DeleteAccount
  BY <1>2 DEF DeleteAccount, Types
<1>3. ASSUME NEW i \in Ids, GetsOlder(i)
      PROVE  /\ UNCHANGED <<cache, request, issued, dead, gone, faults>>
             /\ age' \in [Ids -> {Ages[n] : n \in DOMAIN Ages}]
  BY <1>3 DEF GetsOlder, Types
<1>. QED  BY <1>1, <1>2, <1>3 DEF Others, Types

LEMMA StepIs ==
    Step => \/ \E r \in Requests : Acts(r)
            \/ \E c \in Clients : Killed(c)
            \/ Others
  BY DEF Step, Acts, Others

LEMMA TypesStep ==
    ASSUME Types, AllPlaced, Step
    PROVE  /\ Types' /\ AllPlaced'
           /\ \A r \in Requests :
                request'[r] # request[r] => Stage(request'[r]) > Stage(request[r])
<1>1. ASSUME NEW r \in Requests, Acts(r)
      PROVE  /\ Types' /\ AllPlaced'
             /\ \A s \in Requests :
                  request'[s] # request[s] => Stage(request'[s]) > Stage(request[s])
  <2>1. Moves(r) /\ CacheSteps(r)
    BY <1>1, ActsMoves, ActsOnCache DEF AllPlaced
  <2>2. /\ issued' \in {issued, issued + 1} \cap (0..MaxIssued)
        /\ UNCHANGED <<dead, gone, age>>
        /\ faults' \in 0..MaxFaults
    BY <1>1, ActsOnServer
  <2>3. dead' \in SUBSET (1..issued')
    <3>1. issued \in Nat /\ issued' \in {issued, issued + 1}
      BY <2>2 DEF Types
    <3>2. 1..issued \subseteq 1..issued'
      BY <3>1
    <3>. QED  BY <2>2, <3>2 DEF Types
  <2>4. Types'
    BY <2>1, <2>2, <2>3 DEF Types, Moves, CacheSteps
  <2>. QED  BY <2>1, <2>4 DEF AllPlaced, Moves
<1>2. ASSUME NEW c \in Clients, Killed(c)
      PROVE  /\ Types' /\ AllPlaced'
             /\ \A s \in Requests :
                  request'[s] # request[s] => Stage(request'[s]) > Stage(request[s])
  <2>1. /\ request' \in [Requests -> Record]
        /\ UNCHANGED <<cache, server>> /\ faults' \in 0..MaxFaults
        /\ \A r \in Requests : \/ request'[r] = request[r]
                               \/ /\ Placed(request'[r])
                                  /\ Stage(request'[r]) > Stage(request[r])
    BY <1>2, KilledMoves
  <2>2. Types'
    BY <2>1 DEF Types, CacheTypeOK, cache, server
  <2>. QED  BY <2>1, <2>2 DEF AllPlaced
<1>3. CASE Others
  <2>1. Types'
    BY <1>3, OthersKeep DEF Types, CacheTypeOK, cache
  <2>. QED  BY <1>3, <2>1, OthersKeep DEF AllPlaced
<1>. QED  BY <1>1, <1>2, <1>3, StepIs

LEMMA UsableTypes ==
    ASSUME CacheTypeOK', NEW c \in Clients PROVE Usable'[c] \subseteq Kinds \X Ids
<1>1. refreshToken'[c] \in Ids \cup {None}
  BY DEF CacheTypeOK
<1>2. familyRefreshToken'.secret \in Ids \cup {None}
  <2>1. CASE familyRefreshToken' = NoFamilyToken
    BY <2>1 DEF NoFamilyToken
  <2>2. CASE familyRefreshToken' \in [secret : Ids, owner : Clients]
    BY <2>2
  <2>. QED  BY <2>1, <2>2 DEF CacheTypeOK
<1>3. FamilyTokenFor(c)' \in Ids \cup {None}
  BY <1>2 DEF FamilyTokenFor
<1>. QED  BY <1>1, <1>3 DEF Usable, Kinds

LEMMA RemembersTypes ==
    ASSUME Types, AllPlaced, Types', AllPlaced', Remembers,
           \A r \in Requests : usable[r] \subseteq Kinds \X Ids
    PROVE  \A r \in Requests : usable'[r] \subseteq Kinds \X Ids
<1> SUFFICES ASSUME NEW r \in Requests PROVE usable'[r] \subseteq Kinds \X Ids
  OBVIOUS
<1>1. CASE At(r, "idle") /\ request'[r].pc \notin {"idle", "done"}
  <2>1. request'[r].client \in Clients
    BY <1>1 DEF AllPlaced, Placed
  <2>2. Usable'[request'[r].client] \subseteq Kinds \X Ids
    BY <2>1, UsableTypes DEF Types
  <2>3. usable'[r] = Usable'[request'[r].client]
    BY <1>1 DEF Remembers, At
  <2>. QED  BY <2>2, <2>3
<1>2. CASE ~(At(r, "idle") /\ request'[r].pc \notin {"idle", "done"})
  <2>1. \/ usable'[r] = {} \/ usable'[r] = usable[r]
        \/ usable'[r] = usable[r] \cap Usable'[request'[r].client]
    BY <1>2 DEF Remembers, At
  <2>. QED  BY <2>1
<1>. QED  BY <1>1, <1>2

LEMMA InitTypes ==
    ASSUME Init
    PROVE  /\ Types /\ AllPlaced
           /\ \A r \in Requests : usable[r] \subseteq Kinds \X Ids
<1>1. PICK h \in Histories :
        /\ accessToken = h /\ refreshToken = h
        /\ idToken = [c \in Clients |-> c \in {d \in Clients : h[d] # None}]
        /\ \/ familyRefreshToken = NoFamilyToken
           \/ \E c \in Clients : /\ h[c] # None
                                 /\ familyRefreshToken = [secret |-> h[c], owner |-> c]
        /\ \A c \in Clients : familyId[c] \in {"no entry", "member", "blank"}
        /\ familyId \in [Clients -> {"no entry", "member", "blank"}]
        /\ issued \in 0..MaxIssued
  BY DEF Init
<1>2. h \in [Clients -> Ids \cup {None}]
  BY SilentAssumption
<1>3. CacheTypeOK
  <2>1. familyRefreshToken \in [secret : Ids, owner : Clients] \cup {NoFamilyToken}
    <3>1. ASSUME NEW c \in Clients, h[c] # None,
                 familyRefreshToken = [secret |-> h[c], owner |-> c]
          PROVE  familyRefreshToken \in [secret : Ids, owner : Clients]
      BY <1>2, <3>1
    <3>. QED  BY <1>1, <3>1
  <2>2. accessToken \in [Clients -> Ids \cup {None}]
        /\ refreshToken \in [Clients -> Ids \cup {None}]
    BY <1>1, <1>2
  <2>3. idToken \in [Clients -> BOOLEAN]
    <3>1. \A c \in Clients : (c \in {d \in Clients : h[d] # None}) \in BOOLEAN
      OBVIOUS
    <3>. QED  BY <1>1, <3>1, Zenon
  <2>. QED  BY <1>1, <2>1, <2>2, <2>3 DEF CacheTypeOK
<1>4. Idle \in Record /\ Placed(Idle)
  <2> DEFINE fields == [pc : {"idle"}, client : {"nobody"}, kind : {"app"}, token : {None},
                        unexpired : {None}, extended : {None}, write : {0},
                        outcome : {"none"}, excused : {FALSE}, rejected : {{}}]
  <2>1. Idle \in fields
    BY DEF Idle
  <2>2. /\ "idle" \in Pcs /\ "app" \in Kinds /\ None \in Tokens /\ 0 \in 0..6
        /\ "none" \in Outcomes /\ {} \in SUBSET (Kinds \X Ids)
    BY DEF Pcs, Kinds, Tokens, Outcomes, Results
  <2>3. Idle \in Record
    BY <2>1, <2>2 DEF Record
  <2>4. /\ Idle.pc = "idle" /\ Idle.client = "nobody" /\ Idle.kind = "app"
        /\ Idle.write = 0 /\ Idle.outcome = "none" /\ Idle.rejected = {}
    BY DEF Idle
  <2>. QED  BY <2>3, <2>4 DEF Placed, Holding, Early
<1>5. request \in [Requests -> Record] /\ AllPlaced
  BY <1>4 DEF Init, AllPlaced
<1>6. dead = {} /\ gone = FALSE /\ faults = 0 /\ age = [i \in Ids |-> "fresh"]
  BY DEF Init
<1>8. faults \in 0..MaxFaults
  BY <1>6, SilentAssumption
<1>7. age \in [Ids -> {Ages[n] : n \in DOMAIN Ages}]
  <2>1. 1 \in DOMAIN Ages /\ Ages[1] = "fresh"
    BY DEF Ages
  <2>2. "fresh" \in {Ages[n] : n \in DOMAIN Ages}
    BY <2>1
  <2>. QED  BY <1>6, <2>2
<1>9. usable = [r \in Requests |-> {}]
  BY DEF Init
<1>. QED  BY <1>1, <1>3, <1>5, <1>6, <1>7, <1>8, <1>9 DEF Types

LEMMA NextTypes ==
    ASSUME Types, AllPlaced, [Next]_vars,
           \A r \in Requests : usable[r] \subseteq Kinds \X Ids
    PROVE  /\ Types' /\ AllPlaced'
           /\ \A r \in Requests : usable'[r] \subseteq Kinds \X Ids
           /\ \A r \in Requests :
                request'[r] # request[r] => Stage(request'[r]) > Stage(request[r])
<1>1. CASE Next
  BY <1>1, TypesStep, RemembersTypes DEF Next
<1>2. CASE UNCHANGED vars
  BY <1>2 DEF vars, cache, server, Types, CacheTypeOK, AllPlaced
<1>. QED  BY <1>1, <1>2

InOrder == /\ Types /\ AllPlaced
           /\ \A r \in Requests : usable[r] \subseteq Kinds \X Ids

LEMMA InOrderAlways == Spec => []InOrder
<1>1. Init => InOrder
  BY InitTypes DEF InOrder
<1>2. InOrder /\ [Next]_vars => InOrder'
  BY NextTypes DEF InOrder
<1>. QED  BY <1>1, <1>2, PTL DEF Spec

(***************************************************************************)
(* The cache and the requests have their types, whatever the clients, the  *)
(* server and the keychain do in between (TypeOK).                         *)
(***************************************************************************)
THEOREM TypeCorrect == Spec => []TypeOK
<1>1. InOrder => TypeOK
  BY SameTypes DEF InOrder
<1>. QED  BY <1>1, InOrderAlways, PTL

(***************************************************************************)
(* A request moves on and tries at most two refresh tokens, the client's   *)
(* and then the family's: tryRefreshToken cannot go round (MovesOn).       *)
(***************************************************************************)
THEOREM RequestsMoveOn == Spec => MovesOn
<1>1. InOrder /\ [Next]_vars =>
        [\A r \in Requests :
            request'[r] # request[r] => Stage(request'[r]) > Stage(request[r])]_vars
  BY NextTypes DEF InOrder
<1>. QED  BY <1>1, InOrderAlways, PTL DEF Spec, MovesOn

-----------------------------------------------------------------------------
(* A token the server called bad *)

\* The tokens a request has presented, or is about to present.
Seen(q) == q.rejected \cup (IF q.pc \in Holding THEN {<<q.kind, q.token>>} ELSE {})

\* A request that still has to write the entry of a kind.
WillWrite(q, kind) == q.pc = "saving" /\ q.write <= Place(q.client, kind)

\* Nobody knows a token that has not been issued.
Known ==
    /\ \A c \in Clients, kind \in Kinds : Entry(c, kind) <= issued
    /\ \A r \in Requests : \A p \in Seen(request[r]) : p[2] <= issued
    /\ \A r \in Requests : request[r].pc = "saving" => request[r].token <= issued

\* No two requests save the same answer.
Apart ==
    \A r, s \in Requests :
        request[r].pc = "saving" /\ request[s].pc = "saving" /\ r # s
            => request[r].token # request[s].token

\* A token yet to be written to an entry is in no such entry, and nobody has
\* presented it from there.
Pending ==
    \A s \in Requests, kind \in Kinds :
        WillWrite(request[s], kind) =>
            /\ \A c \in Clients : Entry(c, kind) # request[s].token
            /\ \A r \in Requests : <<kind, request[s].token>> \notin Seen(request[r])

\* The entry holds a rejected token only while the request is removing it.
Removed(q) ==
    \A p \in q.rejected :
        Entry(q.client, p[1]) = p[2]
            => q.pc \in {"validate", "remove"} /\ p = <<q.kind, q.token>>

Settled == Known /\ Apart /\ Pending /\ \A r \in Requests : Removed(request[r])

LEMMA SeenTypes ==
    ASSUME Types, NEW r \in Requests, Placed(request[r])
    PROVE  /\ Seen(request[r]) \in SUBSET (Kinds \X Ids)
           /\ request[r].rejected \subseteq Seen(request[r])
<1> DEFINE q == request[r]
<1>1. q.rejected \in SUBSET (Kinds \X Ids) /\ q.kind \in Kinds
  BY DEF Types, Record
<1>2. q.pc \in Holding => q.token \in Ids
  BY DEF Placed
<1>. QED  BY <1>1, <1>2 DEF Seen

LEMMA InitSettled == ASSUME Init PROVE Settled
<1>0. Types /\ AllPlaced
  BY InitTypes
<1>1. \A r \in Requests : request[r].pc = "idle" /\ request[r].rejected = {}
  BY DEF Init, Idle
<1>2. \A r \in Requests : Seen(request[r]) = {} /\ request[r].pc # "saving"
  BY <1>1 DEF Seen, Holding
<1>3. PICK h \in Histories :
        /\ refreshToken = h
        /\ \/ familyRefreshToken = NoFamilyToken
           \/ \E c \in Clients : /\ h[c] # None
                                 /\ familyRefreshToken = [secret |-> h[c], owner |-> c]
        /\ {h[c] : c \in {d \in Clients : h[d] # None}} = 1..issued
  BY DEF Init
<1>4. issued \in Nat
  BY <1>0, TokenCacheAssumption DEF Types
<1>5. ASSUME NEW c \in Clients PROVE h[c] <= issued
  <2>1. CASE h[c] = None
    BY <1>4, <2>1 DEF None
  <2>2. CASE h[c] # None
    <3>1. h[c] \in 1..issued
      BY <1>3, <2>2
    <3>. QED  BY <1>4, <3>1
  <2>. QED  BY <2>1, <2>2
<1>6. familyRefreshToken.secret <= issued
  <2>1. CASE familyRefreshToken = NoFamilyToken
    BY <1>4, <2>1 DEF NoFamilyToken, None
  <2>2. ASSUME NEW c \in Clients, familyRefreshToken = [secret |-> h[c], owner |-> c]
        PROVE  familyRefreshToken.secret <= issued
    BY <1>5, <2>2
  <2>. QED  BY <1>3, <2>1, <2>2
<1>7. \A c \in Clients, kind \in Kinds : Entry(c, kind) <= issued
  BY <1>3, <1>5, <1>6 DEF Entry
<1>. QED  BY <1>1, <1>2, <1>7 DEF Settled, Known, Apart, Pending, Removed, WillWrite

\* Where the cache stays, and requests stay or are killed.
LEMMA KeptSettled ==
    ASSUME Types, AllPlaced, Settled, UNCHANGED <<cache, issued>>,
           \A r \in Requests :
              LET q == request[r]  n == request'[r] IN
              n = q \/ (n.pc = "done" /\ n.rejected = {})
    PROVE  Settled'
<1>1. \A c \in Clients, kind \in Kinds : Entry(c, kind)' = Entry(c, kind)
  BY DEF cache, Entry
<1>2. \A r \in Requests :
        /\ Seen(request'[r]) \subseteq Seen(request[r])
        /\ request'[r].pc = "saving" => request'[r] = request[r]
  BY DEF Seen, Holding
<1>3. Known'
  BY <1>1, <1>2 DEF Settled, Known
<1>4. Apart'
  BY <1>2 DEF Settled, Apart
<1>5. Pending'
  BY <1>1, <1>2 DEF Settled, Pending, WillWrite
<1>6. ASSUME NEW r \in Requests PROVE Removed(request[r])'
  <2>1. CASE request'[r] = request[r]
    <3>1. familyRefreshToken' = familyRefreshToken /\ refreshToken' = refreshToken
      BY DEF cache
    <3>. QED  BY <2>1, <3>1 DEF Settled, Removed, Entry
  <2>2. CASE request'[r].rejected = {}
    BY <2>2 DEF Removed
  <2>. QED  BY <2>1, <2>2
<1>. QED  BY <1>3, <1>4, <1>5, <1>6 DEF Settled

\* A request presents what was in an entry when it read it.
LEMMA SeenGrows ==
    ASSUME Types, NEW r \in Requests, Placed(request[r]), Moves(r)
    PROVE  \A p \in Seen(request'[r]) :
              \/ p \in Seen(request[r])
              \/ \E c \in Clients, kind \in Kinds : p = <<kind, Entry(c, kind)>>
<1> DEFINE q == request[r]  n == request'[r]
<1>1. n.rejected \subseteq Seen(q)
  <2>1. CASE n.rejected \subseteq q.rejected
    BY <2>1 DEF Seen
  <2>2. CASE BadToken(r)
    <3>1. q.pc = "sent"
      BY <2>2 DEF BadToken, Answered, At
    <3>2. n.rejected = q.rejected \cup {<<q.kind, q.token>>}
      BY <2>2 DEF BadToken, Presented, Types, Record
    <3>. QED  BY <3>1, <3>2 DEF Seen, Holding
  <2>. QED  BY <2>1, <2>2 DEF Moves
<1>2. ASSUME n.pc \in Holding
      PROVE  \/ <<n.kind, n.token>> \in Seen(q)
             \/ \E c \in Clients, kind \in Kinds : <<n.kind, n.token>> = <<kind, Entry(c, kind)>>
  <2>1. CASE n.pc = "redeem"
    <3>1. n.kind \in Kinds /\ n.client \in Clients
      BY <1>2, <2>1 DEF Moves, Record, Placed
    <3>2. n.token = Entry(n.client, n.kind)
      BY <1>2, <2>1 DEF Moves
    <3>. QED  BY <3>1, <3>2
  <2>2. CASE n.pc # "redeem"
    BY <1>2, <2>2 DEF Moves, Seen
  <2>. QED  BY <2>1, <2>2
<1>. QED  BY <1>1, <1>2 DEF Seen

LEMMA ActsKnown ==
    ASSUME Types, AllPlaced, Known, NEW r \in Requests, Acts(r)
    PROVE  Known'
<1> DEFINE q == request[r]  n == request'[r]
<1>1. Moves(r) /\ CacheSteps(r)
  BY ActsMoves, ActsOnCache DEF AllPlaced
<1>2. issued \in Nat /\ issued' \in {issued, issued + 1}
  BY ActsOnServer, TokenCacheAssumption DEF Types
<1>3. \A m \in Nat : m <= issued => m <= issued'
  BY <1>2
<1>4. /\ None \in Nat /\ None <= issued /\ Ids \subseteq Nat
      /\ \A c \in Clients, kind \in Kinds : Entry(c, kind) \in Nat
  <2>1. None \in Nat /\ None <= issued /\ Ids \subseteq Nat
    BY <1>2 DEF None, Ids
  <2>. QED  BY <2>1, TokensRead DEF Tokens
<1>5. ASSUME NEW c \in Clients, NEW kind \in Kinds PROVE Entry(c, kind)' <= issued'
  <2>1. CASE Entry(c, kind)' = Entry(c, kind)
    BY <1>3, <1>4, <2>1 DEF Known
  <2>2. CASE Entry(c, kind)' = None
    BY <1>3, <1>4, <2>2
  <2>3. CASE q.pc = "saving" /\ Entry(c, kind)' = q.token
    <3>1. q.token \in Nat /\ q.token <= issued
      BY <1>4, <2>3 DEF Known, AllPlaced, Placed
    <3>. QED  BY <1>3, <2>3, <3>1
  <2>. QED  BY <1>1, <2>1, <2>2, <2>3 DEF CacheSteps
<1>6. ASSUME NEW s \in Requests, NEW p \in Seen(request'[s]) PROVE p[2] <= issued'
  <2>1. CASE p \in Seen(request[s])
    <3>1. p[2] \in Ids
      BY <2>1, SeenTypes DEF AllPlaced
    <3>. QED  BY <1>3, <1>4, <2>1, <3>1 DEF Known
  <2>2. ASSUME NEW c \in Clients, NEW kind \in Kinds, p = <<kind, Entry(c, kind)>>
        PROVE  p[2] <= issued'
    BY <1>3, <1>4, <2>2 DEF Known
  <2>3. CASE s # r
    BY <1>1, <2>1, <2>3 DEF Moves
  <2>4. CASE s = r
    BY <1>1, <2>1, <2>2, <2>4, SeenGrows DEF AllPlaced
  <2>. QED  BY <2>3, <2>4
<1>7. ASSUME NEW s \in Requests, request'[s].pc = "saving"
      PROVE  request'[s].token <= issued'
  <2>1. ASSUME request[s].pc = "saving", request'[s].token = request[s].token
        PROVE  request'[s].token <= issued'
    <3>1. request[s].token \in Nat
      BY <1>4, <2>1 DEF AllPlaced, Placed
    <3>. QED  BY <1>3, <2>1, <3>1 DEF Known
  <2>2. CASE s # r
    BY <1>1, <1>7, <2>1, <2>2 DEF Moves
  <2>3. CASE s = r /\ q.pc # "saving"
    BY <1>1, <1>2, <1>7, <2>3 DEF Moves
  <2>4. CASE s = r /\ q.pc = "saving"
    BY <1>1, <1>7, <2>1, <2>4 DEF Moves
  <2>. QED  BY <2>2, <2>3, <2>4
<1>. QED  BY <1>5, <1>6, <1>7 DEF Known

\* What r saves, if it saves: what it did before, or a new answer.
LEMMA SavesNew ==
    ASSUME Types, AllPlaced, Known, NEW r \in Requests, Moves(r),
           request'[r].pc = "saving"
    PROVE  LET q == request[r]  n == request'[r] IN
           \/ q.pc = "saving" /\ n.token = q.token /\ n.client = q.client
              /\ n.write = q.write + 1
           \/ n.token \in Ids /\ n.token > issued
<1> DEFINE q == request[r]  n == request'[r]
<1>1. CASE q.pc = "saving"
  BY <1>1 DEF Moves
<1>2. CASE q.pc # "saving"
  <2>1. n.token = issued + 1 /\ n.token \in Ids
    BY <1>2 DEF Moves, Placed
  <2>2. issued \in Nat
    BY TokenCacheAssumption DEF Types
  <2>. QED  BY <2>1, <2>2
<1>. QED  BY <1>1, <1>2

LEMMA ActsApart ==
    ASSUME Types, AllPlaced, Known, Apart, NEW r \in Requests, Acts(r)
    PROVE  Apart'
<1> DEFINE q == request[r]  n == request'[r]
<1>1. Moves(r)
  BY ActsMoves DEF AllPlaced
<1>2. ASSUME NEW s \in Requests, s # r, request'[s].pc = "saving", n.pc = "saving"
      PROVE  n.token # request'[s].token
  <2>1. request'[s] = request[s]
    BY <1>1, <1>2 DEF Moves
  <2>2. CASE q.pc = "saving" /\ n.token = q.token
    BY <1>2, <2>1, <2>2 DEF Apart
  <2>3. CASE n.token \in Ids /\ n.token > issued
    <3>1. request[s].token <= issued /\ request[s].token \in Ids /\ issued \in Nat
      BY <1>2, <2>1, TokenCacheAssumption DEF Known, AllPlaced, Placed, Types
    <3>2. \A i \in Ids : i \in Nat
      BY DEF Ids
    <3>. QED  BY <2>1, <2>3, <3>1, <3>2
  <2>. QED  BY <1>1, <1>2, <2>2, <2>3, SavesNew
<1>. QED  BY <1>1, <1>2 DEF Apart, Moves

LEMMA ActsPending ==
    ASSUME Types, AllPlaced, Known, Apart, Pending, NEW r \in Requests, Acts(r)
    PROVE  Pending'
<1> DEFINE q == request[r]  n == request'[r]
<1>1. Moves(r) /\ CacheSteps(r)
  BY ActsMoves, ActsOnCache DEF AllPlaced
<1>2. ASSUME NEW s \in Requests, NEW kind \in Kinds, WillWrite(request'[s], kind)
      PROVE  /\ \A c \in Clients : Entry(c, kind)' # request'[s].token
             /\ \A t \in Requests : <<kind, request'[s].token>> \notin Seen(request'[t])
  <2> DEFINE token == request'[s].token
  <2>1. token \in Ids /\ token # None
    <3>1. Placed(request'[s])
      BY <1>1 DEF AllPlaced, Moves
    <3>2. token \in Ids
      BY <1>2, <3>1 DEF WillWrite, Placed
    <3>. QED  BY <3>2 DEF Ids, None
  <2>2. /\ \A c \in Clients : Entry(c, kind) # token
        /\ \A t \in Requests : <<kind, token>> \notin Seen(request[t])
    <3>1. CASE WillWrite(request[s], kind) /\ token = request[s].token
      BY <3>1 DEF Pending
    <3>2. CASE token > issued
      <4>1. issued \in Nat /\ token \in Nat
        BY <2>1, TokenCacheAssumption DEF Types, Ids
      <4>2. \A m \in Nat : m <= issued => m # token
        BY <3>2, <4>1
      <4>3. \A c \in Clients : Entry(c, kind) \in Nat
        BY TokensRead DEF Tokens, Ids, None
      <4>4. \A c \in Clients : Entry(c, kind) # token
        BY <4>2, <4>3 DEF Known
      <4>5. ASSUME NEW t \in Requests PROVE <<kind, token>> \notin Seen(request[t])
        <5>1. \A p \in Seen(request[t]) : p[2] <= issued
          BY DEF Known
        <5>. QED  BY <4>1, <4>2, <5>1
      <4>. QED  BY <4>4, <4>5
    <3>3. s # r => WillWrite(request[s], kind) /\ token = request[s].token
      BY <1>1, <1>2 DEF Moves
    <3>4. ASSUME s = r PROVE token > issued \/ (WillWrite(q, kind) /\ token = q.token)
      <4>1. n.pc = "saving" /\ n.write <= Place(n.client, kind)
        BY <1>2, <3>4 DEF WillWrite
      <4>2. CASE q.pc = "saving" /\ n.token = q.token /\ n.client = q.client
                 /\ n.write = q.write + 1
        <5>1. q.write \in Nat /\ Place(q.client, kind) \in Nat
          BY DEF Types, Record, Place
        <5>. QED  BY <3>4, <4>1, <4>2, <5>1 DEF WillWrite
      <4>. QED  BY <1>1, <3>4, <4>1, <4>2, SavesNew
    <3>. QED  BY <3>1, <3>2, <3>3, <3>4
  <2>3. ASSUME NEW c \in Clients PROVE Entry(c, kind)' # token
    <3>1. CASE Entry(c, kind)' \in {Entry(c, kind), None}
      BY <2>1, <2>2, <3>1
    <3>2. ASSUME q.pc = "saving", q.write = Place(q.client, kind),
                 Entry(c, kind)' = q.token
          PROVE  Entry(c, kind)' # token
      <4>1. CASE s = r
        <5>1. n.pc = "saving" /\ n.write <= Place(n.client, kind)
          BY <1>2, <4>1 DEF WillWrite
        <5>2. n.write = q.write + 1 /\ n.client = q.client
          BY <1>1, <3>2, <5>1 DEF Moves
        <5>3. q.write \in Nat
          BY DEF Types, Record
        <5>. QED  BY <3>2, <5>1, <5>2, <5>3
      <4>2. CASE s # r
        <5>1. request'[s] = request[s] /\ request[s].pc = "saving"
          BY <1>1, <1>2, <4>2 DEF Moves, WillWrite
        <5>. QED  BY <3>2, <4>2, <5>1 DEF Apart
      <4>. QED  BY <4>1, <4>2
    <3>. QED  BY <1>1, <3>1, <3>2 DEF CacheSteps, Client
  <2>4. ASSUME NEW t \in Requests PROVE <<kind, token>> \notin Seen(request'[t])
    <3>1. CASE t # r
      BY <1>1, <2>2, <3>1 DEF Moves
    <3>2. CASE t = r
      <4>1. SUFFICES ASSUME <<kind, token>> \in Seen(n) PROVE FALSE
        BY <3>2
      <4>2. PICK c \in Clients, k \in Kinds : <<kind, token>> = <<k, Entry(c, k)>>
        BY <1>1, <2>2, <4>1, SeenGrows DEF AllPlaced
      <4>3. kind = k /\ token = Entry(c, k)
        BY <4>2
      <4>. QED  BY <2>2, <4>3
    <3>. QED  BY <3>1, <3>2
  <2>. QED  BY <2>3, <2>4
<1>. QED  BY <1>2 DEF Pending

\* What a request does that is about to remove a token.
LEMMA RemovingActs ==
    ASSUME NEW r \in Requests, Acts(r), request[r].pc \in {"validate", "remove"}
    PROVE  Validate(r) \/ Remove(r) \/ RemoveFails(r)
  BY DEF Acts, Handles, Faulty, Start, SignIn, ReadAccessToken, Result, RemoveExpired,
         ReadAppToken, ReadFamilyToken, Send, WrongCloud, Fails, Refused, Succeeds,
         Answered, BadToken, InvalidGrant, ClientMismatch, UserDeleted, Unavailable,
         Save, Clear, AfterRefusal, LeaveFamily, AccessTokenUnreadable,
         RemoveExpiredFails, AppTokenUnreadable, FamilyTokenUnreadable, SaveFails,
         ClearFails, RefusalUnreadable, LeaveFamilyFails, At

\* The entry after the step.
Later(c, kind) == IF kind = "family" THEN familyRefreshToken'.secret ELSE refreshToken'[c]

\* An entry gets no token that has been presented from it.
LEMMA NotPutBack ==
    ASSUME Types, AllPlaced, Pending, NEW r \in Requests, CacheSteps(r),
           NEW s \in Requests, NEW p \in Seen(request[s]), NEW c \in Clients,
           Later(c, p[1]) = p[2]
    PROVE  Entry(c, p[1]) = p[2]
<1>1. p \in Kinds \X Ids
  BY SeenTypes DEF AllPlaced
<1>2. p[1] \in Kinds /\ p[2] # None /\ p = <<p[1], p[2]>>
  BY <1>1 DEF Ids, None
<1>3. SUFFICES ASSUME request[r].pc = "saving",
                      request[r].write = Place(request[r].client, p[1]),
                      request[r].token = p[2]
               PROVE  FALSE
  <2>1. Entry(c, p[1])' = p[2]
    BY DEF Later, Entry
  <2>. QED  BY <1>2, <2>1 DEF CacheSteps, Client
<1>4. request[r].write \in Nat
  BY DEF Types, Record
<1>5. WillWrite(request[r], p[1])
  BY <1>3, <1>4 DEF WillWrite
<1>. QED  BY <1>2, <1>3, <1>5 DEF Pending

LEMMA ActsRemoved ==
    ASSUME Types, AllPlaced, Settled, NEW r \in Requests, Acts(r), NEW s \in Requests
    PROVE  Removed(request[s])'
<1> DEFINE q == request[s]  n == request'[s]
<1>1. Moves(r) /\ CacheSteps(r)
  BY ActsMoves, ActsOnCache DEF AllPlaced
<1>2. SUFFICES ASSUME NEW p \in n.rejected, Later(n.client, p[1]) = p[2]
               PROVE  n.pc \in {"validate", "remove"} /\ p = <<n.kind, n.token>>
  BY DEF Removed, Entry, Later
<1>a. Placed(q) /\ Seen(q) \in SUBSET (Kinds \X Ids) /\ q.rejected \subseteq Seen(q)
  BY SeenTypes DEF AllPlaced
<1>3. CASE s # r
  <2>1. n = q
    BY <1>1, <1>3 DEF Moves
  <2>2. p \in Seen(q) /\ q.client \in Clients
    BY <1>2, <1>a, <2>1 DEF Placed
  <2>3. Entry(q.client, p[1]) = p[2]
    BY <1>1, <1>2, <2>1, <2>2, NotPutBack DEF Settled
  <2>. QED  BY <1>2, <2>1, <2>3 DEF Settled, Removed
<1>4. CASE s = r
  <2>1. CASE BadToken(r)
    <3>1. q.pc = "sent" /\ q.client \in Clients
      BY <1>4, <1>a, <2>1 DEF BadToken, Answered, At, Placed
    <3>2. /\ n.pc = "validate" /\ n.client = q.client /\ n.kind = q.kind
          /\ n.token = q.token /\ n.rejected = q.rejected \cup {<<q.kind, q.token>>}
      <4>1. q \in Record
        BY DEF Types
      <4>2. n = [q EXCEPT !.pc = "validate", !.rejected = @ \cup {Presented(r)}]
        BY <1>4, <2>1 DEF BadToken, Types
      <4>. QED  BY <1>4, <4>1, <4>2 DEF Record, Presented
    <3>3. p \notin q.rejected
      <4>1. SUFFICES ASSUME p \in q.rejected PROVE FALSE
        OBVIOUS
      <4>2. Entry(q.client, p[1]) = p[2]
        BY <1>1, <1>2, <1>a, <3>1, <3>2, <4>1, NotPutBack DEF Settled
      <4>. QED  BY <3>1, <4>1, <4>2 DEF Settled, Removed
    <3>. QED  BY <1>2, <3>2, <3>3
  <2>2. CASE n.rejected \subseteq q.rejected
    <3>1. p \in q.rejected /\ q.client \in Clients /\ n.client = q.client
      BY <1>1, <1>2, <1>4, <1>a, <2>2 DEF Placed, Moves
    <3>2. Entry(q.client, p[1]) = p[2]
      BY <1>1, <1>2, <1>a, <3>1, NotPutBack DEF Settled
    <3>3. q.pc \in {"validate", "remove"} /\ p = <<q.kind, q.token>>
      BY <3>1, <3>2 DEF Settled, Removed
    <3>4. p[1] = q.kind /\ p[2] = q.token /\ q.kind \in Kinds /\ q.token # None
      BY <1>a, <3>1, <3>3 DEF Ids, None
    <3>5. CASE Validate(r)
      <4>1. Held(r) = q.token
        BY <1>4, <3>2, <3>4 DEF Held, Client
      <4>2. Goes(r, "remove") /\ "remove" \in Pcs
        BY <1>4, <3>5, <4>1 DEF Validate, Pcs, Holding
      <4>3. n.pc = "remove" /\ n.kind = q.kind /\ n.token = q.token
        BY <1>4, <4>2, GoesFacts
      <4>. QED  BY <3>3, <4>3
    <3>6. CASE Remove(r)
      <4>1. RemoveEntry(q.client, q.kind)
        BY <1>4, <3>6 DEF Remove, Client
      <4>2. Later(q.client, q.kind) = None
        <5>1. CASE q.kind = "family"
          BY <4>1, <5>1 DEF RemoveEntry, Later, NoFamilyToken
        <5>2. CASE q.kind # "family"
          <6>1. refreshToken' = [refreshToken EXCEPT ![q.client] = None]
            BY <4>1, <5>2 DEF RemoveEntry
          <6>2. refreshToken'[q.client] = None
            BY <3>1, <6>1 DEF Types, CacheTypeOK
          <6>. QED  BY <5>2, <6>2 DEF Later
        <5>. QED  BY <5>1, <5>2
      <4>. QED  BY <1>2, <3>1, <3>4, <4>2
    <3>7. CASE RemoveFails(r)
      <4>1. n.rejected = q.rejected \ {<<q.kind, q.token>>}
        <5>1. q \in Record
          BY DEF Types
        <5>2. n = [q EXCEPT !.pc = "refused", !.rejected = @ \ {Presented(r)}]
          BY <1>4, <3>7 DEF RemoveFails, Types
        <5>. QED  BY <1>4, <5>1, <5>2 DEF Record, Presented
      <4>. QED  BY <1>2, <3>3, <4>1
    <3>. QED  BY <1>4, <3>3, <3>5, <3>6, <3>7, RemovingActs
  <2>. QED  BY <1>1, <1>4, <2>1, <2>2 DEF Moves
<1>. QED  BY <1>3, <1>4

LEMMA NextSettled ==
    ASSUME InOrder, Settled, [Next]_vars PROVE Settled'
<1>1. ASSUME NEW r \in Requests, Acts(r) PROVE Settled'
  BY <1>1, ActsKnown, ActsApart, ActsPending, ActsRemoved DEF InOrder, Settled
<1>2. ASSUME NEW c \in Clients, Killed(c) PROVE Settled'
  <2>1. /\ UNCHANGED <<cache, issued>>
        /\ \A r \in Requests : LET q == request[r]  n == request'[r] IN
              n = q \/ (n.pc = "done" /\ n.rejected = {})
    BY <1>2, KilledMoves DEF InOrder, server
  <2>. QED  BY <2>1, KeptSettled DEF InOrder
<1>3. CASE Others
  <2>1. UNCHANGED <<cache, issued, request>>
    BY <1>3, OthersKeep DEF InOrder
  <2>. QED  BY <2>1, KeptSettled DEF InOrder
<1>4. CASE UNCHANGED vars
  <2>1. UNCHANGED <<cache, issued, request>>
    BY <1>4 DEF vars, server
  <2>. QED  BY <2>1, KeptSettled DEF InOrder
<1>. QED  BY <1>1, <1>2, <1>3, <1>4, StepIs DEF Next

(***************************************************************************)
(* A token the server called bad is not in the entry it was read from when *)
(* the request ends, and no save under way puts it back                    *)
(* (RejectedTokenGone): an answer is known to nobody before its request    *)
(* has written it, so what a request presents is never yet to be written.  *)
(***************************************************************************)
THEOREM RejectedStaysGone == Spec => []RejectedTokenGone
<1>1. Init => InOrder /\ Settled
  BY InitTypes, InitSettled DEF InOrder
<1>2. InOrder /\ Settled /\ [Next]_vars => Settled'
  BY NextSettled
<1>3. InOrder /\ Settled => RejectedTokenGone
  BY DEF Settled, Removed, RejectedTokenGone, At, Client
<1>. QED  BY <1>1, <1>2, <1>3, InOrderAlways, PTL DEF Spec

-----------------------------------------------------------------------------
(* No needless interaction *)

\* Where a request is once the server has refused what it sent.
Bad == {"refused", "validate", "remove", "clear"}

\* Why a request ends with "interaction required".
Ends(r) ==
    LET q == request[r] IN
    \/ q.pc = "family token" /\ FamilyTokenFor(q.client) = None
    \/ /\ q.pc = "refused"
       /\ q.kind = "app" => FamilyTokenFor(q.client) \in {None, q.token}
    \/ q.pc = "mismatch"

\* Why a request that is not excused gets where it may have to ask.
Fine(r) ==
    LET q == request[r]  n == request'[r] IN
    ~n.excused =>
        /\ n.pc = "family token" => q.pc = "app token" /\ refreshToken[q.client] = None
        /\ n.pc = "redeem" =>
              \/ q.pc = "app token" /\ n.kind = "app"
              \/ q.pc = "family token" /\ n.kind = "family"
              \/ q.pc = "refused" /\ q.kind = "app" /\ n.kind = "family"
        /\ n.pc \in Bad => q.pc \in Bad \/ q.token \in dead \/ gone
        /\ n.pc = "done" /\ n.outcome = "interaction" => Ends(r)

LEMMA FineGoing ==
    ASSUME Types, NEW r \in Requests, NEW pc \in Pcs, Goes(r, pc),
           pc \notin {"redeem", "done"},
           pc = "family token" =>
              request[r].pc = "app token" /\ refreshToken[request[r].client] = None,
           pc \in Bad => request[r].pc \in Bad \/ request[r].token \in dead \/ gone
    PROVE  Fine(r)
<1>1. request'[r].pc = pc
  BY GoesFacts
<1>. QED  BY <1>1 DEF Fine

LEMMA FineCompleting ==
    ASSUME Types, NEW r \in Requests, NEW how \in Outcomes,
           Completes(r, how) \/ CompletesExcused(r, how),
           Completes(r, how) /\ how = "interaction" => Ends(r)
    PROVE  Fine(r)
<1>1. /\ request'[r].pc = "done" /\ request'[r].outcome = how
      /\ Completes(r, how) \/ request'[r].excused
  BY CompletesFacts
<1>2. "done" \notin Bad
  BY DEF Bad
<1>. QED  BY <1>1, <1>2 DEF Fine

LEMMA FineTrying ==
    ASSUME Types, NEW r \in Requests, NEW kind \in Kinds, NEW t \in Ids, Tries(r, kind, t),
           \/ request[r].pc = "app token" /\ kind = "app"
           \/ request[r].pc = "family token" /\ kind = "family"
           \/ request[r].pc = "refused" /\ request[r].kind = "app" /\ kind = "family"
    PROVE  Fine(r)
<1>1. request'[r].pc = "redeem" /\ request'[r].kind = kind
  BY TriesFacts
<1>2. "redeem" \notin Bad
  BY DEF Bad
<1>. QED  BY <1>1, <1>2 DEF Fine

LEMMA FineExcused ==
    ASSUME NEW r \in Requests, request'[r].excused PROVE Fine(r)
  BY DEF Fine

LEMMA FineElsewhere ==
    ASSUME NEW r \in Requests, request'[r].pc \in {"access token", "app token", "saving"}
    PROVE  Fine(r)
  BY DEF Fine, Bad

LEMMA BeginningIsFine ==
    ASSUME Types, NEW r \in Requests, NEW c \in Clients,
           (\E force \in BOOLEAN : Start(r, c, force)) \/ SignIn(r, c)
    PROVE  Fine(r)
<1>1. request[r] \in Record
  BY DEF Types
<1>2. request'[r].pc \in {"access token", "app token", "saving"}
  <2>1. ASSUME NEW force \in BOOLEAN, Start(r, c, force)
        PROVE  request'[r].pc \in {"access token", "app token"}
    BY <1>1, <2>1 DEF Start, Types, Record
  <2>2. SignIn(r, c) => request'[r].pc = "saving"
    BY <1>1 DEF SignIn, Types, Record
  <2>. QED  BY <2>1, <2>2
<1>. QED  BY <1>2, FineElsewhere

LEMMA HandlesIsFine ==
    ASSUME Types, AllPlaced, NEW r \in Requests, Handles(r) PROVE Fine(r)
<1> DEFINE q == request[r]  n == request'[r]  c == Client(r)
<1>0. q \in Record /\ (q.pc # "idle" => c \in Clients) /\ c = q.client
  BY DEF Types, AllPlaced, Placed, Client
<1>a. /\ {"app token", "result", "remove access token", "family token", "sent", "refused",
          "mismatch", "clear", "remove"} \subseteq Pcs
      /\ Kinds = {"app", "family"} /\ Bad = {"refused", "validate", "remove", "clear"}
      /\ {"cached", "unexpired", "extended", "error", "interaction", "token"}
            \subseteq Outcomes
  BY DEF Pcs, Early, Holding, Kinds, Bad, Outcomes, Results
<1>1. CASE ReadAccessToken(r)
  <2>1. CASE \E pc \in {"app token", "result", "remove access token"} : Goes(r, pc)
    BY <1>a, <2>1, FineGoing
  <2>2. ASSUME \/ request' = [request EXCEPT ![r].pc = "app token",
                                             ![r].unexpired = accessToken[c]]
               \/ request' = [request EXCEPT ![r].pc = "app token",
                                             ![r].extended = accessToken[c]]
        PROVE  Fine(r)
    <3>1. n.pc = "app token"
      BY <1>0, <2>2 DEF Types, Record
    <3>. QED  BY <3>1, FineElsewhere
  <2>. QED  BY <1>1, <2>1, <2>2 DEF ReadAccessToken
<1>2. CASE Result(r)
  <2>1. Completes(r, "cached") \/ Goes(r, "app token")
    BY <1>2 DEF Result
  <2>. QED  BY <1>a, <2>1, FineCompleting, FineGoing
<1>3. CASE RemoveExpired(r)
  <2>1. Goes(r, "app token")
    BY <1>3 DEF RemoveExpired
  <2>. QED  BY <1>a, <2>1, FineGoing
<1>4. CASE ReadAppToken(r)
  <2>1. q.pc = "app token" /\ (\/ refreshToken[c] = None /\ Goes(r, "family token")
                               \/ refreshToken[c] # None /\ Tries(r, "app", refreshToken[c]))
    BY <1>4 DEF ReadAppToken, At
  <2>2. refreshToken[c] # None => refreshToken[c] \in Ids
    BY <1>0, <2>1, TokensRead DEF Tokens
  <2>. QED  BY <1>0, <1>a, <2>1, <2>2, FineGoing, FineTrying
<1>5. CASE ReadFamilyToken(r)
  <2>1. q.pc = "family token" /\ (\/ FamilyTokenFor(c) = None /\ Completes(r, "interaction")
                                  \/ /\ FamilyTokenFor(c) # None
                                     /\ Tries(r, "family", FamilyTokenFor(c)))
    BY <1>5 DEF ReadFamilyToken, At
  <2>2. FamilyTokenFor(c) # None => FamilyTokenFor(c) \in Ids
    BY <1>0, <2>1, TokensRead DEF Tokens
  <2>3. CASE FamilyTokenFor(c) = None /\ Completes(r, "interaction")
    <3>1. Ends(r)
      BY <1>0, <2>1, <2>3 DEF Ends
    <3>. QED  BY <1>a, <2>3, <3>1, FineCompleting
  <2>. QED  BY <1>a, <2>1, <2>2, <2>3, FineTrying
<1>6. CASE Send(r)
  <2>1. Goes(r, "sent")
    BY <1>6 DEF Send
  <2>. QED  BY <1>a, <2>1, FineGoing
<1>7. CASE WrongCloud(r)
  <2>1. CompletesExcused(r, "interaction")
    BY <1>7 DEF WrongCloud
  <2>2. request'[r].excused
    BY <1>0, <2>1 DEF CompletesExcused, Ended, Idle, Types
  <2>. QED  BY <2>2, FineExcused
<1>8. CASE Fails(r)
  <2>1. Completes(r, "error")
    BY <1>8 DEF Fails
  <2>. QED  BY <1>a, <2>1, FineCompleting
<1>9. CASE Refused(r)
  <2>1. request'[r].excused
    BY <1>0, <1>9 DEF Refused, Types, Record
  <2>. QED  BY <2>1, FineExcused
<1>10. CASE Succeeds(r)
  <2>1. n.pc = "saving"
    BY <1>0, <1>10 DEF Succeeds, Types, Record
  <2>. QED  BY <2>1, FineElsewhere
<1>11. CASE BadToken(r)
  <2>1. n.pc = "validate" /\ q.token \in dead
    BY <1>0, <1>11 DEF BadToken, Types, Record
  <2>. QED  BY <2>1 DEF Fine
<1>12. CASE InvalidGrant(r)
  <2>1. q.token \in dead /\ Goes(r, "refused")
    BY <1>12 DEF InvalidGrant
  <2>. QED  BY <1>a, <2>1, FineGoing
<1>13. CASE ClientMismatch(r)
  <2>1. Goes(r, "mismatch")
    BY <1>13 DEF ClientMismatch
  <2>. QED  BY <1>a, <2>1, FineGoing
<1>14. CASE UserDeleted(r)
  <2>1. gone /\ Goes(r, "clear")
    BY <1>14 DEF UserDeleted
  <2>. QED  BY <1>a, <2>1, FineGoing
<1>15. CASE Unavailable(r)
  <2>1. \E how \in {"unexpired", "extended", "error"} : Completes(r, how)
    BY <1>15 DEF Unavailable
  <2>. QED  BY <1>a, <2>1, FineCompleting
<1>16. CASE Save(r)
  <2>1. q.pc = "saving" /\ \/ Completes(r, "token")
                           \/ request' = [request EXCEPT ![r].write = q.write + 1]
    BY <1>16 DEF Save, At
  <2>2. CASE Completes(r, "token")
    BY <1>a, <2>2, FineCompleting
  <2>3. CASE request' = [request EXCEPT ![r].write = q.write + 1]
    <3>1. n.pc = "saving"
      BY <1>0, <2>1, <2>3 DEF Types, Record
    <3>. QED  BY <3>1, FineElsewhere
  <2>. QED  BY <2>1, <2>2, <2>3
<1>17. CASE Validate(r)
  <2>1. q.pc = "validate" /\ \E pc \in {"remove", "refused"} : Goes(r, pc)
    BY <1>17 DEF Validate, At
  <2>. QED  BY <1>a, <2>1, FineGoing
<1>18. CASE Remove(r)
  <2>1. q.pc = "remove" /\ Goes(r, "refused")
    BY <1>18 DEF Remove, At
  <2>. QED  BY <1>a, <2>1, FineGoing
<1>19. CASE Clear(r)
  <2>1. q.pc = "clear" /\ Goes(r, "refused")
    BY <1>19 DEF Clear, At
  <2>. QED  BY <1>a, <2>1, FineGoing
<1>20. CASE AfterRefusal(r)
  <2> DEFINE t == OtherToken(r)
  <2>1. q.pc = "refused" /\ (\/ t \notin {None, q.token} /\ Tries(r, "family", t)
                             \/ t \in {None, q.token} /\ Completes(r, "interaction"))
    BY <1>20 DEF AfterRefusal, At
  <2>2. CASE t \notin {None, q.token} /\ Tries(r, "family", t)
    <3>1. q.kind = "app" /\ t = FamilyTokenFor(c)
      BY <2>2 DEF OtherToken
    <3>2. t \in Ids
      BY <1>0, <2>1, <2>2, <3>1, TokensRead DEF Tokens
    <3> HIDE DEF t
    <3>. QED  BY <1>a, <2>1, <2>2, <3>1, <3>2, FineTrying
  <2>3. CASE t \in {None, q.token} /\ Completes(r, "interaction")
    <3>1. q.kind = "app" => t = FamilyTokenFor(q.client)
      BY <1>0 DEF OtherToken
    <3> HIDE DEF t
    <3>2. Ends(r)
      BY <2>1, <2>3, <3>1 DEF Ends
    <3>. QED  BY <1>a, <2>3, <3>2, FineCompleting
  <2>. QED  BY <2>1, <2>2, <2>3
<1>21. CASE LeaveFamily(r)
  <2>1. q.pc = "mismatch" /\ Completes(r, "interaction")
    BY <1>21 DEF LeaveFamily, At
  <2>2. Ends(r)
    BY <2>1 DEF Ends
  <2>. QED  BY <1>a, <2>1, <2>2, FineCompleting
<1>. QED
  BY <1>1, <1>2, <1>3, <1>4, <1>5, <1>6, <1>7, <1>8, <1>9, <1>10, <1>11, <1>12, <1>13,
     <1>14, <1>15, <1>16, <1>17, <1>18, <1>19, <1>20, <1>21 DEF Handles

LEMMA FaultyIsFine ==
    ASSUME Types, AllPlaced, NEW r \in Requests, Faulty(r) PROVE Fine(r)
<1> DEFINE q == request[r]  n == request'[r]
<1>0. q \in Record
  BY DEF Types
<1>a. /\ {"app token", "refused"} \subseteq Pcs /\ Bad = {"refused", "validate", "remove", "clear"}
      /\ {"error", "interaction", "token"} \subseteq Outcomes
  BY DEF Pcs, Early, Holding, Bad, Outcomes, Results
<1>1. CASE AccessTokenUnreadable(r) \/ SaveFails(r)
  <2>1. \E how \in {"error", "token"} : Completes(r, how)
    BY <1>1 DEF AccessTokenUnreadable, SaveFails
  <2>. QED  BY <1>a, <2>1, FineCompleting
<1>2. CASE RemoveExpiredFails(r)
  <2>1. Goes(r, "app token")
    BY <1>2 DEF RemoveExpiredFails
  <2>. QED  BY <1>a, <2>1, FineGoing
<1>3. CASE AppTokenUnreadable(r)
  <2>1. n.excused
    BY <1>0, <1>3 DEF AppTokenUnreadable, Types, Record
  <2>. QED  BY <2>1, FineExcused
<1>4. CASE FamilyTokenUnreadable(r) \/ RefusalUnreadable(r)
  <2>1. CompletesExcused(r, "interaction")
    BY <1>4 DEF FamilyTokenUnreadable, RefusalUnreadable
  <2>2. n.excused
    BY <1>0, <2>1 DEF CompletesExcused, Ended, Idle, Types
  <2>. QED  BY <2>2, FineExcused
<1>5. CASE RemoveFails(r)
  <2>1. q.pc \in Bad
    BY <1>5, <1>a DEF RemoveFails, At
  <2>2. n.pc = "refused"
    BY <1>0, <1>5 DEF RemoveFails, Types, Record
  <2>. QED  BY <2>1, <2>2 DEF Fine
<1>6. CASE ClearFails(r)
  <2>1. q.pc \in Bad /\ Goes(r, "refused")
    BY <1>6, <1>a DEF ClearFails, At
  <2>. QED  BY <1>a, <2>1, FineGoing
<1>7. CASE LeaveFamilyFails(r)
  <2>1. q.pc = "mismatch" /\ Completes(r, "interaction")
    BY <1>7 DEF LeaveFamilyFails, At
  <2>2. Ends(r)
    BY <2>1 DEF Ends
  <2>. QED  BY <1>a, <2>1, <2>2, FineCompleting
<1>. QED
  BY <1>1, <1>2, <1>3, <1>4, <1>5, <1>6, <1>7 DEF Faulty

LEMMA ActsIsFine ==
    ASSUME Types, AllPlaced, NEW r \in Requests, Acts(r) PROVE Fine(r)
  BY BeginningIsFine, HandlesIsFine, FaultyIsFine DEF Acts

\* What is left of the usable tokens, where a request is.
Justified(r) ==
    LET q == request[r]  u == usable[r] IN
    /\ q.pc \notin {"idle", "done"} => u \subseteq Usable[q.client]
    /\ ~q.excused =>
        /\ q.pc = "family token" => \A e \in u : e[1] = "family"
        /\ q.pc \in Holding => \A e \in u : \/ e = <<q.kind, q.token>>
                                            \/ q.kind = "app" /\ e[1] = "family"
        /\ q.pc \in Bad => q.token \in dead \/ gone
        /\ q.pc = "done" /\ q.outcome = "interaction" => u = {}

LEMMA UsableAre ==
    ASSUME NEW c \in Clients, NEW e \in Usable[c]
    PROVE  /\ \/ e[1] = "app" /\ e[2] = refreshToken[c]
              \/ e[1] = "family" /\ e[2] = FamilyTokenFor(c)
           /\ e = <<e[1], e[2]>>
           /\ e[2] # None /\ e[2] \notin dead /\ ~gone
           /\ e[1] = "family" => c \in Members
<1>1. /\ e \in {<<"app", refreshToken[c]>>, <<"family", FamilyTokenFor(c)>>}
      /\ e[2] # None /\ Good(c, e[1], e[2])
  BY DEF Usable
<1>2. CASE e = <<"app", refreshToken[c]>>
  BY <1>1, <1>2 DEF Good
<1>3. CASE e = <<"family", FamilyTokenFor(c)>>
  BY <1>1, <1>3 DEF Good
<1>. QED  BY <1>1, <1>2, <1>3

LEMMA ActsJustified ==
    ASSUME Types, AllPlaced, NEW r \in Requests, Acts(r), Justified(r), Remembers
    PROVE  Justified(r)'
<1> DEFINE q == request[r]  n == request'[r]  u == usable[r]  v == usable'[r]
<1>1. Moves(r) /\ Fine(r) /\ UNCHANGED <<dead, gone>>
  BY ActsMoves, ActsIsFine, ActsOnServer DEF AllPlaced
<1>2. n.pc \notin {"idle", "done"} => v \subseteq Usable'[n.client]
  BY DEF Remembers, At
<1>3. q.pc # "idle" => v \subseteq u
  BY DEF Remembers, At
<1>4. q.pc # "done" /\ (q.pc # "idle" => q.client \in Clients /\ n.client = q.client)
  BY <1>1 DEF Moves, AllPlaced, Placed
<1>5. q.pc # "idle" => u \subseteq Usable[q.client]
  BY <1>4 DEF Justified
<1>6. SUFFICES ASSUME ~n.excused
               PROVE  /\ n.pc = "family token" => \A e \in v : e[1] = "family"
                      /\ n.pc \in Holding => \A e \in v : \/ e = <<n.kind, n.token>>
                                                          \/ n.kind = "app" /\ e[1] = "family"
                      /\ n.pc \in Bad => n.token \in dead \/ gone
                      /\ n.pc = "done" /\ n.outcome = "interaction" => v = {}
  BY <1>1, <1>2 DEF Justified
<1>7. ~q.excused
  BY <1>1, <1>6 DEF Moves
<1>8. ASSUME n.pc = "family token", NEW e \in v PROVE e[1] = "family"
  <2>1. q.pc = "app token" /\ refreshToken[q.client] = None
    BY <1>1, <1>6, <1>8 DEF Fine
  <2>2. e \in Usable[q.client] /\ q.client \in Clients
    BY <1>3, <1>4, <1>5, <1>8, <2>1
  <2>. QED  BY <2>1, <2>2, UsableAre
<1>9. ASSUME n.pc \in Holding, NEW e \in v
      PROVE  e = <<n.kind, n.token>> \/ (n.kind = "app" /\ e[1] = "family")
  <2>1. CASE n.pc = "redeem"
    <3>1. /\ n.token = Entry(n.client, n.kind)
          /\ \/ q.pc = "app token" /\ n.kind = "app"
             \/ q.pc = "family token" /\ n.kind = "family"
             \/ q.pc = "refused" /\ q.kind = "app" /\ n.kind = "family"
      BY <1>1, <1>6, <1>9, <2>1 DEF Fine, Moves
    <3>2. /\ e \in u /\ e \in Usable[q.client] /\ q.client \in Clients
          /\ n.client = q.client
      BY <1>3, <1>4, <1>5, <1>9, <3>1
    <3>3. /\ \/ e[1] = "app" /\ e[2] = refreshToken[q.client]
             \/ e[1] = "family" /\ e[2] = FamilyTokenFor(q.client)
          /\ e = <<e[1], e[2]>> /\ e[2] # None /\ e[2] \notin dead /\ ~gone
      BY <3>2, UsableAre
    <3>4. e[1] = "family" => e[2] = familyRefreshToken.secret
      BY <3>2, <3>3, TokensRead
    <3>5. CASE n.kind = "app"
      BY <3>1, <3>2, <3>3, <3>5 DEF Entry
    <3>6. CASE n.kind = "family" /\ e[1] = "family"
      BY <3>1, <3>3, <3>4, <3>6 DEF Entry
    <3>7. CASE n.kind = "family" /\ e[1] = "app"
      <4>1. q.pc # "family token"
        BY <1>7, <3>2, <3>7 DEF Justified
      <4>2. q.pc = "refused" /\ q.kind = "app"
        BY <3>1, <3>7, <4>1
      <4>3. e = <<"app", q.token>> /\ (q.token \in dead \/ gone)
        BY <1>7, <3>2, <3>7, <4>2 DEF Justified, Holding, Bad
      <4>4. e[2] = q.token
        BY <4>3
      <4>. QED  BY <3>3, <4>3, <4>4
    <3>. QED  BY <3>1, <3>3, <3>5, <3>6, <3>7
  <2>2. CASE n.pc # "redeem"
    <3>1. q.pc \in Holding /\ n.kind = q.kind /\ n.token = q.token
      BY <1>1, <1>9, <2>2 DEF Moves
    <3>2. e \in u
      BY <1>3, <1>9, <3>1 DEF Holding
    <3>. QED  BY <1>7, <3>1, <3>2 DEF Justified
  <2>. QED  BY <2>1, <2>2
<1>10. ASSUME n.pc \in Bad PROVE n.token \in dead \/ gone
  <2>1. n.pc \in Holding /\ n.pc # "redeem"
    BY <1>10 DEF Bad, Holding
  <2>2. n.token = q.token /\ (q.pc \in Bad \/ q.token \in dead \/ gone)
    BY <1>1, <1>6, <1>10, <2>1 DEF Moves, Fine
  <2>. QED  BY <1>7, <2>2 DEF Justified
<1>11. ASSUME n.pc = "done", n.outcome = "interaction", NEW e \in v PROVE FALSE
  <2>1. Ends(r)
    BY <1>1, <1>6, <1>11 DEF Fine
  <2>2. q.pc \in {"family token", "refused", "mismatch"}
    BY <2>1 DEF Ends
  <2>3. e \in u /\ e \in Usable[q.client] /\ q.client \in Clients
    BY <1>3, <1>4, <1>5, <1>11, <2>2
  <2>4. /\ \/ e[1] = "app" /\ e[2] = refreshToken[q.client]
           \/ e[1] = "family" /\ e[2] = FamilyTokenFor(q.client)
        /\ e[2] # None /\ e[2] \notin dead /\ ~gone
        /\ e[1] = "family" => q.client \in Members
    BY <2>3, UsableAre
  <2>5. CASE q.pc = "family token" /\ FamilyTokenFor(q.client) = None
    <3>1. e[1] = "family"
      BY <1>7, <2>3, <2>5 DEF Justified
    <3>. QED  BY <2>4, <2>5, <3>1
  <2>6. CASE /\ q.pc = "refused"
             /\ q.kind = "app" => FamilyTokenFor(q.client) \in {None, q.token}
    <3>1. (q.token \in dead \/ gone)
          /\ (e = <<q.kind, q.token>> \/ (q.kind = "app" /\ e[1] = "family"))
      BY <1>7, <2>3, <2>6 DEF Justified, Holding, Bad
    <3>2. q.kind = "app" /\ e[1] = "family"
      <4>1. e # <<q.kind, q.token>>
        <5>1. SUFFICES ASSUME e = <<q.kind, q.token>> PROVE FALSE
          OBVIOUS
        <5>2. e[2] = q.token
          BY <5>1
        <5>. QED  BY <2>4, <3>1, <5>2
      <4>. QED  BY <3>1, <4>1
    <3>3. e[2] = FamilyTokenFor(q.client)
      BY <2>4, <3>2
    <3>. QED  BY <2>4, <2>6, <3>1, <3>2, <3>3
  <2>7. CASE q.pc = "mismatch"
    <3>1. q.kind = "family" /\ q.client \notin Members
      BY <2>7 DEF AllPlaced, Placed
    <3>2. e = <<"family", q.token>>
      BY <1>7, <2>3, <2>7, <3>1 DEF Justified, Holding
    <3>3. e[1] = "family"
      BY <3>2
    <3>. QED  BY <2>4, <3>1, <3>3
  <2>. QED  BY <2>1, <2>5, <2>6, <2>7 DEF Ends
<1>. QED  BY <1>8, <1>9, <1>10, <1>11

\* A request that does nothing, or is killed, while tokens may be revoked.
LEMMA KeptJustified ==
    ASSUME Types, AllPlaced, NEW r \in Requests, Justified(r), Remembers,
           dead \subseteq dead', gone => gone',
           \/ request'[r] = request[r]
           \/ request'[r].pc = "done" /\ request'[r].outcome = "killed"
    PROVE  Justified(r)'
<1> DEFINE q == request[r]  n == request'[r]  u == usable[r]  v == usable'[r]
<1>1. CASE n.pc = "done" /\ n.outcome = "killed"
  BY <1>1 DEF Justified, Holding, Bad
<1>2. CASE n = q
  <2>1. n.pc \notin {"idle", "done"} => v \subseteq Usable'[n.client]
    BY <1>2 DEF Remembers, At
  <2>2. q.pc # "idle" => v \subseteq u
    BY <1>2 DEF Remembers, At
  <2>3. "family token" # "idle" /\ "idle" \notin Holding
    BY DEF Holding
  <2>. QED  BY <1>2, <2>1, <2>2, <2>3 DEF Justified
<1>. QED  BY <1>1, <1>2

LEMMA NextJustified ==
    ASSUME InOrder, \A r \in Requests : Justified(r), [Next]_vars
    PROVE  \A r \in Requests : Justified(r)'
<1>1. ASSUME Remembers, NEW r \in Requests, Acts(r), NEW s \in Requests
      PROVE  Justified(s)'
  <2>1. Moves(r) /\ UNCHANGED <<dead, gone>>
    BY <1>1, ActsMoves, ActsOnServer DEF InOrder, AllPlaced
  <2>2. CASE s = r
    BY <1>1, <2>2, ActsJustified DEF InOrder
  <2>3. CASE s # r
    BY <1>1, <2>1, <2>3, KeptJustified DEF InOrder, Moves
  <2>. QED  BY <2>2, <2>3
<1>2. ASSUME Remembers, NEW c \in Clients, Killed(c), NEW s \in Requests
      PROVE  Justified(s)'
  <2>1. /\ UNCHANGED <<dead, gone>>
        /\ \/ request'[s] = request[s]
           \/ request'[s].pc = "done" /\ request'[s].outcome = "killed"
    BY <1>2, KilledMoves DEF InOrder, server
  <2>. QED  BY <1>2, <2>1, KeptJustified DEF InOrder
<1>3. ASSUME Remembers, Others, NEW s \in Requests PROVE Justified(s)'
  BY <1>3, OthersKeep, KeptJustified DEF InOrder
<1>4. ASSUME UNCHANGED vars, NEW s \in Requests PROVE Justified(s)'
  <2>1. UNCHANGED <<request, dead, gone, usable>> /\ Usable' = Usable
    BY <1>4 DEF vars, server, cache, Usable, Good, FamilyTokenFor
  <2>. QED  BY <2>1 DEF Justified
<1>. QED  BY <1>1, <1>2, <1>3, <1>4, StepIs DEF Next

(***************************************************************************)
(* The user is not asked without need (NoNeedlessInteraction): wherever a  *)
(* request holds a token, the only usable ones that may be left are that   *)
(* token and, while it is the client's own, the family's.                  *)
(***************************************************************************)
THEOREM InteractionIsNeeded == Spec => []NoNeedlessInteraction
<1>1. Init => InOrder /\ \A r \in Requests : Justified(r)
  <2>1. ASSUME Init, NEW r \in Requests PROVE Justified(r)
    <3>1. request[r].pc = "idle"
      BY <2>1 DEF Init, Idle
    <3>. QED  BY <3>1 DEF Justified, Holding, Bad
  <2>. QED  BY <2>1, InitTypes DEF InOrder
<1>2. InOrder /\ (\A r \in Requests : Justified(r)) /\ [Next]_vars
        => (\A r \in Requests : Justified(r))'
  BY NextJustified
<1>3. InOrder /\ (\A r \in Requests : Justified(r)) => NoNeedlessInteraction
  <2> SUFFICES ASSUME InOrder, NEW r \in Requests, Justified(r),
                      request[r].outcome = "interaction", ~request[r].excused
               PROVE  usable[r] = {}
    BY DEF NoNeedlessInteraction
  <2>1. request[r].pc = "done"
    BY DEF InOrder, AllPlaced, Placed
  <2>. QED  BY <2>1 DEF Justified
<1>. QED  BY <1>1, <1>2, <1>3, InOrderAlways, PTL DEF Spec

-----------------------------------------------------------------------------
(* The promise of the completion block *)

\* A request that has been made is never idle again.
LEMMA NotIdle ==
    ASSUME Types, NEW r \in Requests, Placed(request[r]), Moves(r)
    PROVE  request'[r].pc # "idle"
<1> DEFINE q == request[r]  n == request'[r]
<1>1. SUFFICES ASSUME n.pc = "idle" PROVE FALSE
  OBVIOUS
<1>2. Placed(n) /\ Stage(n) > Stage(q)
  BY DEF Moves
<1>3. n.write = 0 /\ n.kind = "app" /\ Rank("idle") = 0
  BY <1>1, <1>2, Ranks DEF Placed
<1>4. Stage(n) = 0
  BY <1>1, <1>3, StageIs
<1>5. Rank(q.pc) \in Nat /\ q.write \in Nat
  BY RankRange DEF Types, Record
<1>6. Stage(q) \in Nat
  BY <1>5, StageIs
<1>. QED  BY <1>2, <1>4, <1>6

\* What the promise sees of request r, before a step and after it.
StandingOf(q) ==
    IF q.pc = "idle" THEN "new"
    ELSE IF q.pc # "done" THEN "waiting"
    ELSE IF q.outcome = "killed" THEN "lost" ELSE "answered"

ToldOf(q) == IF StandingOf(q) = "answered" THEN <<q.outcome>> ELSE <<>>

LEMMA PromiseIs ==
    /\ Standing = [r \in Requests |-> StandingOf(request[r])]
    /\ Told = [r \in Requests |-> ToldOf(request[r])]
    /\ Standing' = [r \in Requests |-> StandingOf(request'[r])]
    /\ Told' = [r \in Requests |-> ToldOf(request'[r])]
  BY DEF Standing, Told, StandingOf, ToldOf, At

\* A request that moves is made, goes on, or completes with a result.
LEMMA ActsPromised ==
    ASSUME Types, AllPlaced, NEW r \in Requests, Acts(r)
    PROVE  Promise!Next \/ UNCHANGED Promise!vars
<1> DEFINE q == request[r]  n == request'[r]
<1>1. Moves(r) /\ Placed(q)
  BY ActsMoves DEF AllPlaced
<1>2. /\ \A s \in Requests : s # r => request'[s] = request[s]
      /\ q.pc # "done" /\ n.pc # "idle" /\ (n.pc = "done" => n.outcome \in Results)
  BY <1>1, NotIdle DEF Moves
<1>3. Standing[r] = IF q.pc = "idle" THEN "new" ELSE "waiting"
  BY <1>2, PromiseIs DEF StandingOf
<1>4. Told[r] = <<>>
  BY <1>2, PromiseIs DEF StandingOf, ToldOf
<1>5. CASE n.pc = "done"
  <2>1. n.outcome \in Results /\ n.outcome # "killed"
    BY <1>2, <1>5 DEF Results
  <2>2. StandingOf(n) = "answered" /\ ToldOf(n) = <<n.outcome>>
    BY <1>5, <2>1 DEF StandingOf, ToldOf
  <2>3. /\ Standing' = [Standing EXCEPT ![r] = "answered"]
        /\ Told' = [Told EXCEPT ![r] = <<n.outcome>>]
    BY <1>2, <2>2, PromiseIs
  <2>. QED  BY <1>3, <2>1, <2>3 DEF Promise!Next, Promise!Reply
<1>6. CASE n.pc # "done"
  <2>1. StandingOf(n) = "waiting" /\ ToldOf(n) = <<>>
    BY <1>2, <1>6 DEF StandingOf, ToldOf
  <2>2. Standing' = [Standing EXCEPT ![r] = "waiting"] /\ Told' = [Told EXCEPT ![r] = <<>>]
    BY <1>2, <2>1, PromiseIs
  <2>3. Told' = Told
    BY <1>4, <2>2, PromiseIs
  <2>4. CASE q.pc = "idle"
    BY <1>3, <2>2, <2>3, <2>4 DEF Promise!Next, Promise!Ask
  <2>5. CASE q.pc # "idle"
    <3>1. Standing' = Standing
      BY <1>3, <2>2, <2>5, PromiseIs
    <3>. QED  BY <2>3, <3>1 DEF Promise!vars
  <2>. QED  BY <2>4, <2>5
<1>. QED  BY <1>5, <1>6

\* The requests of a client that is killed are lost.
LEMMA KilledPromised ==
    ASSUME Types, AllPlaced, NEW c \in Clients, Killed(c)
    PROVE  Promise!Next
<1> DEFINE S == {r \in Requests : Client(r) = c /\ ~At(r, "done")}
<1>1. S \in SUBSET Requests
  OBVIOUS
<1>2. ASSUME NEW r \in S
      PROVE  /\ request[r].pc \notin {"idle", "done"}
             /\ request'[r].pc = "done" /\ request'[r].outcome = "killed"
  <2>1. r \in Requests /\ Client(r) = c /\ ~At(r, "done") /\ Placed(request[r])
    BY DEF AllPlaced
  <2>2. request'[r] = [Ended(r, "killed") EXCEPT !.rejected = {}]
    BY <2>1 DEF Killed
  <2>3. LET e == Ended(r, "killed")
        IN  e \in Record /\ e.pc = "done" /\ e.outcome = "killed"
    BY <2>1, EndedFacts DEF Outcomes
  <2>4. request'[r].pc = "done" /\ request'[r].outcome = "killed"
    BY <2>2, <2>3 DEF Record
  <2>5. request[r].pc # "idle"
    BY <2>1, SilentAssumption DEF Placed, Client
  <2>. QED  BY <2>1, <2>4, <2>5 DEF At
<1>3. ASSUME NEW r \in Requests, r \notin S PROVE request'[r] = request[r]
  BY <1>3 DEF Killed
<1> HIDE DEF S
<1>4. ASSUME NEW r \in S
      PROVE  Standing[r] = "waiting" /\ StandingOf(request'[r]) = "lost"
             /\ ToldOf(request[r]) = <<>> /\ ToldOf(request'[r]) = <<>>
  BY <1>1, <1>2, PromiseIs DEF StandingOf, ToldOf
<1>5. Standing' = [r \in Requests |-> IF r \in S THEN "lost" ELSE Standing[r]]
  BY <1>3, <1>4, PromiseIs
<1>6. Told' = Told
  BY <1>1, <1>3, <1>4, PromiseIs
<1>. QED  BY <1>1, <1>4, <1>5, <1>6 DEF Promise!Next, Promise!Lose

\* The completion block of a silent request is called as CompletionBlock says, whatever
\* the cache, the keychain and the server do: executeRequestWithCompletion: calls it once,
\* with one result, and never when the process has been killed under it.
THEOREM PromiseKept == Spec => KeepsPromise
<1>1. Init => Promise!Init
  <2>1. ASSUME Init PROVE \A r \in Requests : request[r].pc = "idle"
    BY <2>1 DEF Init, Idle
  <2>. QED  BY <2>1, PromiseIs DEF Promise!Init, StandingOf, ToldOf
<1>2. InOrder /\ [Next]_vars => [Promise!Next]_(Promise!vars)
  <2> SUFFICES ASSUME InOrder, [Next]_vars
               PROVE  Promise!Next \/ UNCHANGED Promise!vars
    OBVIOUS
  <2>1. CASE request' = request
    BY <2>1, PromiseIs DEF Promise!vars
  <2>2. CASE Step
    BY <2>1, <2>2, StepIs, OthersKeep, ActsPromised, KilledPromised DEF InOrder
  <2>3. CASE UNCHANGED vars
    BY <2>1, <2>3 DEF vars
  <2>. QED  BY <2>2, <2>3 DEF Next
<1>. QED  BY <1>1, <1>2, InOrderAlways, PTL DEF Spec, KeepsPromise, Promise!Spec
=============================================================================
