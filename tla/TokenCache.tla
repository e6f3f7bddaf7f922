----------------------------- MODULE TokenCache -----------------------------
(***************************************************************************)
(* The tokens of one account in the keychain that the clients of one       *)
(* publisher share, as MSIDDefaultTokenCacheAccessor keeps them            *)
(* (IdentityCore/src/cache/accessor): for each client an access token, an  *)
(* ID token, an app refresh token and app metadata that says whether the   *)
(* client belongs to the family; and one family refresh token.  Single     *)
(* family refresh tokens (checkFRTEnabled:) and bound refresh tokens are   *)
(* switched off.                                                           *)
(*                                                                         *)
(* Every operator below is one access to the keychain.  The keychain locks *)
(* an item while it is read or written and no longer: what takes two       *)
(* accesses takes two steps, with other clients in between.                *)
(*                                                                         *)
(* The server numbers its answers: answer i carries access token i and     *)
(* refresh token i.  None is 0.                                            *)
(***************************************************************************)
EXTENDS Naturals, FiniteSets, Sequences

CONSTANTS
    Clients,    \* applications that share the keychain
    Members,    \* those the server takes for members of the family
    MaxIssued   \* bound: answers with tokens

ASSUME TokenCacheAssumption ==
    /\ Members \subseteq Clients
    /\ MaxIssued \in Nat

VARIABLES
    accessToken,        \* accessToken[c] : access token of client c
    idToken,            \* idToken[c] : client c has an ID token
    refreshToken,       \* refreshToken[c] : refresh token saved under c
    familyRefreshToken, \* refresh token saved under the family, with the
                        \* client that saved it
    familyId            \* familyId[c] : the app metadata of client c

cache == <<accessToken, idToken, refreshToken, familyRefreshToken, familyId>>

None == 0
Ids == 1..MaxIssued
NoFamilyToken == [secret |-> None, owner |-> "nobody"]

CacheTypeOK ==
    /\ accessToken \in [Clients -> Ids \cup {None}]
    /\ idToken \in [Clients -> BOOLEAN]
    /\ refreshToken \in [Clients -> Ids \cup {None}]
    /\ familyRefreshToken \in [secret : Ids, owner : Clients] \cup {NoFamilyToken}
    /\ familyId \in [Clients -> {"no entry", "member", "blank"}]

(***************************************************************************)
(* Reads.  A client without app metadata tries the default family; one     *)
(* whose metadata has a blank family does not look for a family token.     *)
(***************************************************************************)
FamilyTokenFor(c) ==
    IF familyId[c] = "blank" THEN None ELSE familyRefreshToken.secret

\* The entry a token of this kind was read from, and is removed from.
Entry(c, kind) ==
    IF kind = "family" THEN familyRefreshToken.secret ELSE refreshToken[c]

(***************************************************************************)
(* The writes that save answer i for client c, in their order.  Only a     *)
(* member's answer has a family: its refresh token is saved twice, under   *)
(* the family and under the client.                                        *)
(***************************************************************************)
Writes(c) ==
    IF c \in Members
    THEN <<"remove access token", "access token", "id token", "family refresh token",
           "refresh token", "app metadata">>
    ELSE <<"remove access token", "access token", "id token",
           "refresh token", "app metadata">>

RemoveAccessToken(c) ==
    /\ accessToken' = [accessToken EXCEPT ![c] = None]
    /\ UNCHANGED <<idToken, refreshToken, familyRefreshToken, familyId>>

SaveAccessToken(c, i) ==
    /\ accessToken' = [accessToken EXCEPT ![c] = i]
    /\ UNCHANGED <<idToken, refreshToken, familyRefreshToken, familyId>>

SaveIdToken(c) ==
    /\ idToken' = [idToken EXCEPT ![c] = TRUE]
    /\ UNCHANGED <<accessToken, refreshToken, familyRefreshToken, familyId>>

SaveFamilyRefreshToken(c, i) ==
    /\ familyRefreshToken' = [secret |-> i, owner |-> c]
    /\ UNCHANGED <<accessToken, idToken, refreshToken, familyId>>

SaveRefreshToken(c, i) ==
    /\ refreshToken' = [refreshToken EXCEPT ![c] = i]
    /\ UNCHANGED <<accessToken, idToken, familyRefreshToken, familyId>>

SaveAppMetadata(c, family) ==
    /\ familyId' = [familyId EXCEPT ![c] = family]
    /\ UNCHANGED <<accessToken, idToken, refreshToken, familyRefreshToken>>

Write(w, c, i) ==
    \/ w = "remove access token" /\ RemoveAccessToken(c)
    \/ w = "access token" /\ SaveAccessToken(c, i)
    \/ w = "id token" /\ SaveIdToken(c)
    \/ w = "family refresh token" /\ SaveFamilyRefreshToken(c, i)
    \/ w = "refresh token" /\ SaveRefreshToken(c, i)
    \/ w = "app metadata"
       /\ SaveAppMetadata(c, IF c \in Members THEN "member" ELSE "blank")

(***************************************************************************)
(* Removals.  removeToken: removes whatever is under the key of the token. *)
(* clearCacheForAccount: removes every credential whose item names the     *)
(* client, the family token too if this client saved it last.              *)
(***************************************************************************)

\* Deviation: always under the client.
RemoveOwnEntry(c, kind) ==
    /\ refreshToken' = [refreshToken EXCEPT ![c] = None]
    /\ UNCHANGED <<accessToken, idToken, familyRefreshToken, familyId>>

\* Deviation: the family's item stays, without its secret.
BlankEntry(c, kind) ==
    /\ kind = "family"
    /\ familyRefreshToken' = [familyRefreshToken EXCEPT !.secret = None]
    /\ UNCHANGED <<accessToken, idToken, refreshToken, familyId>>

RemoveEntry(c, kind) ==
    IF kind = "family"
    THEN /\ familyRefreshToken' = NoFamilyToken
         /\ UNCHANGED <<accessToken, idToken, refreshToken, familyId>>
    ELSE /\ refreshToken' = [refreshToken EXCEPT ![c] = None]
         /\ UNCHANGED <<accessToken, idToken, familyRefreshToken, familyId>>

ClearAccount(c) ==
    /\ accessToken' = [accessToken EXCEPT ![c] = None]
    /\ idToken' = [idToken EXCEPT ![c] = FALSE]
    /\ refreshToken' = [refreshToken EXCEPT ![c] = None]
    /\ familyRefreshToken' =
           IF familyRefreshToken.owner = c THEN NoFamilyToken
                                           ELSE familyRefreshToken
    /\ UNCHANGED familyId
=============================================================================
