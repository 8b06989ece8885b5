----------------------------- MODULE TokenTables -----------------------------
(***************************************************************************)
(* The tables of access, refresh and ID tokens, the foreign keys between   *)
(* them and the operations of the token and revocation endpoints on them,  *)
(* each of which is one transaction.  A row's key is that of the token     *)
(* response it belongs to: the ID token k is the one handed out with the   *)
(* access token k and the refresh token k.                                 *)
(*                                                                         *)
(* on_delete of the foreign keys: AccessToken.id_token cascades,           *)
(* RefreshToken.access_token is set to NULL.                               *)
(***************************************************************************)
EXTENDS Integers, FiniteSets

CONSTANTS
  Keys,         \* token responses, numbered in the order they are made
  Accounts,     \* what a token is for: [user, app]
  AccessLife,   \* ACCESS_TOKEN_EXPIRE_SECONDS
  IdLife,       \* ID_TOKEN_EXPIRE_SECONDS
  Leeway,       \* how long after its exp jwcrypto still accepts a JWT
  MaxTime,      \* bound on the clock
  NULL, Unused, Gone  \* no reference; a row not made yet; a row deleted

(* A row of each table.                                                    *)
AccessRows  == [account : Accounts, expires : Nat, refreshable : BOOLEAN, idToken : BOOLEAN]
RefreshRows == [account : Accounts, access : Keys \union {NULL}, revoked : Nat \union {NULL}]
IdRows      == [user : {account.user : account \in Accounts}, expires : Nat]

ASSUME KeysAssumption  == Keys \in SUBSET Nat
ASSUME LivesAssumption == \A life \in {AccessLife, IdLife, Leeway, MaxTime} : life \in Nat
ASSUME TagsAssumption  ==
  /\ NULL \notin Keys \union Int
  /\ Unused # Gone
  /\ \A tag \in {Unused, Gone} : tag \notin AccessRows /\ tag \notin RefreshRows /\ tag \notin IdRows

VARIABLES
  now,     \* the clock
  rotate,  \* the setting ROTATE_REFRESH_TOKEN, never changed
  at,      \* access tokens: [Keys -> row, Unused or Gone]
  rt,      \* refresh tokens
  idt      \* ID tokens

tables == <<now, rotate, at, rt, idt>>

InitTables ==
  /\ now = 0
  /\ rotate \in BOOLEAN
  /\ at  = [k \in Keys |-> Unused]
  /\ rt  = [k \in Keys |-> Unused]
  /\ idt = [k \in Keys |-> Unused]

Row(table, k) == table[k] \notin {Unused, Gone}
Live(k)       == Row(rt, k) /\ rt[k].revoked = NULL
Paired(k)     == \E r \in Keys : Row(rt, r) /\ rt[r].access = k  \* refresh_token__isnull=False
Linked(k)     == Row(at, k) /\ at[k].idToken                     \* access_token__isnull=False

(* The key of the next response: the first that has no access token yet.   *)
Fresh(k) == at[k] = Unused /\ \A j \in Keys : j < k => at[j] # Unused

Remove(table, keys)  == [k \in Keys |-> IF k \in keys THEN Gone ELSE table[k]]
Unpair(refresh, keys) ==
  [r \in Keys |-> IF Row(refresh, r) /\ refresh[r].access \in keys
                  THEN [refresh[r] EXCEPT !.access = NULL] ELSE refresh[r]]

-----------------------------------------------------------------------------
(* finalize_id_token commits the ID token before there is an access token. *)
FinalizeIdToken(k, account) ==
  /\ Fresh(k)
  /\ idt[k] = Unused
  /\ idt' = [idt EXCEPT ![k] = [user |-> account.user, expires |-> now + IdLife]]
  /\ UNCHANGED <<now, rotate, at, rt>>

(* _load_id_token: the row is there and jwcrypto decodes the JWT, which it *)
(* does for a while after its expiry.                                      *)
Loads(k) == Row(idt, k) /\ now <= idt[k].expires + Leeway

(* _create_access_token: it links the ID token of the response, if there   *)
(* is one that _load_id_token still loads.                                 *)
AccessRow(k, account, refreshable) ==
  [account |-> account, expires |-> now + AccessLife, refreshable |-> refreshable,
   idToken |-> Loads(k)]

(* The worker dies before there is an access token.                        *)
Abandon(k) ==
  /\ at[k] = Unused
  /\ idt[k] # Unused
  /\ at' = Remove(at, {k})
  /\ rt' = Remove(rt, {k})
  /\ UNCHANGED <<now, rotate, idt>>

OwnIdToken(k, account) == Row(idt, k) => idt[k].user = account.user

Issue(k, account, refreshable) ==
  /\ Fresh(k)
  /\ OwnIdToken(k, account)
  /\ at' = [at EXCEPT ![k] = AccessRow(k, account, refreshable)]
  /\ rt' = [rt EXCEPT ![k] = IF refreshable
                             THEN [account |-> account, access |-> k, revoked |-> NULL] ELSE Gone]
  /\ UNCHANGED <<now, rotate, idt>>

(* AbstractRefreshToken.revoke of a live token.                            *)
Revoked(k) == [rt EXCEPT ![k] = [account |-> @.account, access |-> NULL, revoked |-> now]]
FaultyWithoutAccess(k) == at  \* the access token is only forgotten
WithoutAccess(k) == Remove(at, {rt[k].access})

RevokeRefresh(k) ==
  /\ Live(k)
  /\ rt' = Revoked(k)
  /\ at' = WithoutAccess(k)
  /\ UNCHANGED <<now, rotate, idt>>

(* The refresh token k is exchanged: _save_bearer_token revokes it and     *)
(* makes the pair j, or renews the access token's row where it is.         *)
Rotate(k, j) ==
  /\ Live(k)
  /\ rotate \/ rt[k].access = NULL
  /\ Fresh(j)
  /\ OwnIdToken(j, rt[k].account)
  /\ at' = [WithoutAccess(k) EXCEPT ![j] = AccessRow(j, rt[k].account, TRUE)]
  /\ rt' = [Revoked(k) EXCEPT ![j] = [account |-> rt[k].account, access |-> j, revoked |-> NULL]]
  /\ UNCHANGED <<now, rotate, idt>>

RenewInPlace(k) ==
  /\ Live(k)
  /\ ~rotate
  /\ rt[k].access # NULL
  /\ at' = [at EXCEPT ![rt[k].access].expires = now + AccessLife]
  /\ UNCHANGED <<now, rotate, rt, idt>>

(* An access token is deleted by itself: the revocation endpoint, or the   *)
(* page of authorized tokens.                                              *)
RevokeAccess(k) ==
  /\ Row(at, k)
  /\ at' = Remove(at, {k})
  /\ rt' = Unpair(rt, {k})
  /\ UNCHANGED <<now, rotate, idt>>

Tick ==
  /\ now < MaxTime
  /\ now' = now + 1
  /\ UNCHANGED <<rotate, at, rt, idt>>

TokenEndpoint ==
  \/ \E k \in Keys, account \in Accounts :
       \/ FinalizeIdToken(k, account)
       \/ \E refreshable \in BOOLEAN : Issue(k, account, refreshable)
  \/ \E k \in Keys :
       \/ Abandon(k)
       \/ RevokeRefresh(k)
       \/ RenewInPlace(k)
       \/ RevokeAccess(k)
       \/ \E j \in Keys : Rotate(k, j)
=============================================================================
