-------------------------- MODULE RefreshLifecycle --------------------------
(***************************************************************************)
(* What the refresh token tables promise, seen from outside.               *)
(*                                                                         *)
(* A refresh token is unissued, then live, then revoked, in that order.  A *)
(* bearer (the access token issued with it) exists only while it is live,  *)
(* and a refresh token has at most one successor whose bearer exists: a    *)
(* second rotation waits until the first successor has lost its bearer.    *)
(* RefreshTokens implements this under the mapping stated there.           *)
(***************************************************************************)
CONSTANTS Ids, Null

VARIABLES
  status, \* of each refresh token
  bearer, \* the refresh tokens whose access token exists
  parent  \* the refresh token each one was made from

lifecycle == <<status, bearer, parent>>

Init ==
  /\ status = [k \in Ids |-> "unissued"]
  /\ bearer = {}
  /\ parent = [k \in Ids |-> Null]

(* A new session.                                                          *)
Issue(k) ==
  /\ status[k] = "unissued"
  /\ status' = [status EXCEPT ![k] = "live"]
  /\ bearer' = bearer \union {k}
  /\ UNCHANGED parent

(* p is spent, k takes its place.  p may have been revoked before.         *)
RotateTo(p, k) ==
  /\ status[p] # "unissued" /\ status[k] = "unissued"
  /\ \A b \in bearer : parent[b] # p
  /\ status' = [status EXCEPT ![p] = "revoked", ![k] = "live"]
  /\ bearer' = (bearer \ {p}) \union {k}
  /\ parent' = [parent EXCEPT ![k] = p]

Revoke(K) ==
  /\ \A k \in K : status[k] = "live"
  /\ status' = [k \in Ids |-> IF k \in K THEN "revoked" ELSE status[k]]
  /\ bearer' = bearer \ K
  /\ UNCHANGED parent

DropBearer(k) ==
  /\ bearer' = bearer \ {k}
  /\ UNCHANGED <<status, parent>>

Next ==
  \/ \E k \in Ids : Issue(k) \/ DropBearer(k)
  \/ \E p, k \in Ids : RotateTo(p, k)
  \/ \E K \in SUBSET Ids : Revoke(K)

Spec == Init /\ [][Next]_lifecycle
=============================================================================
