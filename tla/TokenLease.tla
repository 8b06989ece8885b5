----------------------------- MODULE TokenLease -----------------------------
(***************************************************************************)
(* What a caching resource server promises, seen from outside: it lets     *)
(* a token in on lease.                                                    *)
(*                                                                         *)
(* The authorization server answers a request for a token it stands        *)
(* behind.  An answer that arrives grants the token a lease, of at most    *)
(* CachingSeconds from then and not beyond the limit the answer states; an *)
(* answer may also get lost.  A request is let in only while the lease of  *)
(* its token runs.  Nothing else moves a lease.  ResourceServer implements *)
(* this under the mapping stated there.                                    *)
(***************************************************************************)
EXTENDS Integers

CONSTANTS Tokens, Requests, CachingSeconds, None

VARIABLES
  now,    \* the clock
  active, \* the tokens the authorization server stands behind
  limit,  \* the expiry its answers state about each token, or None
  answer, \* the token each request has an active answer about, or None
  lease,  \* until when each token is let in
  opened  \* the token each request was let in with, or None

promise == <<now, active, limit, answer, lease, opened>>

Init ==
  /\ now = 0
  /\ active = Tokens
  /\ limit \in [Tokens -> Nat \union {None}]
  /\ answer = [r \in Requests |-> None]
  /\ lease = [token \in Tokens |-> 0]
  /\ opened = [r \in Requests |-> None]

Tick ==
  /\ now' = now + 1
  /\ UNCHANGED <<active, limit, answer, lease, opened>>

Withdraw(token) ==
  /\ active' = active \ {token}
  /\ UNCHANGED <<now, limit, answer, lease, opened>>

Vouch(r, token) ==
  /\ token \in active
  /\ answer' = [answer EXCEPT ![r] = token]
  /\ UNCHANGED <<now, active, limit, lease, opened>>

Lose(r) ==
  /\ answer' = [answer EXCEPT ![r] = None]
  /\ UNCHANGED <<now, active, limit, lease, opened>>

Learn(r) ==
  /\ answer[r] # None
  /\ answer' = [answer EXCEPT ![r] = None]
  /\ LET token == answer[r]
     IN  /\ lease' = [lease EXCEPT ![token] = lease'[token]]
         /\ lease'[token] <= now + CachingSeconds
         /\ limit[token] # None => lease'[token] <= limit[token]
  /\ UNCHANGED <<now, active, limit, opened>>

LetIn(r, token) ==
  /\ now < lease[token]
  /\ opened' = [opened EXCEPT ![r] = token]
  /\ UNCHANGED <<now, active, limit, answer, lease>>

Close(r) ==
  /\ answer' = [answer EXCEPT ![r] = None]
  /\ opened' = [opened EXCEPT ![r] = None]
  /\ UNCHANGED <<now, active, limit, lease>>

Next ==
  \/ Tick
  \/ \E token \in Tokens : Withdraw(token)
  \/ \E r \in Requests : Lose(r) \/ Learn(r) \/ Close(r)
  \/ \E r \in Requests, token \in Tokens : Vouch(r, token) \/ LetIn(r, token)

Spec == Init /\ [][Next]_promise
=============================================================================
