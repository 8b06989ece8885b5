--------------------------- MODULE ResourceServer ---------------------------
(***************************************************************************)
(* A resource server that asks another server, the authorization server,   *)
(* about the tokens it is shown, and keeps what it was told as rows of its *)
(* own access token table: the views, mixins, decorators and permission    *)
(* classes that protect resources, OAuth2Validator.validate_bearer_token,  *)
(* the introspection view that answers, revocation at the authorization    *)
(* server and the clean-up of expired rows.                                *)
(*                                                                         *)
(* A request is handled by its own thread.  It may be interrupted between  *)
(* two accesses to shared state: the table, the scope list of a decorated  *)
(* view and the other server.                                              *)
(*                                                                         *)
(* Operators named Faulty are definitions with a plausible bug, which the  *)
(* specification does not use.                                             *)
(***************************************************************************)
EXTENDS AccessRules, FiniteSetsExt

CONSTANTS
  Tokens,         \* access tokens the authorization server has issued
  Grants,         \* what a token may stand for, [expires, scope, stated]:
                  \* stated, the answers about it say exp
  Views,          \* protected views, as AccessRules describes them
  Sites,          \* sets of views: those a deployment has side by side
  Requests,       \* threads that handle requests
  Introspects,    \* BOOLEAN, RESOURCE_SERVER_INTROSPECTION_URL and credentials are set
  CachingSeconds, \* RESOURCE_SERVER_TOKEN_CACHING_SECONDS
  MaxTime,        \* bound on the clock
  None            \* no token, no row

ASSUME CachingAssumption == CachingSeconds \in Nat \ {0}
ASSUME ViewsAssumption   == \A view \in Views : view.kind \in Kinds
ASSUME SitesAssumption   == Sites \subseteq SUBSET Views
ASSUME TimeAssumption    == MaxTime \in Nat /\ None \notin Int
ASSUME TokensAssumption == None \notin Tokens
ASSUME GrantsAssumption  == \A grant \in Grants : grant.expires \in Nat

VARIABLES
  site,     \* the views of this deployment, never changed
  issued,   \* what each token was issued for, never changed
  now,      \* the clock
  active,   \* tokens whose row the authorization server has
  cache,    \* the resource server's rows: [Tokens -> row or None]
  kept,     \* the list _scopes of each decorated read-write view
  req,      \* the requests being handled
  doomed,   \* rows clear_expired has selected and not deleted yet
  vouched   \* history: when an active answer about a token last arrived

vars == <<site, issued, now, active, cache, kept, req, doomed, vouched>>

Idle == [pc |-> "idle", view |-> None, method |-> "GET", token |-> None, login |-> FALSE,
         answer |-> "none", row |-> None, outcome |-> "none"]

Init ==
  /\ site \in Sites
  /\ issued \in [Tokens -> Grants]
  /\ now = 0
  /\ active = Tokens
  /\ cache = [token \in Tokens |-> None]
  /\ kept = [view \in Views |-> IF view.kind = "rw_function" THEN view.declared ELSE {}]
  /\ req = [r \in Requests |-> Idle]
  /\ doomed = {}
  /\ vouched = [token \in Tokens |-> None]

At(r, pc) == req[r].pc = pc

Finish(r, outcome) ==
  req' = [req EXCEPT ![r].pc = "done", ![r].outcome = outcome, ![r].row = None]

Scopes(r) == VerifiedScopes(req[r].view, req[r].method, kept[req[r].view])

-----------------------------------------------------------------------------
(* A request reaches a view.  login is a session next to the token (the    *)
(* REST framework), or valid client credentials (the "client" mixin).      *)
FaultyKeep(view, method) == WithMethodScope(view, method)
Keep(view, method) == kept[view] \union {<<MethodScope(method)>>}

FaultyAtOnce(view, method, token, login) ==
  IF view.kind \in ClassBased /\ method = "OPTIONS" THEN "preflight"
  ELSE IF view.kind = "client" /\ login THEN "client"
  ELSE "none"
AtOnce(view, method, token, login) == \* the outcomes that need no token row
  IF view.kind \in ClassBased /\ method = "OPTIONS" THEN "preflight"
  ELSE IF view.kind = "client" /\ login THEN "client"
  ELSE IF token # None THEN "none"
  ELSE IF view.kind = "either" /\ login THEN "session"
  ELSE "invalid_token"

Arrive(r, view, method, token, login) ==
  /\ At(r, "idle")
  /\ login => view.kind \in {"client", "either"}
  /\ LET outcome == AtOnce(view, method, token, login)
     IN  req' = [req EXCEPT ![r] =
           [Idle EXCEPT !.pc = IF outcome = "none" THEN "load" ELSE "done",
                        !.view = view, !.method = method, !.token = token, !.login = login,
                        !.outcome = outcome]]
  /\ kept' = IF view.kind = "rw_function" THEN [kept EXCEPT ![view] = Keep(view, method)]
                                          ELSE kept
  /\ UNCHANGED <<site, issued, now, active, cache, doomed, vouched>>

(* _load_access_token, and whether to ask the authorization server.        *)
Load(r) ==
  /\ At(r, "load")
  /\ LET row == cache[req[r].token]
         usable == row # None /\ IsValid(row, Scopes(r), now)
     IN  req' = [req EXCEPT ![r].row = row,
                            ![r].pc = IF ~usable /\ Introspects THEN "ask" ELSE "judge"]
  /\ UNCHANGED <<site, issued, now, active, cache, kept, doomed, vouched>>

(* IntrospectTokenView.get_token_response at the authorization server.     *)
Answer(r) ==
  /\ At(r, "ask")
  /\ LET token  == req[r].token
         valid == token \in active /\ IsValid(issued[token], {}, now)
     IN  req' = [req EXCEPT ![r].pc = "receive",
                            ![r].answer = IF valid THEN "active" ELSE "none"]
  /\ UNCHANGED <<site, issued, now, active, cache, kept, doomed, vouched>>

(* The request fails, or its answer is not a 200 with JSON.                *)
LoseAnswer(r) ==
  /\ \/ At(r, "ask")
     \/ At(r, "receive")
  /\ req' = [req EXCEPT ![r].pc = "receive", ![r].answer = "none"]
  /\ UNCHANGED <<site, issued, now, active, cache, kept, doomed, vouched>>

(* _get_token_from_authentication_server, once it has the answer.          *)
FaultyCachedUntil(token) ==
  IF issued[token].stated THEN issued[token].expires ELSE now + CachingSeconds
CachedUntil(token) ==
  IF issued[token].stated THEN Min({issued[token].expires, now + CachingSeconds})
                          ELSE now + CachingSeconds

Receive(r) ==
  /\ At(r, "receive")
  /\ LET token == req[r].token
         row == [expires |-> CachedUntil(token), scope |-> issued[token].scope]
     IN  IF req[r].answer = "active"
         THEN /\ cache' = [cache EXCEPT ![token] = row]
              /\ vouched' = [vouched EXCEPT ![token] = now]
              /\ req' = [req EXCEPT ![r].pc = "judge", ![r].row = row, ![r].answer = "none"]
         ELSE /\ req' = [req EXCEPT ![r].pc = "judge", ![r].row = None, ![r].answer = "none"]
              /\ UNCHANGED <<cache, vouched>>
  /\ UNCHANGED <<site, issued, now, active, kept, doomed>>

(* The end of validate_bearer_token, _set_oauth2_error_on_request included. *)
Refusal(row, time) ==
  IF row = None \/ IsExpired(row, time) THEN "invalid_token" ELSE "insufficient_scope"

Judge(r) ==
  /\ At(r, "judge")
  /\ LET row == req[r].row
         kind == req[r].view.kind
     IN  IF row # None /\ IsValid(row, Scopes(r), now)
         THEN IF kind \in Permissions THEN req' = [req EXCEPT ![r].pc = "permit"]
                                      ELSE Finish(r, "token")
         ELSE IF kind = "either" /\ req[r].login THEN Finish(r, "session")
                                                 ELSE Finish(r, Refusal(row, now))
  /\ UNCHANGED <<site, issued, now, active, cache, kept, doomed, vouched>>

(* The permission class looks at the row the authenticator returned.       *)
Permit(r) ==
  /\ At(r, "permit")
  /\ Finish(r, IF TokenPermits(req[r].view, req[r].method, req[r].row, now)
               THEN "token" ELSE "denied")
  /\ UNCHANGED <<site, issued, now, active, cache, kept, doomed, vouched>>

Reply(r) ==
  /\ At(r, "done")
  /\ req' = [req EXCEPT ![r] = Idle]
  /\ UNCHANGED <<site, issued, now, active, cache, kept, doomed, vouched>>

-----------------------------------------------------------------------------
(* AbstractAccessToken.revoke, at the authorization server.                *)
Revoke(token) ==
  /\ token \in active
  /\ active' = active \ {token}
  /\ UNCHANGED <<site, issued, now, cache, kept, req, doomed, vouched>>

(* clear_expired at the resource server, whose rows have no refresh token. *)
SelectExpired ==
  /\ doomed = {}
  /\ doomed' = {token \in Tokens : cache[token] # None /\ cache[token].expires < now}
  /\ doomed' # {}
  /\ UNCHANGED <<site, issued, now, active, cache, kept, req, vouched>>

DeleteSelected ==
  /\ doomed # {}
  /\ cache' = [token \in Tokens |-> IF token \in doomed THEN None ELSE cache[token]]
  /\ doomed' = {}
  /\ UNCHANGED <<site, issued, now, active, kept, req, vouched>>

Tick ==
  /\ now < MaxTime
  /\ now' = now + 1
  /\ UNCHANGED <<site, issued, active, cache, kept, req, doomed, vouched>>

Next ==
  \/ \E r \in Requests, view \in site, method \in Methods,
        token \in Tokens \union {None}, login \in BOOLEAN :
       Arrive(r, view, method, token, login)
  \/ \E r \in Requests :
       \/ Load(r) \/ Answer(r) \/ LoseAnswer(r) \/ Receive(r)
       \/ Judge(r) \/ Permit(r) \/ Reply(r)
  \/ \E token \in Tokens : Revoke(token)
  \/ SelectExpired
  \/ DeleteSelected
  \/ Tick

Spec == Init /\ [][Next]_vars

-----------------------------------------------------------------------------
(* The rows, the lists and the requests have the shape the handlers expect: *)
(* a request past "load" has a token, and judges a row or none.            *)
TypeOK ==
  /\ site \in Sites
  /\ issued \in [Tokens -> Grants]
  /\ now \in 0..MaxTime
  /\ active \subseteq Tokens
  /\ \A token \in Tokens : cache[token] = None \/ cache[token].scope = issued[token].scope
  /\ \A view \in Views : view.kind = "rw_function" => view.declared \subseteq kept[view]
  /\ \A r \in Requests :
       /\ req[r].pc \in {"idle", "load", "ask", "receive", "judge", "permit", "done"}
       /\ req[r].pc \in {"load", "ask", "receive", "judge", "permit"} => req[r].token \in Tokens
       /\ req[r].pc = "permit" => req[r].row # None
       /\ req[r].pc = "done" <=> req[r].outcome # "none"
  /\ doomed \subseteq Tokens

(* A token opens a view only while the authorization server's last active  *)
(* answer about it is fresh: less than CachingSeconds old and, when it     *)
(* states exp, before the token's own expiry, however late answers arrive  *)
(* and however often concurrent requests rewrite the row.                  *)
Opens(r) == req[r].outcome = "none" /\ req'[r].outcome = "token"

VouchedFor ==
  [][\A r \in Requests : Opens(r) =>
       LET token == req[r].token
       IN  /\ vouched[token] # None
           /\ now < vouched[token] + CachingSeconds
           /\ issued[token].stated => now < issued[token].expires]_vars

(* What the view's declaration and the method require, whatever the list   *)
(* the decorator shares between its requests holds.                        *)
Requires(view, method) ==
  CASE view.kind \in {"rw_function", "rw_view"} -> {WithMethodScope(view, method)}
    [] view.kind = "oas" -> IF method \in DOMAIN view.declared THEN view.declared[method] ELSE {}
    [] view.kind = "backend" -> {{}}
    [] OTHER -> {PermissionScopes(view, method)}

(* No interleaving of requests to one view lets a token through that lacks *)
(* a scope the view declares or the one its method calls for.              *)
NeverUnderProtected ==
  \A r \in Requests : req[r].outcome = "token" =>
    \E scopes \in Requires(req[r].view, req[r].method) :
      scopes \subseteq issued[req[r].token].scope

(* Once a token is revoked, its cached row has run out and no request      *)
(* holds an active answer or a valid copy of the row, nothing brings it    *)
(* back: no step of the cache, of the clean-up or of a retry opens a view. *)
Dead(token) ==
  /\ token \notin active
  /\ cache[token] = None \/ IsExpired(cache[token], now)
  /\ \A r \in Requests : req[r].token = token =>
       /\ req[r].answer # "active"
       /\ req[r].row = None \/ IsExpired(req[r].row, now)

RevokedStaysOut ==
  [][\A token \in Tokens : Dead(token) =>
       /\ Dead(token)'
       /\ \A r \in Requests : req[r].token = token => ~Opens(r)]_vars

(* "GET, HEAD, OPTIONS http methods require "read" scope. Otherwise        *)
(* "write" scope is required" (decorators.py, rw_protected_resource): a    *)
(* valid token with the declared scopes and the one of the request's       *)
(* method is not refused for its scope.                                    *)
MethodScopeSuffices ==
  \A r \in Requests :
    req[r].outcome = "insufficient_scope" /\ req[r].view.kind = "rw_function" =>
      ~(WithMethodScope(req[r].view, req[r].method) \subseteq issued[req[r].token].scope)

-----------------------------------------------------------------------------
(* What the cache promises, without rows, views and positions of threads:  *)
(* the lease of a token is the longest that the last active answer about   *)
(* it allows, whatever row is stored or held.                              *)
Lease(token) ==
  IF vouched[token] = None THEN 0
  ELSE IF issued[token].stated
       THEN Min({issued[token].expires, vouched[token] + CachingSeconds})
       ELSE vouched[token] + CachingSeconds

Leases == INSTANCE TokenLease WITH
  limit  <- [token \in Tokens |-> IF issued[token].stated THEN issued[token].expires ELSE None],
  answer <- [r \in Requests |-> IF req[r].answer = "active" THEN req[r].token ELSE None],
  lease  <- [token \in Tokens |-> Lease(token)],
  opened <- [r \in Requests |-> IF req[r].outcome = "token" THEN req[r].token ELSE None]

(* Every step of the threads, of the clean-up and of the authorization     *)
(* server is a step of the leases: a view opens only on a lease that runs, *)
(* and only an active answer renews one.                                   *)
ImplementsLeases == Leases!Spec
=============================================================================
