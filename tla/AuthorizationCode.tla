------------------------- MODULE AuthorizationCode -------------------------
(***************************************************************************)
(* The authorization code grant: a user allows a client at the authorize   *)
(* endpoint, the client swaps the code for a token pair at the token       *)
(* endpoint.  Several workers may exchange one code at the same time.      *)
(*                                                                         *)
(* The exchange looks the code up again for every check it makes           *)
(* (validate_code, get_code_challenge, get_code_challenge_method,          *)
(* confirm_redirect_uri), each time in a query of its own; it commits the  *)
(* tokens, and only then deletes the code, in another transaction.  Each   *)
(* of these is an action, in the order oauthlib's AuthorizationCodeGrant   *)
(* calls them.                                                             *)
(*                                                                         *)
(* A PKCE challenge is represented by the verifier it was derived from.    *)
(* Operators named Faulty are definitions with a plausible bug, which the  *)
(* specification does not use.                                             *)
(***************************************************************************)
EXTENDS Integers

CONSTANTS
  Codes,        \* authorization codes; a generated code is never used again
  Requests,     \* the worker processes that serve grant_type=authorization_code
  Clients, Uris, Verifiers, Scopes,
  Trusted,      \* the clients with skip_authorization
  CodeLife,     \* AUTHORIZATION_CODE_EXPIRE_SECONDS
  TokenLife,    \* ACCESS_TOKEN_EXPIRE_SECONDS
  PkceRequired, \* PKCE_REQUIRED
  MaxTime,      \* bound: the clock stops here
  MaxPairs,     \* bound: token pairs the table holds
  Null          \* SQL NULL, an absent parameter

ASSUME CodeAssumption ==
  /\ CodeLife \in Nat /\ TokenLife \in Nat /\ MaxTime \in Nat /\ MaxPairs \in Nat
  /\ PkceRequired \in BOOLEAN
  /\ Null \notin Verifiers \union Codes \union Int

Pairs == 1 .. MaxPairs
Time  == 0 .. MaxTime

VARIABLES
  stored,   \* codes that have a row in the grant table
  grant,    \* the columns of those rows
  pairs,    \* keys of the token pairs whose access token exists
  pair,     \* their columns
  nextPair,
  now,      \* timezone.now()
  req,      \* what each worker remembers between two queries
  issued,   \* history: codes generated so far
  consents, \* history: what the user allowed in the form
  answers   \* history: by code, the pairs handed to a client

vars == <<stored, grant, pairs, pair, nextPair, now, req, issued, consents, answers>>
tokens == <<pairs, pair, nextPair>>

Consent == [client : Clients, scope : SUBSET Scopes]

Grant == [client : Clients \union {Null}, uri : Uris \union {Null},
          challenge : Verifiers \union {Null},
          scope : SUBSET Scopes, expires : 0 .. MaxTime + CodeLife]

(* code, uri and verifier are history: what the request that saved the     *)
(* pair had presented.                                                     *)
Pair == [code : Codes \union {Null}, client : Clients \union {Null},
         uri : Uris \union {Null}, verifier : Verifiers \union {Null},
         scope : SUBSET Scopes, expires : 0 .. MaxTime + TokenLife]

(* scope is what validate_code copied from the row.                        *)
Local == [pc : {"idle", "challenge", "method", "uri", "save", "spend", "deliver"},
          code : Codes \union {Null}, client : Clients \union {Null},
          uri : Uris \union {Null}, verifier : Verifiers \union {Null},
          scope : SUBSET Scopes, pair : 0 .. MaxPairs]

NoGrant == [client |-> Null, uri |-> Null, challenge |-> Null, scope |-> {}, expires |-> 0]
NoPair  == [code |-> Null, client |-> Null, uri |-> Null, verifier |-> Null,
            scope |-> {}, expires |-> 0]
Idle    == [pc |-> "idle", code |-> Null, client |-> Null, uri |-> Null, verifier |-> Null,
            scope |-> {}, pair |-> 0]

-----------------------------------------------------------------------------
(* Grant.objects.get(code=code, application=client) finds a row.           *)
Found(c, client) == c \in stored /\ grant[c].client = client

(* AbstractGrant.is_expired                                                *)
FaultyExpired(c) == now > grant[c].expires
Expired(c) == now >= grant[c].expires

(* approval_prompt=auto: a valid access token of the user for this client  *)
(* allows every scope that is asked for now.                               *)
FaultyApproved(client, scope) ==
  \E p \in pairs : pair[p].client = client /\ now < pair[p].expires
Approved(client, scope) ==
  \E p \in pairs :
    /\ pair[p].client = client /\ now < pair[p].expires
    /\ scope \subseteq pair[p].scope

Init ==
  /\ stored = {} /\ grant = [c \in Codes |-> NoGrant]
  /\ pairs = {} /\ pair = [p \in Pairs |-> NoPair] /\ nextPair = 1
  /\ now = 0
  /\ req = [r \in Requests |-> Idle]
  /\ issued = {} /\ consents = {}
  /\ answers = [c \in Codes |-> {}]

Tick ==
  /\ now < MaxTime
  /\ now' = now + 1
  /\ UNCHANGED <<stored, grant, tokens, req, issued, consents, answers>>

(* save_authorization_code                                                 *)
FaultyCodeExpiry == now + TokenLife
CodeExpiry == now + CodeLife
CreateCode(c, client, uri, challenge, scope) ==
  /\ c \notin issued
  /\ issued' = issued \union {c}
  /\ stored' = stored \union {c}
  /\ grant' = [grant EXCEPT ![c] = [client |-> client, uri |-> uri, challenge |-> challenge,
                                    scope |-> scope, expires |-> CodeExpiry]]
  /\ UNCHANGED <<tokens, now, req, answers>>

(* AuthorizationView.form_valid: the user allows the scopes of the form.   *)
Allow(c, client, uri, challenge, scope) ==
  /\ CreateCode(c, client, uri, challenge, scope)
  /\ consents' = consents \union {[client |-> client, scope |-> scope]}

(* AuthorizationView.get, where the user is not asked (again).  Finding    *)
(* the live token and saving the code are one step: a token that is        *)
(* revoked between the two was granted all the same.                       *)
AutoApprove(c, client, uri, challenge, scope) ==
  /\ client \in Trusted \/ Approved(client, scope)
  /\ CreateCode(c, client, uri, challenge, scope)
  /\ UNCHANGED consents

Goto(r, pc) == req' = [req EXCEPT ![r].pc = pc]
(* Every refusal, and every error of the exchange, ends the request.       *)
Refuse(r) == req' = [req EXCEPT ![r] = Idle]

ValidateCode(r, c, client, uri, verifier) ==
  /\ req[r].pc = "idle"
  /\ Found(c, client) /\ ~Expired(c)
  /\ req' = [req EXCEPT ![r] =
       [pc |-> "challenge", code |-> c, client |-> client, uri |-> uri, verifier |-> verifier,
        scope |-> grant[c].scope, pair |-> 0]]
  /\ UNCHANGED <<stored, grant, tokens, now, issued, consents, answers>>

(* From here on a missing row raises Grant.DoesNotExist out of the view.   *)
GetCodeChallenge(r) ==
  LET q == req[r]
      challenge == grant[q.code].challenge IN
  /\ q.pc = "challenge"
  /\ \/ /\ Found(q.code, q.client) /\ challenge # Null /\ q.verifier # Null
        /\ Goto(r, "method")
     \/ /\ Found(q.code, q.client) /\ challenge = Null /\ ~PkceRequired
        /\ Goto(r, "uri")
     \/ /\ \/ ~Found(q.code, q.client)
           \/ challenge # Null /\ q.verifier = Null
           \/ challenge = Null /\ PkceRequired
        /\ Refuse(r)
  /\ UNCHANGED <<stored, grant, tokens, now, issued, consents, answers>>

Verifies(r) == req[r].verifier = grant[req[r].code].challenge

GetCodeChallengeMethod(r) ==
  LET q == req[r] IN
  /\ q.pc = "method"
  /\ \/ Found(q.code, q.client) /\ Verifies(r) /\ Goto(r, "uri")
     \/ ~(Found(q.code, q.client) /\ Verifies(r)) /\ Refuse(r)
  /\ UNCHANGED <<stored, grant, tokens, now, issued, consents, answers>>

(* AbstractGrant.redirect_uri_allowed                                      *)
FaultyRedirectUriAllowed(r) == req[r].uri \in Uris
RedirectUriAllowed(r) == req[r].uri = grant[req[r].code].uri

ConfirmRedirectUri(r) ==
  LET q == req[r] IN
  /\ q.pc = "uri"
  /\ \/ Found(q.code, q.client) /\ RedirectUriAllowed(r) /\ Goto(r, "save")
     \/ ~(Found(q.code, q.client) /\ RedirectUriAllowed(r)) /\ Refuse(r)
  /\ UNCHANGED <<stored, grant, tokens, now, issued, consents, answers>>

(* The token pair is committed while the code still exists.                *)
SaveBearerToken(r) ==
  LET q == req[r] IN
  /\ q.pc = "save"
  /\ nextPair \in Pairs
  /\ pairs' = pairs \union {nextPair}
  /\ pair' = [pair EXCEPT ![nextPair] =
       [code |-> q.code, client |-> q.client, uri |-> q.uri, verifier |-> q.verifier,
        scope |-> q.scope, expires |-> now + TokenLife]]
  /\ nextPair' = nextPair + 1
  /\ req' = [req EXCEPT ![r].pc = "spend", ![r].pair = nextPair]
  /\ UNCHANGED <<stored, grant, now, issued, consents, answers>>

(* Deletes the row; InvalidGrantError if another request already had.      *)
FaultyInvalidateAuthorizationCode(r) ==
  LET q == req[r] IN
  /\ q.pc = "spend"
  /\ stored' = stored \ {q.code} /\ Goto(r, "deliver")
  /\ UNCHANGED <<grant, tokens, now, issued, consents, answers>>
InvalidateAuthorizationCode(r) ==
  LET q == req[r] IN
  /\ q.pc = "spend"
  /\ \/ /\ Found(q.code, q.client)
        /\ stored' = stored \ {q.code}
        /\ Goto(r, "deliver")
     \/ /\ ~Found(q.code, q.client)
        /\ stored' = stored
        /\ Refuse(r)
  /\ UNCHANGED <<grant, tokens, now, issued, consents, answers>>

(* The view reads the access token once more; it may be revoked by now.    *)
Deliver(r) ==
  LET q == req[r] IN
  /\ q.pc = "deliver"
  /\ answers' = IF q.pair \in pairs
                  THEN [answers EXCEPT ![q.code] = @ \union {q.pair}]
                  ELSE answers
  /\ Refuse(r)
  /\ UNCHANGED <<stored, grant, tokens, now, issued, consents>>

(* A worker dies: what it committed stays.                                 *)
Crash(r) ==
  /\ req[r].pc # "idle"
  /\ Refuse(r)
  /\ UNCHANGED <<stored, grant, tokens, now, issued, consents, answers>>

(* clear_expired on the grant table                                        *)
ClearExpired(c) ==
  /\ c \in stored /\ grant[c].expires < now
  /\ stored' = stored \ {c}
  /\ UNCHANGED <<grant, tokens, now, req, issued, consents, answers>>

(* AccessToken.revoke                                                      *)
RevokePair(p) ==
  /\ p \in pairs
  /\ pairs' = pairs \ {p}
  /\ UNCHANGED <<stored, grant, pair, nextPair, now, req, issued, consents, answers>>

Authorize ==
  \E c \in Codes, client \in Clients, uri \in Uris,
     challenge \in Verifiers \union {Null}, scope \in SUBSET Scopes :
    Allow(c, client, uri, challenge, scope) \/ AutoApprove(c, client, uri, challenge, scope)

Serve(r) ==
  \/ \E c \in Codes, client \in Clients, uri \in Uris, verifier \in Verifiers \union {Null} :
       ValidateCode(r, c, client, uri, verifier)
  \/ GetCodeChallenge(r) \/ GetCodeChallengeMethod(r) \/ ConfirmRedirectUri(r)
  \/ SaveBearerToken(r) \/ InvalidateAuthorizationCode(r) \/ Deliver(r)
  \/ Crash(r)

Next ==
  \/ Tick
  \/ Authorize
  \/ \E r \in Requests : Serve(r)
  \/ \E c \in Codes : ClearExpired(c)
  \/ \E p \in Pairs : RevokePair(p)

Spec == Init /\ [][Next]_vars

-----------------------------------------------------------------------------
TypeOK ==
  /\ stored \subseteq Codes /\ issued \subseteq Codes /\ pairs \subseteq Pairs
  /\ grant \in [Codes -> Grant]
  /\ pair \in [Pairs -> Pair]
  /\ nextPair \in 1 .. MaxPairs + 1
  /\ now \in Time
  /\ req \in [Requests -> Local]
  /\ consents \subseteq Consent
  /\ answers \in [Codes -> SUBSET Pairs]

(* Two requests that race for one code may both save tokens; only one of   *)
(* them hands its tokens to a client.                                      *)
AnsweredOnce == \A c \in Codes : \A p, q \in answers[c] : p = q

(* Every token pair comes from a request that matched the code in all of   *)
(* its parts, although they were checked in five separate queries.         *)
PairMatchesGrant ==
  \A p \in pairs :
    LET g == grant[pair[p].code] IN
    /\ pair[p].client = g.client
    /\ pair[p].uri = g.uri
    /\ pair[p].scope = g.scope
    /\ g.challenge # Null => pair[p].verifier = g.challenge
    /\ PkceRequired => g.challenge # Null

(* However often the authorize endpoint approves by itself, every scope it *)
(* grants to a client lies within one form the user allowed for it.        *)
ConsentBehindEveryCode ==
  \A c \in issued : grant[c].client \notin Trusted =>
    \E a \in consents :
      a.client = grant[c].client /\ grant[c].scope \subseteq a.scope

PairsOf(c) == {p \in Pairs : p < nextPair /\ pair[p].code = c}

(* A code is spent when its row is gone or past its end and no worker that *)
(* validated it has still to save tokens.                                  *)
Spent(c) ==
  /\ c \in issued
  /\ c \in stored => grant[c].expires =< now
  /\ \A r \in Requests : req[r].code = c => req[r].pc \in {"spend", "deliver"}

(* A spent code stays spent and buys no further tokens.                    *)
SpentStaysSpent ==
  [][\A c \in Codes : Spent(c) => Spent(c)' /\ PairsOf(c)' = PairsOf(c)]_vars

(* What becomes of a code.                                                 *)
Phase(c) ==
  IF c \notin issued THEN "unissued"
  ELSE IF c \in stored THEN "valid"
  ELSE IF answers[c] # {} THEN "answered"
  ELSE IF \E r \in Requests : req[r].pc = "deliver" /\ req[r].code = c THEN "claimed"
  ELSE "dead"

Lifecycle == INSTANCE CodeLifecycle WITH phase <- [c \in Codes |-> Phase(c)]

ImplementsLifecycle == Lifecycle!Spec
=============================================================================
