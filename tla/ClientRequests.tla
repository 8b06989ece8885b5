--------------------------- MODULE ClientRequests ---------------------------
(***************************************************************************)
(* Applications and the two endpoints that trust them: the token endpoint  *)
(* (which client is this, and may it use this grant type?) and the         *)
(* authorization endpoint (may the user be sent there?), while the owners  *)
(* register, edit and delete applications between any two queries of a     *)
(* request.                                                                *)
(*                                                                         *)
(* The endpoints share nothing but the applications, so one request at a   *)
(* time is enough.  It caches the application it has loaded                *)
(* (request.client).  The order of the validator's methods is oauthlib's.  *)
(***************************************************************************)
EXTENDS Matching

CONSTANTS
  Ids,             \* client_ids
  Apps,            \* what an owner may type: [type, grant, secret, redirects, origins]
  TokenRequests,   \* [id, secret, basic, grantType, origin]
  AuthRequests,    \* [id, redirect, responseType, scope, challenge]
  Available,       \* the scopes of the settings
  PkceRequired,    \* PKCE_REQUIRED
  MaxEdits,        \* bound on the edits of applications
  None

ASSUME AppsAssumption ==
  \A app \in Apps : /\ app.type \in {"public", "confidential"}
                   /\ \A uri \in app.redirects : uri.host \in Seq(STRING)
ASSUME RequestsAssumption ==
  /\ \A request \in AuthRequests :
       request.redirect # None => request.redirect.host \in Seq(STRING)
  /\ \A request \in TokenRequests : /\ request.id \in Ids \union {None}
                                    /\ request.basic # None => request.basic.id \in Ids
  /\ AuthRequests \subseteq
       [id : Ids, redirect : {request.redirect : request \in AuthRequests},
        responseType : STRING, scope : STRING, challenge : BOOLEAN]
ASSUME EditsAssumption == MaxEdits \in Nat

VARIABLES
  apps,   \* the table: [Ids -> application or None]
  edits,  \* number of edits so far
  token,  \* the request at the token endpoint
  page,   \* the user's visit to the authorization endpoint
  seen    \* history: the rows each client_id has had since a request began

vars == <<apps, edits, token, page, seen>>

NoToken == [pc |-> "idle", request |-> None, client |-> None, cors |-> FALSE]
NoPage  == [pc |-> "idle", request |-> None, sent |-> None, code |-> FALSE, login |-> TRUE]

Cleaned == {app \in Apps : Clean(app)}

Init ==
  /\ apps \in [Ids -> Cleaned \union {None}]
  /\ edits = 0
  /\ token = NoToken
  /\ page = NoPage
  /\ seen = [token |-> [id \in Ids |-> {}], visit |-> [id \in Ids |-> {}],
             post |-> [id \in Ids |-> {}]]

Rows == [id \in Ids |-> {apps[id]}]

-----------------------------------------------------------------------------
(* Registration, the update form and createapplication save an application *)
(* that clean accepts; deletion takes the row away.                        *)
Save(id, app) ==
  /\ edits < MaxEdits
  /\ edits' = edits + 1
  /\ app # apps[id]
  /\ apps' = [apps EXCEPT ![id] = app]
  /\ LET With(rows) == [rows EXCEPT ![id] = @ \union {app}]
     IN  seen' = [token |-> With(seen.token), visit |-> With(seen.visit), post |-> With(seen.post)]
  /\ UNCHANGED <<token, page>>

-----------------------------------------------------------------------------
(* The token endpoint.  client is None or [id, row].                       *)
FaultyLoad(id, cached) ==
  IF cached # None THEN cached
  ELSE IF id # None /\ apps[id] # None THEN [id |-> id, row |-> apps[id]] ELSE None
Load(id, cached) == \* _load_application
  IF cached # None /\ cached.id = id THEN cached
  ELSE IF id # None /\ apps[id] # None THEN [id |-> id, row |-> apps[id]] ELSE None

Ask(request) ==
  /\ token = NoToken /\ page = NoPage
  /\ token' = [NoToken EXCEPT !.pc = "required", !.request = request]
  /\ seen' = [seen EXCEPT !.token = Rows]
  /\ UNCHANGED <<apps, edits, page>>

q == token.request

Goto(pc, client) ==
  /\ token' = [pc |-> pc, request |-> q, client |-> client, cors |-> token.cors]
  /\ UNCHANGED <<apps, edits, page, seen>>

(* client_authentication_required; the client credentials grant does not   *)
(* ask, and with no client oauthlib's default is yes.                      *)
ShowsCredentials == q.basic # None \/ (q.id # None /\ q.secret # None)

Required ==
  /\ token.pc = "required"
  /\ IF ShowsCredentials \/ q.grantType = "client_credentials"
     THEN Goto("basic", token.client)
     ELSE LET client == Load(q.id, token.client)
          IN  Goto(IF client = None \/ client.row.type = "confidential"
                   THEN "basic" ELSE "client_id", client)

PublicDevice(client) == client.row.type = "public" /\ q.grantType = "device_code"

Authentic(client, secret) ==
  client # None /\ (PublicDevice(client) \/ client.row.secret = secret)

BasicAuth ==
  /\ token.pc = "basic"
  /\ IF q.basic = None
     THEN Goto("body", token.client)
     ELSE LET client == Load(q.basic.id, token.client)
          IN  Goto(IF Authentic(client, q.basic.secret) THEN "grant" ELSE "body", client)

BodyAuth ==
  /\ token.pc = "body"
  /\ LET client == Load(q.id, token.client)
     IN  Goto(IF Authentic(client, q.secret) THEN "grant" ELSE "refused", client)

ClientId == \* authenticate_client_id
  /\ token.pc = "client_id"
  /\ LET client == Load(q.id, token.client)
     IN  Goto(IF client # None /\ client.row.type # "confidential" THEN "grant" ELSE "refused",
              client)

GRANT_TYPE_MAPPING ==
  [authorization_code |-> {"authorization-code", "openid-hybrid"},
   password           |-> {"password"},
   client_credentials |-> {"client-credentials"},
   device_code        |-> {"device-code"},
   refresh_token      |-> {"authorization-code", "device-code", "password", "client-credentials",
                           "openid-hybrid"}]

(* validate_grant_type, and the CORS header oauthlib adds to the answer.   *)
GrantType ==
  /\ token.pc = "grant"
  /\ token' =
       [pc |-> IF token.client.row.grant \in GRANT_TYPE_MAPPING[q.grantType]
               THEN "accepted" ELSE "refused",
        request |-> q, client |-> token.client,
        cors |-> q.origin # None /\ OriginAllowed(q.origin, token.client.row.origins)]
  /\ UNCHANGED <<apps, edits, page, seen>>

TokenReply ==
  /\ token.pc \in {"accepted", "refused"}
  /\ token' = NoToken
  /\ seen' = [seen EXCEPT !.token = [id \in Ids |-> {}]]
  /\ UNCHANGED <<apps, edits, page>>

-----------------------------------------------------------------------------
(* The authorization endpoint: where the answer may be sent, or None.      *)
Target(app, request) ==
  IF request.redirect # None
  THEN IF RedirectAllowed(request.redirect, app.redirects) THEN request.redirect ELSE None
  ELSE IF Cardinality(app.redirects) = 1 THEN CHOOSE uri \in app.redirects : TRUE ELSE None

RESPONSE_TYPES == \* validate_response_type
  "code" :> "authorization-code" @@
  "token" :> "implicit" @@ "id_token" :> "implicit" @@ "id_token token" :> "implicit" @@
  "code id_token" :> "openid-hybrid" @@ "code token" :> "openid-hybrid" @@
  "code id_token token" :> "openid-hybrid"

Acceptable(app, request) ==
  /\ request.responseType \in DOMAIN RESPONSE_TYPES
  /\ app.grant = RESPONSE_TYPES[request.responseType]
  /\ request.scope \in Available
  /\ PkceRequired /\ request.responseType = "code" => request.challenge

(* What validate_authorization_request makes of it: a fatal error is shown *)
(* at the provider, any other is sent to the target.                       *)
FaultyVerdict(request) ==  \* the redirect URI is left to the form
  IF apps[request.id] = None THEN "fatal"
  ELSE IF Acceptable(apps[request.id], request) THEN "valid" ELSE "error"
Verdict(request) ==
  LET app == apps[request.id]
  IN  IF app = None \/ Target(app, request) = None THEN "fatal"
      ELSE IF Acceptable(app, request) THEN "valid" ELSE "error"

Visit(request) ==
  /\ token = NoToken /\ page = NoPage
  /\ LET verdict == Verdict(request)
         target  == IF verdict = "fatal" THEN None ELSE Target(apps[request.id], request)
     IN  page' = [NoPage EXCEPT
           !.pc = IF verdict = "valid" THEN "form" ELSE "sent",
           !.request = IF target = None THEN request ELSE [request EXCEPT !.redirect = target],
           !.sent = IF verdict = "error" THEN target ELSE None]
  /\ seen' = [seen EXCEPT !.visit = Rows, !.post = Rows]
  /\ UNCHANGED <<apps, edits, token>>

(* The form posts its hidden fields back; oauthlib validates them again    *)
(* before it makes a code.  Automatic approval does the same without a     *)
(* form, in the request that was a visit.  The view's own .get of the      *)
(* application and that validation are one step.                           *)
FaultyPosted(request) == "valid"  \* the GET has validated it
Posted(request) == Verdict(request)

Allow ==
  /\ page.pc = "form"
  /\ LET verdict == Posted(page.request)
     IN  page' = [page EXCEPT !.pc = "sent", !.code = verdict = "valid",
                              !.sent = IF verdict = "fatal" THEN None ELSE page.request.redirect]
  /\ seen' = [seen EXCEPT !.post = Rows]
  /\ UNCHANGED <<apps, edits, token>>

(* A refusal is answered to the form's redirect_uri, which nobody validates *)
(* again, unless the application is gone.                                  *)
Deny ==
  /\ page.pc = "form"
  /\ page' = [page EXCEPT !.pc = "sent",
                          !.sent = IF apps[page.request.id] = None THEN None
                                   ELSE page.request.redirect]
  /\ seen' = [seen EXCEPT !.post = Rows]
  /\ UNCHANGED <<apps, edits, token>>

(* handle_no_permission, with prompt=none: a GET or a POST of a user who   *)
(* is not logged in is answered at the redirect_uri it states.             *)
LoginRequired(request) ==
  /\ token = NoToken
  /\ page.pc \in {"idle", "form"}
  /\ request.redirect # None
  /\ page' = [NoPage EXCEPT !.pc = "sent", !.request = request, !.sent = request.redirect,
                            !.login = FALSE]
  /\ seen' = [seen EXCEPT !.visit = Rows, !.post = Rows]
  /\ UNCHANGED <<apps, edits, token>>

Leave ==
  /\ page.pc = "sent"
  /\ page' = NoPage
  /\ seen' = [seen EXCEPT !.visit = [id \in Ids |-> {}], !.post = [id \in Ids |-> {}]]
  /\ UNCHANGED <<apps, edits, token>>

Next ==
  \/ \E id \in Ids, app \in Cleaned \union {None} : Save(id, app)
  \/ \E request \in TokenRequests : Ask(request)
  \/ Required \/ BasicAuth \/ BodyAuth \/ ClientId \/ GrantType \/ TokenReply
  \/ \E request \in AuthRequests : Visit(request) \/ LoginRequired(request)
  \/ Allow \/ Deny \/ Leave

Spec == Init /\ [][Next]_vars

-----------------------------------------------------------------------------
(* Every stored application has passed clean; a request past its           *)
(* authentication has a client.                                            *)
TypeOK ==
  /\ \A id \in Ids : apps[id] # None => apps[id] \in Apps /\ Clean(apps[id])
  /\ edits \in 0..MaxEdits
  /\ token.pc \in {"grant", "accepted"} => token.client # None
  /\ page.pc = "form" => page.request.redirect # None

(* A token request is accepted only as the client whose client_id it       *)
(* presented, and one row that client had during the request justifies the *)
(* whole decision, however the application was edited meanwhile: the       *)
(* secret shown with that id is the row's, or the row is public and needed *)
(* none; and the row's grant type is the one asked for.                    *)
Presented(id, secret) ==
  \/ q.basic # None /\ q.basic.id = id /\ q.basic.secret = secret
  \/ q.id = id /\ q.secret = secret

NeedsNone(row) ==
  row.type = "public" /\ (q.grantType = "device_code" \/ (q.basic = None /\ q.secret = None))

AuthenticatedClient ==
  token.pc = "accepted" =>
    LET id == token.client.id
    IN  /\ id = q.id \/ (q.basic # None /\ id = q.basic.id)
        /\ \E row \in seen.token[id] \ {None} :
             /\ Presented(id, row.secret) \/ NeedsNone(row)
             /\ row.grant \in GRANT_TYPE_MAPPING[q.grantType]

(* For a user who is logged in, a code goes only where the application's   *)
(* URIs allowed at the moment the form was posted, a refusal or an error   *)
(* only where they allowed at some moment of the visit; that the page was  *)
(* valid when shown is not enough.                                         *)
RegisteredIn(rows) == \E row \in rows \ {None} : RedirectAllowed(page.sent, row.redirects)

RedirectsWereRegistered ==
  page.pc = "sent" /\ page.login /\ page.sent # None =>
    /\ RegisteredIn(seen.visit[page.request.id])
    /\ page.code => RegisteredIn(seen.post[page.request.id])

(* What a cleaned application's URIs let through stays in the domain its   *)
(* owner registered: the scheme, the path and the last two labels of the   *)
(* host are those of one registered URI, wildcard or not, with all of its  *)
(* query; its port too, unless the user's own machine is the target.       *)
StaysInDomain ==
  page.login /\ page.sent # None =>
    \E row \in seen.visit[page.request.id] \ {None} : \E uri \in row.redirects :
      /\ uri.scheme = page.sent.scheme
      /\ uri.path = page.sent.path
      /\ LastLabels(uri.host, 2) = LastLabels(page.sent.host, 2)
      /\ uri.port = page.sent.port \/ (page.sent.scheme = "http" /\ page.sent.host \in Loopback)
      /\ uri.query \subseteq page.sent.query
=============================================================================
