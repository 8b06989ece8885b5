------------------------ MODULE ClientRequestsProofs ------------------------
(***************************************************************************)
(* Machine-checked theorems about ClientRequests, for any applications,    *)
(* requests and number of edits.                                           *)
(***************************************************************************)
EXTENDS ClientRequests, MatchingProofs

(* Where the answer may be sent is always a URI the application allows.    *)
IsUri(uri) == uri.host \in Seq(STRING)

LEMMA TargetAllowed ==
  ASSUME NEW app \in Apps, NEW request, Target(app, request) # None,
         request.redirect # None => IsUri(request.redirect)
  PROVE  /\ RedirectAllowed(Target(app, request), app.redirects)
         /\ IsUri(Target(app, request))
<1>1. CASE request.redirect # None
  BY <1>1 DEF Target
<1>2. CASE request.redirect = None
  <2>1. Cardinality(app.redirects) = 1 /\ Target(app, request) = CHOOSE uri \in app.redirects : TRUE
    BY <1>2 DEF Target
  <2>2. app.redirects # {}
    BY <2>1, FS_EmptySet
  <2>3. Target(app, request) \in app.redirects
    BY <2>1, <2>2
  <2>4. UriMatches(Target(app, request), Target(app, request))
    BY <2>3, MatchesItself, AppsAssumption
  <2>5. QED
    BY <2>3, <2>4, AppsAssumption DEF RedirectAllowed, IsUri
<1>3. QED
  BY <1>1, <1>2

-----------------------------------------------------------------------------
(* The inductive invariant.  Tables: the rows, and the history of rows.    *)
Row     == Cleaned \union {None}
History == [Ids -> SUBSET Row]

Tables ==
  /\ apps \in [Ids -> Row]
  /\ edits \in 0..MaxEdits
  /\ seen \in [token : History, visit : History, post : History]

(* The cached client is a row that the client_id it stands for has had     *)
(* since the request began, and the request did present that client_id.    *)
Justified(client) ==
  /\ client.id \in Ids
  /\ client.id = q.id \/ (q.basic # None /\ client.id = q.basic.id)
  /\ client.row \in seen.token[client.id] \ {None}

Proven(client) == Presented(client.id, client.row.secret) \/ NeedsNone(client.row)

CachedClient ==
  token.pc # "idle" =>
    /\ q \in TokenRequests
    /\ \A id \in Ids : apps[id] \in seen.token[id]
    /\ token.client # None => Justified(token.client)
    /\ token.pc = "required" => token.client = None
    /\ token.pc = "client_id" => q.basic = None /\ q.secret = None
    /\ token.pc \in {"grant", "accepted"} => token.client # None /\ Proven(token.client)
    /\ token.pc = "accepted" => token.client.row.grant \in GRANT_TYPE_MAPPING[q.grantType]

(* What the form carries was allowed when it was shown, what has been sent *)
(* when it was sent.                                                       *)
Within(uri, rows) ==
  IsUri(uri) /\ \E row \in rows \ {None} : RedirectAllowed(uri, row.redirects)

Carried ==
  page.pc # "idle" =>
    /\ page.request.id \in Ids
    /\ apps[page.request.id] \in seen.visit[page.request.id]
    /\ apps[page.request.id] \in seen.post[page.request.id]
    /\ page.pc = "form" => /\ page.login /\ ~page.code /\ page.request.redirect # None
                           /\ Within(page.request.redirect, seen.visit[page.request.id])
    /\ page.pc = "sent" /\ page.login /\ page.sent # None =>
         /\ Within(page.sent, seen.visit[page.request.id])
         /\ page.code => Within(page.sent, seen.post[page.request.id])

PageShape ==
  /\ page.sent # None => page.pc = "sent"
  /\ page = [pc |-> page.pc, request |-> page.request, sent |-> page.sent, code |-> page.code,
             login |-> page.login]

IInv == Tables /\ CachedClient /\ PageShape /\ Carried

LEMMA InvInit == Init => IInv
<1> SUFFICES ASSUME Init PROVE IInv
  OBVIOUS
<1>1. Tables
  BY EditsAssumption DEF Init, Tables, Row, History
<1>2. CachedClient /\ PageShape /\ Carried
  BY DEF Init, CachedClient, PageShape, Carried, NoToken, NoPage, q
<1>3. QED
  BY <1>1, <1>2 DEF IInv

-----------------------------------------------------------------------------
(* What Load hands out stands for the client_id it was asked for.          *)
LEMMA LoadJustified ==
  ASSUME Tables, CachedClient, token.pc # "idle",
         NEW id, id = q.id \/ (q.basic # None /\ id = q.basic.id),
         Load(id, token.client) # None
  PROVE  /\ Justified(Load(id, token.client))
         /\ Load(id, token.client).id = id
         /\ id # None \/ token.client # None
<1>1. CASE token.client # None /\ token.client.id = id
  BY <1>1 DEF Load, CachedClient
<1>2. CASE ~(token.client # None /\ token.client.id = id)
  <2>1. id # None /\ apps[id] # None /\ Load(id, token.client) = [id |-> id, row |-> apps[id]]
    BY <1>2 DEF Load
  <2>2. id \in Ids
    BY <2>1, RequestsAssumption DEF CachedClient
  <2>3. apps[id] \in seen.token[id]
    BY <2>2 DEF CachedClient
  <2>4. QED
    BY <2>1, <2>2, <2>3 DEF Justified
<1>3. QED
  BY <1>1, <1>2

(* A step within a token request preserves the invariant if the client and *)
(* the place it goes to are as CachedClient asks.                          *)
LEMMA TokenStep ==
  ASSUME IInv, token.pc # "idle", NEW pc, NEW client, NEW cors,
         token' = [pc |-> pc, request |-> q, client |-> client, cors |-> cors],
         UNCHANGED <<apps, edits, page, seen>>,
         client # None => Justified(client),
         pc # "required",
         pc = "client_id" => q.basic = None /\ q.secret = None,
         pc \in {"grant", "accepted"} => client # None /\ Proven(client),
         pc = "accepted" => client.row.grant \in GRANT_TYPE_MAPPING[q.grantType]
  PROVE  IInv'
<1>1. Tables' /\ PageShape' /\ Carried'
  BY DEF IInv, Tables, PageShape, Carried
<1>2. q' = q /\ token'.pc = pc /\ token'.client = client
  BY DEF q
<1>4. (Justified(client) => Justified(client)') /\ (Proven(client) => Proven(client)')
  BY <1>2 DEF Justified, Proven, Presented, NeedsNone
<1>5. CachedClient'
  BY <1>2, <1>4 DEF IInv, CachedClient, Justified, Proven, Presented, NeedsNone
<1>6. QED
  BY <1>1, <1>5 DEF IInv

-----------------------------------------------------------------------------
(* One lemma per action of the token endpoint.                             *)
LEMMA AskStep == ASSUME IInv, NEW request \in TokenRequests, Ask(request) PROVE IInv'
<1>1. /\ token = NoToken /\ page = NoPage
      /\ token' = [pc |-> "required", request |-> request, client |-> None, cors |-> FALSE]
      /\ seen' = [seen EXCEPT !.token = Rows]
      /\ UNCHANGED <<apps, edits, page>>
  BY DEF Ask, NoToken
<1>2. /\ seen' = [token |-> Rows, visit |-> seen.visit, post |-> seen.post]
      /\ Rows \in History
      /\ \A id \in Ids : apps[id] \in Rows[id]
  BY <1>1 DEF IInv, Tables, Rows, History
<1>3. Tables'
  BY <1>1, <1>2 DEF IInv, Tables
<1>4. CachedClient'
  BY <1>1, <1>2 DEF CachedClient, q
<1>5. PageShape' /\ Carried'
  BY <1>1 DEF PageShape, Carried, NoPage
<1>6. QED
  BY <1>3, <1>4, <1>5 DEF IInv

LEMMA RequiredStep == ASSUME IInv, Required PROVE IInv'
<1> DEFINE client == Load(q.id, token.client)
<1>1. token.pc = "required" /\ token.client = None
  BY DEF Required, IInv, CachedClient
<1>2. CASE ShowsCredentials \/ q.grantType = "client_credentials"
  <2>1. /\ token' = [pc |-> "basic", request |-> q, client |-> None, cors |-> token.cors]
        /\ UNCHANGED <<apps, edits, page, seen>>
    BY <1>1, <1>2 DEF Required, Goto
  <2>2. QED
    BY <1>1, <2>1, TokenStep
<1>3. CASE ~(ShowsCredentials \/ q.grantType = "client_credentials")
  <2> DEFINE pc == IF client = None \/ client.row.type = "confidential"
                   THEN "basic" ELSE "client_id"
  <2>1. /\ token' = [pc |-> pc, request |-> q, client |-> client, cors |-> token.cors]
        /\ UNCHANGED <<apps, edits, page, seen>>
    BY <1>1, <1>3 DEF Required, Goto
  <2>2. client # None => Justified(client) /\ q.id # None
    BY <1>1, LoadJustified DEF IInv
  <2>3. pc = "client_id" => q.basic = None /\ q.secret = None
    BY <1>3, <2>2 DEF ShowsCredentials
  <2>4. pc \in {"basic", "client_id"}
    OBVIOUS
  <2> HIDE DEF client, pc
  <2>5. QED
    BY <1>1, <2>1, <2>2, <2>3, <2>4, TokenStep
<1>4. QED
  BY <1>2, <1>3

(* Credentials that Authentic accepts prove the client they were loaded    *)
(* for.                                                                    *)
LEMMA BasicAuthStep == ASSUME IInv, BasicAuth PROVE IInv'
<1>1. token.pc = "basic"
  BY DEF BasicAuth
<1>2. CASE q.basic = None
  <2>1. /\ token' = [pc |-> "body", request |-> q, client |-> token.client, cors |-> token.cors]
        /\ UNCHANGED <<apps, edits, page, seen>>
    BY <1>1, <1>2 DEF BasicAuth, Goto
  <2>2. token.client # None => Justified(token.client)
    BY <1>1 DEF IInv, CachedClient
  <2>3. QED
    BY <1>1, <2>1, <2>2, TokenStep
<1>3. CASE q.basic # None
  <2> DEFINE client == Load(q.basic.id, token.client)
             pc     == IF Authentic(client, q.basic.secret) THEN "grant" ELSE "body"
  <2>1. /\ token' = [pc |-> pc, request |-> q, client |-> client, cors |-> token.cors]
        /\ UNCHANGED <<apps, edits, page, seen>>
    BY <1>1, <1>3 DEF BasicAuth, Goto
  <2>2. client # None => Justified(client) /\ client.id = q.basic.id
    BY <1>1, <1>3, LoadJustified DEF IInv
  <2>3. pc = "grant" => client # None /\ Proven(client)
    BY <1>3, <2>2 DEF Authentic, PublicDevice, Proven, Presented, NeedsNone
  <2>4. pc \in {"grant", "body"}
    OBVIOUS
  <2> HIDE DEF client, pc
  <2>5. QED
    BY <1>1, <2>1, <2>2, <2>3, <2>4, TokenStep
<1>4. QED
  BY <1>2, <1>3

LEMMA BodyAuthStep == ASSUME IInv, BodyAuth PROVE IInv'
<1> DEFINE client == Load(q.id, token.client)
           pc     == IF Authentic(client, q.secret) THEN "grant" ELSE "refused"
<1>1. token.pc = "body"
  BY DEF BodyAuth
<1>2. /\ token' = [pc |-> pc, request |-> q, client |-> client, cors |-> token.cors]
      /\ UNCHANGED <<apps, edits, page, seen>>
  BY <1>1 DEF BodyAuth, Goto
<1>3. client # None => Justified(client) /\ client.id = q.id
  BY <1>1, LoadJustified DEF IInv
<1>4. pc = "grant" => client # None /\ Proven(client)
  BY <1>3 DEF Authentic, PublicDevice, Proven, Presented, NeedsNone
<1>5. pc \in {"grant", "refused"}
  OBVIOUS
<1> HIDE DEF client, pc
<1>6. QED
  BY <1>1, <1>2, <1>3, <1>4, <1>5, TokenStep

LEMMA ClientIdStep == ASSUME IInv, ClientId PROVE IInv'
<1> DEFINE client == Load(q.id, token.client)
           pc     == IF client # None /\ client.row.type # "confidential"
                     THEN "grant" ELSE "refused"
<1>1. token.pc = "client_id" /\ q.basic = None /\ q.secret = None
  BY DEF ClientId, IInv, CachedClient
<1>2. /\ token' = [pc |-> pc, request |-> q, client |-> client, cors |-> token.cors]
      /\ UNCHANGED <<apps, edits, page, seen>>
  BY <1>1 DEF ClientId, Goto
<1>3. client # None => Justified(client)
  BY <1>1, LoadJustified DEF IInv
<1>4. client # None => client.row \in Apps
  BY <1>3 DEF IInv, Tables, History, Row, Cleaned, Justified
<1>5. pc = "grant" => client # None /\ Proven(client)
  BY <1>1, <1>4, AppsAssumption DEF Proven, NeedsNone
<1>6. pc \in {"grant", "refused"}
  OBVIOUS
<1> HIDE DEF client, pc
<1>7. QED
  BY <1>1, <1>2, <1>3, <1>5, <1>6, TokenStep

LEMMA GrantTypeStep == ASSUME IInv, GrantType PROVE IInv'
<1> DEFINE pc   == IF token.client.row.grant \in GRANT_TYPE_MAPPING[q.grantType]
                   THEN "accepted" ELSE "refused"
           cors == q.origin # None /\ OriginAllowed(q.origin, token.client.row.origins)
<1>1. token.pc = "grant" /\ token.client # None /\ Justified(token.client) /\ Proven(token.client)
  BY DEF GrantType, IInv, CachedClient
<1>2. /\ token' = [pc |-> pc, request |-> q, client |-> token.client, cors |-> cors]
      /\ UNCHANGED <<apps, edits, page, seen>>
  BY <1>1 DEF GrantType
<1>3. /\ pc \in {"accepted", "refused"}
      /\ pc = "accepted" => token.client.row.grant \in GRANT_TYPE_MAPPING[q.grantType]
  OBVIOUS
<1> HIDE DEF pc, cors
<1>4. QED
  BY <1>1, <1>2, <1>3, TokenStep

LEMMA TokenReplyStep == ASSUME IInv, TokenReply PROVE IInv'
<1> DEFINE none == [id \in Ids |-> {}]
<1>1. /\ token' = NoToken
      /\ seen' = [token |-> none, visit |-> seen.visit, post |-> seen.post]
      /\ UNCHANGED <<apps, edits, page>>
  BY DEF TokenReply, IInv, Tables
<1>2. none \in History
  BY DEF History
<1> HIDE DEF none
<1>3. Tables'
  BY <1>1, <1>2 DEF IInv, Tables
<1>4. CachedClient'
  BY <1>1 DEF CachedClient, NoToken, q
<1>5. PageShape' /\ Carried'
  BY <1>1 DEF IInv, PageShape, Carried
<1>6. QED
  BY <1>3, <1>4, <1>5 DEF IInv

-----------------------------------------------------------------------------
(* One lemma per action of the authorization endpoint.  VisitStep is that  *)
(* of the steps that replace the page and forget what was seen before it.  *)
LEMMA RowsSeen ==
  ASSUME Tables
  PROVE  /\ Rows \in History
         /\ \A id \in Ids : apps[id] \in Rows[id]
         /\ \A id \in Ids : \A uri :
              IsUri(uri) /\ apps[id] # None /\ RedirectAllowed(uri, apps[id].redirects)
                => Within(uri, Rows[id])
BY DEF Tables, History, Rows, Within

LEMMA TargetWithin ==
  ASSUME Tables, NEW request, request.id \in Ids, Verdict(request) # "fatal",
         request.redirect # None => IsUri(request.redirect)
  PROVE  /\ apps[request.id] # None
         /\ Target(apps[request.id], request) # None
         /\ Within(Target(apps[request.id], request), Rows[request.id])
<1> DEFINE app == apps[request.id]
<1>1. app # None /\ Target(app, request) # None
  BY DEF Verdict
<1>2. app \in Apps
  BY <1>1 DEF Tables, Row, Cleaned
<1>3. RedirectAllowed(Target(app, request), app.redirects) /\ IsUri(Target(app, request))
  BY <1>1, <1>2, TargetAllowed
<1>4. QED
  BY <1>1, <1>3, RowsSeen

LEMMA RequestFields ==
  ASSUME NEW request \in AuthRequests, NEW target
  PROVE  /\ request.id \in Ids
         /\ request.redirect # None => IsUri(request.redirect)
         /\ [request EXCEPT !.redirect = target].id = request.id
         /\ [request EXCEPT !.redirect = target].redirect = target
BY RequestsAssumption DEF IsUri

LEMMA VisitStep == ASSUME IInv, NEW request \in AuthRequests, Visit(request) PROVE IInv'
<1> DEFINE verdict == Verdict(request)
           target  == IF verdict = "fatal" THEN None ELSE Target(apps[request.id], request)
           pc      == IF verdict = "valid" THEN "form" ELSE "sent"
           stated  == IF target = None THEN request ELSE [request EXCEPT !.redirect = target]
           sent    == IF verdict = "error" THEN target ELSE None
<1>1. /\ page' = [pc |-> pc, request |-> stated, sent |-> sent, code |-> FALSE, login |-> TRUE]
      /\ seen' = [seen EXCEPT !.visit = Rows, !.post = Rows]
      /\ token = NoToken
      /\ UNCHANGED <<apps, edits, token>>
  BY DEF Visit, NoPage
<1>2. seen' = [token |-> seen.token, visit |-> Rows, post |-> Rows]
  BY <1>1 DEF IInv, Tables
<1>3. request.id \in Ids /\ stated.id = request.id
  BY RequestFields
<1>4. verdict # "fatal" => /\ target # None /\ stated.redirect = target
                           /\ Within(target, Rows[request.id])
  BY RequestFields, TargetWithin DEF IInv
<1>5. /\ pc \in {"form", "sent"}
      /\ pc = "form" => verdict # "fatal"
      /\ sent # None => pc = "sent" /\ verdict # "fatal" /\ sent = target
  OBVIOUS
<1> HIDE DEF verdict, target, pc, stated, sent
<1>6. Tables'
  BY <1>1, <1>2, RowsSeen DEF IInv, Tables
<1>7. CachedClient'
  BY <1>1 DEF CachedClient, NoToken
<1>8. Carried'
  <2>1. /\ page'.pc = pc /\ page'.request = stated /\ page'.sent = sent /\ page'.code = FALSE
        /\ page'.login /\ seen'.visit = Rows /\ seen'.post = Rows /\ apps' = apps
    BY <1>1, <1>2
  <2>2. apps[request.id] \in Rows[request.id]
    BY <1>3, RowsSeen DEF IInv
  <2>3. QED
    BY <1>3, <1>4, <1>5, <2>1, <2>2 DEF Carried, Within
<1>9. PageShape'
  BY <1>1, <1>5 DEF PageShape
<1>10. QED
  BY <1>6, <1>7, <1>8, <1>9 DEF IInv

(* The form is answered from its own fields: the second validation looks   *)
(* at the URI the first one let through.                                   *)
LEMMA AllowStep == ASSUME IInv, Allow PROVE IInv'
<1> DEFINE verdict == Posted(page.request)
           code    == verdict = "valid"
           sent    == IF verdict = "fatal" THEN None ELSE page.request.redirect
<1>1. /\ page.pc = "form" /\ page.login /\ page.request.redirect # None
      /\ page.request.id \in Ids
      /\ apps[page.request.id] \in seen.visit[page.request.id]
      /\ Within(page.request.redirect, seen.visit[page.request.id])
  BY DEF Allow, IInv, Carried
<1>2. /\ page'.pc = "sent" /\ page'.request = page.request /\ page'.sent = sent
      /\ page'.code = code /\ page'.login
      /\ seen' = [seen EXCEPT !.post = Rows]
      /\ UNCHANGED <<apps, edits, token>>
  BY <1>1 DEF Allow, IInv, PageShape
<1>3. seen' = [token |-> seen.token, visit |-> seen.visit, post |-> Rows]
  BY <1>2 DEF IInv, Tables
<1>4. code => Within(sent, Rows[page.request.id])
  <2>1. code => Verdict(page.request) # "fatal"
    BY DEF Posted
  <2>2. IsUri(page.request.redirect)
    BY <1>1 DEF Within
  <2>3. Verdict(page.request) # "fatal" => Target(apps[page.request.id], page.request) = sent
    BY <1>1, <2>2, TargetWithin DEF Target, Posted, IInv
  <2>4. QED
    BY <1>1, <2>1, <2>2, <2>3, TargetWithin DEF IInv
<1>5. sent # None => sent = page.request.redirect
  OBVIOUS
<1> HIDE DEF verdict, code, sent
<1>6. Tables'
  BY <1>2, <1>3, RowsSeen DEF IInv, Tables
<1>7. CachedClient'
  BY <1>2, <1>3 DEF IInv, CachedClient, Justified, Proven, Presented, NeedsNone, q
<1>8. Carried'
  BY <1>1, <1>2, <1>3, <1>4, <1>5, RowsSeen DEF IInv, Carried, Within
<1>9. PageShape'
  BY <1>2 DEF Allow, IInv, PageShape
<1>10. QED
  BY <1>6, <1>7, <1>8, <1>9 DEF IInv

LEMMA DenyStep == ASSUME IInv, Deny PROVE IInv'
<1> DEFINE sent == IF apps[page.request.id] = None THEN None ELSE page.request.redirect
<1>1. /\ page.pc = "form" /\ page.login /\ ~page.code
      /\ page.request.id \in Ids
      /\ apps[page.request.id] \in seen.visit[page.request.id]
      /\ Within(page.request.redirect, seen.visit[page.request.id])
  BY DEF Deny, IInv, Carried
<1>2. /\ page'.pc = "sent" /\ page'.request = page.request /\ page'.sent = sent
      /\ ~page'.code /\ page'.login
      /\ seen' = [seen EXCEPT !.post = Rows]
      /\ UNCHANGED <<apps, edits, token>>
  BY <1>1 DEF Deny, IInv, PageShape
<1>3. seen' = [token |-> seen.token, visit |-> seen.visit, post |-> Rows]
  BY <1>2 DEF IInv, Tables
<1>4. sent # None => sent = page.request.redirect
  OBVIOUS
<1> HIDE DEF sent
<1>5. Tables'
  BY <1>2, <1>3, RowsSeen DEF IInv, Tables
<1>6. CachedClient'
  BY <1>2, <1>3 DEF IInv, CachedClient, Justified, Proven, Presented, NeedsNone, q
<1>7. Carried'
  BY <1>1, <1>2, <1>3, <1>4, RowsSeen DEF IInv, Carried, Within
<1>8. PageShape'
  BY <1>2 DEF Deny, IInv, PageShape
<1>9. QED
  BY <1>5, <1>6, <1>7, <1>8 DEF IInv

LEMMA LoginRequiredStep ==
  ASSUME IInv, NEW request \in AuthRequests, LoginRequired(request) PROVE IInv'
<1>1. /\ page' = [pc |-> "sent", request |-> request, sent |-> request.redirect,
                  code |-> FALSE, login |-> FALSE]
      /\ seen' = [seen EXCEPT !.visit = Rows, !.post = Rows]
      /\ token = NoToken
      /\ UNCHANGED <<apps, edits, token>>
  BY DEF LoginRequired, NoPage
<1>2. seen' = [token |-> seen.token, visit |-> Rows, post |-> Rows]
  BY <1>1 DEF IInv, Tables
<1>3. Tables'
  BY <1>1, <1>2, RowsSeen DEF IInv, Tables
<1>4. CachedClient'
  BY <1>1 DEF CachedClient, NoToken
<1>5. Carried'
  BY <1>1, <1>2, RowsSeen, RequestsAssumption DEF IInv, Carried
<1>6. PageShape'
  BY <1>1 DEF PageShape
<1>7. QED
  BY <1>3, <1>4, <1>5, <1>6 DEF IInv

LEMMA LeaveStep == ASSUME IInv, Leave PROVE IInv'
<1> DEFINE none == [id \in Ids |-> {}]
<1>1. /\ page' = NoPage
      /\ seen' = [token |-> seen.token, visit |-> none, post |-> none]
      /\ UNCHANGED <<apps, edits, token>>
  BY DEF Leave, IInv, Tables
<1>2. none \in History
  BY DEF History
<1> HIDE DEF none
<1>3. Tables'
  BY <1>1, <1>2 DEF IInv, Tables
<1>4. CachedClient'
  BY <1>1 DEF IInv, CachedClient, Justified, Proven, Presented, NeedsNone, q
<1>5. PageShape' /\ Carried'
  BY <1>1 DEF PageShape, Carried, NoPage
<1>6. QED
  BY <1>3, <1>4, <1>5 DEF IInv

-----------------------------------------------------------------------------
(* An edit only adds to the history, for one client_id.                    *)
LEMMA SaveStep ==
  ASSUME IInv, NEW id \in Ids, NEW app \in Row, Save(id, app) PROVE IInv'
<1> DEFINE With(rows) == [rows EXCEPT ![id] = @ \union {app}]
<1>1. /\ apps' = [apps EXCEPT ![id] = app]
      /\ seen' = [token |-> With(seen.token), visit |-> With(seen.visit),
                  post |-> With(seen.post)]
      /\ edits < MaxEdits /\ edits' = edits + 1
      /\ UNCHANGED <<token, page>>
  BY DEF Save
<1>2. \A rows \in History :
        /\ With(rows) \in History
        /\ \A i \in Ids : /\ rows[i] \subseteq With(rows)[i]
                          /\ apps[i] \in rows[i] => apps'[i] \in With(rows)[i]
  BY <1>1 DEF IInv, Tables, History
<1> HIDE DEF With
<1>3. apps' \in [Ids -> Row]
  BY <1>1 DEF IInv, Tables
<1>4. Tables'
  BY <1>1, <1>2, <1>3, EditsAssumption DEF IInv, Tables
<1>5. CachedClient'
  <2>1. seen.token \in History /\ seen'.token = With(seen.token)
    BY <1>1 DEF IInv, Tables
  <2>2. \A client : Justified(client) => Justified(client)'
    BY <1>1, <1>2, <2>1 DEF Justified, q
  <2>3. \A client : Proven(client) => Proven(client)'
    BY <1>1 DEF Proven, Presented, NeedsNone, q
  <2>4. QED
    BY <1>1, <1>2, <2>1, <2>2, <2>3 DEF IInv, CachedClient, q
<1>6. Carried'
  <2>1. /\ seen.visit \in History /\ seen'.visit = With(seen.visit)
        /\ seen.post \in History /\ seen'.post = With(seen.post)
    BY <1>1 DEF IInv, Tables
  <2>2. \A uri, rows, more : Within(uri, rows) /\ rows \subseteq more => Within(uri, more)
    BY DEF Within
  <2>3. \A i \in Ids : /\ apps[i] \in seen.visit[i] => apps'[i] \in seen'.visit[i]
                       /\ apps[i] \in seen.post[i] => apps'[i] \in seen'.post[i]
                       /\ seen.visit[i] \subseteq seen'.visit[i]
                       /\ seen.post[i] \subseteq seen'.post[i]
    BY <1>2, <2>1
  <2>4. QED
    BY <1>1, <2>2, <2>3 DEF IInv, Carried
<1>7. PageShape'
  BY <1>1 DEF IInv, PageShape
<1>8. QED
  BY <1>4, <1>5, <1>6, <1>7 DEF IInv

-----------------------------------------------------------------------------
LEMMA InvNext == IInv /\ [Next]_vars => IInv'
<1> SUFFICES ASSUME IInv, [Next]_vars PROVE IInv'
  OBVIOUS
<1>1. ASSUME NEW id \in Ids, NEW app \in Cleaned \union {None}, Save(id, app) PROVE IInv'
  BY <1>1, SaveStep DEF Row
<1>2. ASSUME NEW request \in TokenRequests, Ask(request) PROVE IInv'
  BY <1>2, AskStep
<1>3. CASE Required
  BY <1>3, RequiredStep
<1>4. CASE BasicAuth
  BY <1>4, BasicAuthStep
<1>5. CASE BodyAuth
  BY <1>5, BodyAuthStep
<1>6. CASE ClientId
  BY <1>6, ClientIdStep
<1>7. CASE GrantType
  BY <1>7, GrantTypeStep
<1>8. CASE TokenReply
  BY <1>8, TokenReplyStep
<1>9. ASSUME NEW request \in AuthRequests, Visit(request) PROVE IInv'
  BY <1>9, VisitStep
<1>10. ASSUME NEW request \in AuthRequests, LoginRequired(request) PROVE IInv'
  BY <1>10, LoginRequiredStep
<1>11. CASE Allow
  BY <1>11, AllowStep
<1>12. CASE Deny
  BY <1>12, DenyStep
<1>13. CASE Leave
  BY <1>13, LeaveStep
<1>14. CASE UNCHANGED vars
  BY <1>14 DEF vars, IInv, Tables, CachedClient, Justified, Proven, Presented, NeedsNone, q,
               PageShape, Carried
<1>15. QED
  BY <1>1, <1>2, <1>3, <1>4, <1>5, <1>6, <1>7, <1>8, <1>9, <1>10, <1>11, <1>12, <1>13, <1>14
     DEF Next

(* The invariant of the table and of both requests (Load to TokenReply,    *)
(* Visit to Leave).                                                        *)
THEOREM Invariant == Spec => []IInv
BY InvInit, InvNext, PTL DEF Spec

(* Every stored application has passed clean, and what a request or a form *)
(* has got past was there (Save, GrantType, Visit).                        *)
THEOREM RequestTypes == Spec => []TypeOK
<1>1. IInv => TypeOK
  <2> SUFFICES ASSUME IInv PROVE TypeOK
    OBVIOUS
  <2>1. \A id \in Ids : apps[id] # None => apps[id] \in Apps /\ Clean(apps[id])
    BY DEF IInv, Tables, Row, Cleaned
  <2>2. edits \in 0..MaxEdits
    BY DEF IInv, Tables
  <2>3. token.pc \in {"grant", "accepted"} => token.client # None
    BY DEF IInv, CachedClient
  <2>4. page.pc = "form" => page.request.redirect # None
    BY DEF IInv, Carried
  <2>5. QED
    BY <2>1, <2>2, <2>3, <2>4 DEF TypeOK
<1>2. QED
  BY Invariant, <1>1, PTL

(* The token endpoint accepts a request only as the client it presented,   *)
(* on one row that justifies both the authentication and the grant type    *)
(* (client_authentication_required to validate_grant_type).                *)
THEOREM AuthenticatedClientAlways == Spec => []AuthenticatedClient
<1>1. IInv => AuthenticatedClient
  <2> SUFFICES ASSUME IInv, token.pc = "accepted" PROVE AuthenticatedClient
    BY DEF AuthenticatedClient
  <2> DEFINE client == token.client
  <2>1. /\ Justified(client) /\ Proven(client)
        /\ client.row.grant \in GRANT_TYPE_MAPPING[q.grantType]
    BY DEF IInv, CachedClient
  <2>2. client.row \in seen.token[client.id] \ {None}
    BY <2>1 DEF Justified
  <2>3. QED
    BY <2>1, <2>2 DEF AuthenticatedClient, Justified, Proven
<1>2. QED
  BY Invariant, <1>1, PTL

(* A code, a refusal or an error of a logged-in user leaves only for a URI *)
(* the application allowed during the visit, a code only for one it        *)
(* allowed when the form was posted (BaseAuthorizationView).               *)
THEOREM RedirectsWereRegisteredAlways == Spec => []RedirectsWereRegistered
<1>1. IInv => RedirectsWereRegistered
  BY DEF IInv, Carried, Within, RedirectsWereRegistered, RegisteredIn
<1>2. QED
  BY Invariant, <1>1, PTL

(* However the owner edits the application, an answer to a logged-in user  *)
(* keeps the scheme, the path, the last two labels, the query and, but for *)
(* a loopback address, the port of a URI registered during the visit       *)
(* (redirect_to_uri_allowed, clean, Allow, Deny).                          *)
THEOREM StaysInDomainAlways == Spec => []StaysInDomain
<1>1. ASSUME IInv, page.login, page.sent # None PROVE StaysInDomain
  <2>1. page.pc = "sent" /\ page.request.id \in Ids
    BY <1>1 DEF IInv, PageShape, Carried
  <2>2. Within(page.sent, seen.visit[page.request.id])
    BY <1>1, <2>1 DEF IInv, Carried
  <2>3. PICK row \in seen.visit[page.request.id] \ {None} :
               RedirectAllowed(page.sent, row.redirects)
    BY <2>2 DEF Within
  <2>4. row \in Apps /\ Clean(row)
    BY <1>1, <2>1 DEF IInv, Tables, History, Row, Cleaned
  <2>5. PICK uri \in row.redirects : UriMatches(page.sent, uri)
    BY <2>3 DEF RedirectAllowed
  <2>6. /\ UriValid(uri, RedirectSchemes, FALSE)
        /\ uri.host \in Seq(STRING) /\ page.sent.host \in Seq(STRING)
    BY <2>2, <2>4, AppsAssumption DEF Clean, Within, IsUri
  <2>7. /\ page.sent.scheme = uri.scheme /\ page.sent.path = uri.path
        /\ LastLabels(uri.host, 2) = LastLabels(page.sent.host, 2)
        /\ \/ uri.port = page.sent.port
           \/ page.sent.scheme = "http" /\ page.sent.host \in Loopback
        /\ uri.query \subseteq page.sent.query
    BY <2>5, <2>6, MatchStaysInDomain
  <2>8. QED
    BY <2>7 DEF StaysInDomain
<1>2. IInv => StaysInDomain
  BY <1>1 DEF StaysInDomain
<1>3. QED
  BY Invariant, <1>2, PTL
=============================================================================
