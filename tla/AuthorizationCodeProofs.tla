----------------------- MODULE AuthorizationCodeProofs -----------------------
(***************************************************************************)
(* Machine-checked theorems about AuthorizationCode, for every value of    *)
(* its constants that satisfies CodeAssumption.                            *)
(***************************************************************************)
EXTENDS AuthorizationCode, TLAPS

LEMMA IdleType == Idle \in Local
  BY CodeAssumption DEF Idle, Local

(* What moving on and ending a request do to the workers.                  *)
LEMMA GotoFacts ==
  ASSUME TypeOK, NEW r \in Requests,
         NEW pc \in {"challenge", "method", "uri", "save", "spend", "deliver"}, Goto(r, pc)
  PROVE  /\ req' \in [Requests -> Local]
         /\ req'[r] = [req[r] EXCEPT !.pc = pc]
         /\ \A s \in Requests \ {r} : req'[s] = req[s]
  BY DEF TypeOK, Goto, Local

LEMMA RefuseFacts ==
  ASSUME TypeOK, NEW r \in Requests, Refuse(r)
  PROVE  /\ req' \in [Requests -> Local]
         /\ req'[r] = Idle
         /\ \A s \in Requests \ {r} : req'[s] = req[s]
  BY IdleType DEF TypeOK, Refuse

LEMMA CreateCodeType ==
  ASSUME TypeOK, NEW c \in Codes, NEW client \in Clients, NEW uri \in Uris,
         NEW challenge \in Verifiers \union {Null}, NEW scope \in SUBSET Scopes,
         CreateCode(c, client, uri, challenge, scope)
  PROVE  /\ issued' \subseteq Codes /\ stored' \subseteq Codes
         /\ grant' \in [Codes -> Grant]
<1>1. CodeExpiry \in 0 .. MaxTime + CodeLife
  BY CodeAssumption DEF TypeOK, Time, CodeExpiry
<1>2. [client |-> client, uri |-> uri, challenge |-> challenge,
       scope |-> scope, expires |-> CodeExpiry] \in Grant
  BY <1>1 DEF Grant
<1>3. QED
  BY <1>2 DEF TypeOK, CreateCode

LEMMA TypeInit == Init => TypeOK
<1> SUFFICES ASSUME Init PROVE TypeOK
  OBVIOUS
<1>1. NoGrant \in Grant
  BY CodeAssumption DEF NoGrant, Grant
<1>2. NoPair \in Pair
  BY CodeAssumption DEF NoPair, Pair
<1>3. QED
  BY <1>1, <1>2, IdleType, CodeAssumption DEF Init, TypeOK, Pairs, Time

LEMMA TypeStep == TypeOK /\ [Next]_vars => TypeOK'
<1> SUFFICES ASSUME TypeOK, [Next]_vars PROVE TypeOK'
  OBVIOUS
<1> USE CodeAssumption
<1>1. CASE Tick
  BY <1>1 DEF TypeOK, Tick, tokens, Time
<1>2. ASSUME NEW c \in Codes, NEW client \in Clients, NEW uri \in Uris,
             NEW challenge \in Verifiers \union {Null}, NEW scope \in SUBSET Scopes,
             \/ Allow(c, client, uri, challenge, scope)
             \/ AutoApprove(c, client, uri, challenge, scope)
      PROVE  TypeOK'
  <2>1. CreateCode(c, client, uri, challenge, scope)
    BY <1>2 DEF Allow, AutoApprove
  <2>2. consents' \subseteq Consent
    <3>1. [client |-> client, scope |-> scope] \in Consent
      BY DEF Consent
    <3>2. QED
      BY <1>2, <3>1 DEF TypeOK, Allow, AutoApprove
  <2>3. /\ issued' \subseteq Codes /\ stored' \subseteq Codes
        /\ grant' \in [Codes -> Grant]
    BY <2>1, CreateCodeType
  <2>4. UNCHANGED <<pairs, pair, nextPair, now, req, answers>>
    BY <2>1 DEF CreateCode, tokens
  <2>5. QED
    BY <2>2, <2>3, <2>4 DEF TypeOK
<1>3. ASSUME NEW r \in Requests, NEW c \in Codes, NEW client \in Clients, NEW uri \in Uris,
             NEW verifier \in Verifiers \union {Null}, ValidateCode(r, c, client, uri, verifier)
      PROVE  TypeOK'
  <2>1. grant[c].scope \in SUBSET Scopes
    BY DEF TypeOK, Grant
  <2>2. [pc |-> "challenge", code |-> c, client |-> client, uri |-> uri,
         verifier |-> verifier, scope |-> grant[c].scope, pair |-> 0] \in Local
    BY <2>1 DEF Local
  <2>3. QED
    BY <1>3, <2>2 DEF TypeOK, ValidateCode, tokens
<1>4. ASSUME NEW r \in Requests,
             GetCodeChallenge(r) \/ GetCodeChallengeMethod(r) \/ ConfirmRedirectUri(r)
               \/ Crash(r)
      PROVE  TypeOK'
  <2>1. \/ \E pc \in {"method", "uri", "save"} : Goto(r, pc)
        \/ Refuse(r)
    BY <1>4 DEF GetCodeChallenge, GetCodeChallengeMethod, ConfirmRedirectUri, Crash
  <2>2. req' \in [Requests -> Local]
    BY <2>1, GotoFacts, RefuseFacts
  <2>3. UNCHANGED <<stored, grant, tokens, now, issued, consents, answers>>
    BY <1>4 DEF GetCodeChallenge, GetCodeChallengeMethod, ConfirmRedirectUri, Crash
  <2>4. QED
    BY <2>2, <2>3 DEF TypeOK, tokens
<1>5. ASSUME NEW r \in Requests, SaveBearerToken(r) PROVE TypeOK'
  <2>1. [code |-> req[r].code, client |-> req[r].client, uri |-> req[r].uri,
         verifier |-> req[r].verifier, scope |-> req[r].scope,
         expires |-> now + TokenLife] \in Pair
    BY DEF TypeOK, Local, Pair, Time
  <2>2. pair' \in [Pairs -> Pair]
    BY <1>5, <2>1 DEF TypeOK, SaveBearerToken
  <2>3. pairs' \subseteq Pairs /\ nextPair' \in 1 .. MaxPairs + 1
    BY <1>5 DEF TypeOK, SaveBearerToken, Pairs
  <2>4. req' \in [Requests -> Local]
    <3>1. [req[r] EXCEPT !.pc = "spend", !.pair = nextPair] \in Local
      <4>1. nextPair \in 0 .. MaxPairs
        BY <1>5 DEF SaveBearerToken, Pairs
      <4>2. req[r] \in Local
        BY DEF TypeOK
      <4>3. QED
        BY <4>1, <4>2 DEF Local
    <3>2. req' = [req EXCEPT ![r] = [req[r] EXCEPT !.pc = "spend", !.pair = nextPair]]
      BY <1>5 DEF TypeOK, SaveBearerToken
    <3>3. QED
      BY <3>1, <3>2 DEF TypeOK
  <2>5. QED
    BY <1>5, <2>2, <2>3, <2>4 DEF TypeOK, SaveBearerToken
<1>6. ASSUME NEW r \in Requests, InvalidateAuthorizationCode(r) PROVE TypeOK'
  <2>1. req' \in [Requests -> Local]
    BY <1>6, GotoFacts, RefuseFacts DEF InvalidateAuthorizationCode
  <2>2. QED
    BY <1>6, <2>1 DEF TypeOK, InvalidateAuthorizationCode, tokens
<1>7. ASSUME NEW r \in Requests, Deliver(r) PROVE TypeOK'
  <2>1. req' \in [Requests -> Local]
    BY <1>7, RefuseFacts DEF Deliver
  <2>2. answers' \in [Codes -> SUBSET Pairs]
    BY <1>7 DEF TypeOK, Deliver
  <2>3. QED
    BY <1>7, <2>1, <2>2 DEF TypeOK, Deliver, tokens
<1>8. ASSUME NEW c \in Codes, ClearExpired(c) PROVE TypeOK'
  BY <1>8 DEF TypeOK, ClearExpired, tokens
<1>9. ASSUME NEW p \in Pairs, RevokePair(p) PROVE TypeOK'
  BY <1>9 DEF TypeOK, RevokePair
<1>10. CASE UNCHANGED vars
  BY <1>10 DEF TypeOK, vars
<1>11. QED
  BY <1>1, <1>2, <1>3, <1>4, <1>5, <1>6, <1>7, <1>8, <1>9, <1>10
     DEF Next, Authorize, Serve

(* The tables, the workers and the history keep their types, for any       *)
(* number of workers and codes and any lifetimes.                          *)
THEOREM CodeTypes == Spec => []TypeOK
<1>1. Init => TypeOK
  BY TypeInit
<1>2. TypeOK /\ [Next]_vars => TypeOK'
  BY TypeStep
<1>3. QED
  BY <1>1, <1>2, PTL DEF Spec

-----------------------------------------------------------------------------
(* The row of a code is written once, and a deleted row never comes back.  *)
LEMMA CodeHistory ==
  ASSUME TypeOK, [Next]_vars, NEW c \in issued
  PROVE  /\ c \in issued' /\ grant'[c] = grant[c]
         /\ c \in stored' => c \in stored
<1>1. ASSUME NEW d \in Codes, NEW client \in Clients, NEW uri \in Uris,
             NEW challenge \in Verifiers \union {Null}, NEW scope \in SUBSET Scopes,
             \/ Allow(d, client, uri, challenge, scope)
             \/ AutoApprove(d, client, uri, challenge, scope)
      PROVE  /\ c \in issued' /\ grant'[c] = grant[c]
             /\ c \in stored' => c \in stored
  <2>1. CreateCode(d, client, uri, challenge, scope)
    BY <1>1 DEF Allow, AutoApprove
  <2>2. d # c
    BY <2>1 DEF CreateCode
  <2>3. QED
    BY <2>1, <2>2 DEF TypeOK, CreateCode
<1>2. CASE Authorize
  BY <1>1, <1>2 DEF Authorize
<1>3. CASE ~Authorize
  <2>1. issued' = issued /\ grant' = grant /\ stored' \subseteq stored
    BY <1>3 DEF Next, vars, Tick, Serve, ValidateCode, GetCodeChallenge,
       GetCodeChallengeMethod, ConfirmRedirectUri, SaveBearerToken,
       InvalidateAuthorizationCode, Deliver, Crash, ClearExpired, RevokePair
  <2>2. QED
    BY <2>1
<1>4. QED
  BY <1>2, <1>3

(* What the queries of an exchange have established so far, about the      *)
(* request q of a worker: grant rows do not change, so it stays true after *)
(* the row is gone.                                                        *)
Checked(q) ==
  /\ q.code \in issued
  /\ q.client = grant[q.code].client /\ q.scope = grant[q.code].scope
  /\ q.pc = "method" => grant[q.code].challenge # Null
  /\ q.pc \in {"uri", "save", "spend", "deliver"} =>
       /\ grant[q.code].challenge # Null => q.verifier = grant[q.code].challenge
       /\ PkceRequired => grant[q.code].challenge # Null
  /\ q.pc \in {"save", "spend", "deliver"} => q.uri = grant[q.code].uri

Exchanges ==
  /\ stored \subseteq issued
  /\ \A r \in Requests : req[r].pc # "idle" => Checked(req[r])

(* What one step may make of a worker.                                     *)
LEMMA WorkerHistory ==
  ASSUME TypeOK, [Next]_vars, NEW r \in Requests
  PROVE  \/ req'[r] = req[r] \/ req'[r] = Idle
         \/ \E c \in Codes, client \in Clients, uri \in Uris,
               verifier \in Verifiers \union {Null} : ValidateCode(r, c, client, uri, verifier)
         \/ GetCodeChallenge(r) \/ GetCodeChallengeMethod(r) \/ ConfirmRedirectUri(r)
         \/ SaveBearerToken(r) \/ InvalidateAuthorizationCode(r)
<1>1. ASSUME NEW s \in Requests, s # r, Serve(s) PROVE req'[r] = req[r]
  BY <1>1 DEF TypeOK, Serve, ValidateCode, GetCodeChallenge, GetCodeChallengeMethod,
     ConfirmRedirectUri, SaveBearerToken, InvalidateAuthorizationCode, Deliver, Crash,
     Goto, Refuse
<1>2. CASE Serve(r)
  <2>1. ASSUME Deliver(r) \/ Crash(r) PROVE req'[r] = Idle
    BY <2>1, RefuseFacts DEF Deliver, Crash
  <2>2. QED
    BY <1>2, <2>1 DEF Serve
<1>3. CASE ~\E s \in Requests : Serve(s)
  <2>1. req' = req
    BY <1>3 DEF Next, vars, Tick, Authorize, Allow, AutoApprove, CreateCode, ClearExpired,
       RevokePair
  <2>2. QED
    BY <2>1
<1>4. QED
  BY <1>1, <1>2, <1>3

LEMMA ExchangesStep == TypeOK /\ Exchanges /\ [Next]_vars => Exchanges'
<1> SUFFICES ASSUME TypeOK, Exchanges, [Next]_vars PROVE Exchanges'
  OBVIOUS
<1>1. stored' \subseteq issued'
  <2>1. CASE Authorize
    BY <2>1 DEF Exchanges, Authorize, Allow, AutoApprove, CreateCode
  <2>2. CASE ~Authorize
    BY <2>2 DEF Exchanges, Next, vars, Tick, Serve, ValidateCode, GetCodeChallenge,
       GetCodeChallengeMethod, ConfirmRedirectUri, SaveBearerToken,
       InvalidateAuthorizationCode, Deliver, Crash, ClearExpired, RevokePair
  <2>3. QED
    BY <2>1, <2>2
<1>2. ASSUME NEW r \in Requests, req'[r].pc # "idle" PROVE Checked(req[r])'
  <2>1. ASSUME NEW c \in issued
        PROVE  c \in issued' /\ grant'[c] = grant[c]
    BY <2>1, CodeHistory
  <2>2. CASE req'[r] = req[r]
    BY <1>2, <2>1, <2>2 DEF Exchanges, Checked
  <2>3. CASE req'[r] = Idle
    BY <1>2, <2>3 DEF Idle
  <2>4. ASSUME NEW c \in Codes, NEW client \in Clients, NEW uri \in Uris,
               NEW verifier \in Verifiers \union {Null},
               ValidateCode(r, c, client, uri, verifier)
        PROVE  Checked(req[r])'
    <3>1. req'[r] = [pc |-> "challenge", code |-> c, client |-> client, uri |-> uri,
                     verifier |-> verifier, scope |-> grant[c].scope, pair |-> 0]
      BY <2>4 DEF TypeOK, ValidateCode
    <3>2. c \in issued /\ grant[c].client = client
      BY <2>4 DEF Exchanges, ValidateCode, Found
    <3>3. QED
      BY <2>1, <3>1, <3>2 DEF Checked
  <2>5. ASSUME req[r].pc # "idle", NEW pc \in {"method", "uri", "save", "spend", "deliver"},
               Goto(r, pc)
        PROVE  /\ req'[r].pc = pc /\ req'[r].code = req[r].code
               /\ req'[r].client = req[r].client /\ req'[r].uri = req[r].uri
               /\ req'[r].verifier = req[r].verifier /\ req'[r].scope = req[r].scope
               /\ Checked(req[r]) /\ grant'[req[r].code] = grant[req[r].code]
               /\ req[r].code \in issued'
    <3>1. Checked(req[r])
      BY <2>5 DEF Exchanges
    <3>2. req[r].code \in issued
      BY <3>1 DEF Checked
    <3>3. req[r] \in Local
      BY DEF TypeOK
    <3>4. req'[r] = [req[r] EXCEPT !.pc = pc]
      BY <2>5, GotoFacts
    <3>5. /\ req'[r].pc = pc /\ req'[r].code = req[r].code
          /\ req'[r].client = req[r].client /\ req'[r].uri = req[r].uri
          /\ req'[r].verifier = req[r].verifier /\ req'[r].scope = req[r].scope
      BY <3>3, <3>4 DEF Local
    <3>6. QED
      BY <2>1, <3>1, <3>2, <3>5
  <2>6. CASE GetCodeChallenge(r)
    <3>1. ~Refuse(r)
      BY <1>2, RefuseFacts DEF Idle
    <3>2. req[r].pc = "challenge"
      BY <2>6 DEF GetCodeChallenge
    <3>3. \/ Goto(r, "method") /\ grant[req[r].code].challenge # Null
          \/ Goto(r, "uri") /\ grant[req[r].code].challenge = Null /\ ~PkceRequired
      BY <2>6, <3>1 DEF GetCodeChallenge
    <3>4. QED
      BY <2>5, <3>2, <3>3 DEF Checked
  <2>7. CASE GetCodeChallengeMethod(r)
    <3>1. ~Refuse(r)
      BY <1>2, RefuseFacts DEF Idle
    <3>2. /\ req[r].pc = "method" /\ Goto(r, "uri")
          /\ req[r].verifier = grant[req[r].code].challenge
      BY <2>7, <3>1 DEF GetCodeChallengeMethod, Verifies
    <3>3. QED
      BY <2>5, <3>2 DEF Checked
  <2>8. CASE ConfirmRedirectUri(r)
    <3>1. ~Refuse(r)
      BY <1>2, RefuseFacts DEF Idle
    <3>2. /\ req[r].pc = "uri" /\ Goto(r, "save")
          /\ req[r].uri = grant[req[r].code].uri
      BY <2>8, <3>1 DEF ConfirmRedirectUri, RedirectUriAllowed
    <3>3. QED
      BY <2>5, <3>2 DEF Checked
  <2>9. CASE SaveBearerToken(r)
    <3>1. req[r].pc = "save" /\ req[r] \in Local
      BY <2>9 DEF SaveBearerToken, TypeOK
    <3>2. /\ req'[r].pc = "spend" /\ req'[r].code = req[r].code
          /\ req'[r].client = req[r].client /\ req'[r].uri = req[r].uri
          /\ req'[r].verifier = req[r].verifier /\ req'[r].scope = req[r].scope
      BY <2>9, <3>1 DEF SaveBearerToken, TypeOK, Local
    <3>3. Checked(req[r]) /\ req[r].code \in issued
      BY <3>1 DEF Exchanges, Checked
    <3>4. QED
      BY <2>1, <3>1, <3>2, <3>3 DEF Checked
  <2>10. CASE InvalidateAuthorizationCode(r)
    <3>1. ~Refuse(r)
      BY <1>2, RefuseFacts DEF Idle
    <3>2. req[r].pc = "spend" /\ Goto(r, "deliver")
      BY <2>10, <3>1 DEF InvalidateAuthorizationCode
    <3>3. QED
      BY <2>5, <3>2 DEF Checked
  <2>11. QED
    BY <2>2, <2>3, <2>4, <2>6, <2>7, <2>8, <2>9, <2>10, WorkerHistory
<1>3. QED
  BY <1>1, <1>2 DEF Exchanges

LEMMA ExchangesInit == Init => Exchanges
  BY DEF Init, Exchanges, Idle

-----------------------------------------------------------------------------
(* PairMatchesGrant for one pair, with the code it came from.              *)
Matches(p) ==
  /\ pair[p].code \in issued
  /\ pair[p].client = grant[pair[p].code].client
  /\ pair[p].uri = grant[pair[p].code].uri
  /\ pair[p].scope = grant[pair[p].code].scope
  /\ grant[pair[p].code].challenge # Null => pair[p].verifier = grant[pair[p].code].challenge
  /\ PkceRequired => grant[pair[p].code].challenge # Null

PairsMatch == \A p \in pairs : Matches(p)

(* What one step of a worker, and any one step, writes at most.            *)
LEMMA ServeWrites ==
  ASSUME NEW r \in Requests, Serve(r)
  PROVE  /\ now' = now
         /\ SaveBearerToken(r) \/ UNCHANGED tokens
         /\ Deliver(r) \/ answers' = answers
<1>1. CASE \E c \in Codes, client \in Clients, uri \in Uris, verifier \in Verifiers \union {Null} :
             ValidateCode(r, c, client, uri, verifier)
  BY <1>1 DEF ValidateCode
<1>2. CASE GetCodeChallenge(r)
  BY <1>2 DEF GetCodeChallenge
<1>3. CASE GetCodeChallengeMethod(r)
  BY <1>3 DEF GetCodeChallengeMethod
<1>4. CASE ConfirmRedirectUri(r)
  BY <1>4 DEF ConfirmRedirectUri
<1>5. CASE SaveBearerToken(r)
  BY <1>5 DEF SaveBearerToken
<1>6. CASE InvalidateAuthorizationCode(r)
  BY <1>6 DEF InvalidateAuthorizationCode
<1>7. CASE Deliver(r)
  BY <1>7 DEF Deliver
<1>8. CASE Crash(r)
  BY <1>8 DEF Crash
<1>9. QED
  BY <1>1, <1>2, <1>3, <1>4, <1>5, <1>6, <1>7, <1>8 DEF Serve

LEMMA StepWrites ==
  ASSUME [Next]_vars
  PROVE  /\ now' = now \/ now' = now + 1
         /\ \/ \E r \in Requests : SaveBearerToken(r)
            \/ pairs' \subseteq pairs /\ pair' = pair /\ nextPair' = nextPair
         /\ \/ \E r \in Requests : Deliver(r)
            \/ answers' = answers
<1>1. CASE \E r \in Requests : Serve(r)
  BY <1>1, ServeWrites DEF tokens
<1>2. CASE Tick
  BY <1>2 DEF Tick, tokens
<1>3. CASE Authorize
  BY <1>3 DEF Authorize, Allow, AutoApprove, CreateCode, tokens
<1>4. CASE \E c \in Codes : ClearExpired(c)
  BY <1>4 DEF ClearExpired, tokens
<1>5. CASE \E p \in Pairs : RevokePair(p)
  BY <1>5 DEF RevokePair
<1>6. CASE UNCHANGED vars
  BY <1>6 DEF vars, tokens
<1>7. QED
  BY <1>1, <1>2, <1>3, <1>4, <1>5, <1>6 DEF Next

(* Only SaveBearerToken makes a pair, and no step changes one.             *)
LEMMA PairHistory ==
  ASSUME TypeOK, [Next]_vars
  PROVE  \/ \E r \in Requests : SaveBearerToken(r)
         \/ pairs' \subseteq pairs /\ pair' = pair /\ nextPair' = nextPair
BY StepWrites

LEMMA PairsStep ==
  TypeOK /\ Exchanges /\ PairsMatch /\ [Next]_vars => PairsMatch'
<1> SUFFICES ASSUME TypeOK, Exchanges, PairsMatch, [Next]_vars, NEW p \in pairs'
             PROVE  Matches(p)'
  BY DEF PairsMatch
<1>1. ASSUME NEW c \in issued
      PROVE  c \in issued' /\ grant'[c] = grant[c]
  BY <1>1, CodeHistory
<1>2. ASSUME p \in pairs, pair'[p] = pair[p] PROVE Matches(p)'
  BY <1>1, <1>2 DEF PairsMatch, Matches
<1>3. ASSUME NEW r \in Requests, SaveBearerToken(r) PROVE Matches(p)'
  <2>1. CASE p = nextPair
    <3>1. pair'[p] = [code |-> req[r].code, client |-> req[r].client, uri |-> req[r].uri,
                      verifier |-> req[r].verifier, scope |-> req[r].scope,
                      expires |-> now + TokenLife]
      BY <1>3, <2>1 DEF TypeOK, SaveBearerToken
    <3>2. req[r].pc = "save" /\ Checked(req[r])
      BY <1>3 DEF Exchanges, SaveBearerToken
    <3>3. QED
      BY <1>1, <3>1, <3>2 DEF Checked, Matches
  <2>2. CASE p # nextPair
    <3>1. p \in pairs /\ pair'[p] = pair[p]
      BY <1>3, <2>2 DEF TypeOK, SaveBearerToken
    <3>2. QED
      BY <1>2, <3>1
  <2>3. QED
    BY <2>1, <2>2
<1>4. QED
  BY <1>2, <1>3, PairHistory

LEMMA PairsInit == Init => PairsMatch
  BY DEF Init, PairsMatch

LEMMA PairsMatchImplies == PairsMatch => PairMatchesGrant
  BY DEF PairsMatch, Matches, PairMatchesGrant

(* Every token pair comes from a request that matched its code in client,  *)
(* redirect URI, scope and PKCE verifier, although five separate queries   *)
(* checked them and the code may have been deleted in between.             *)
THEOREM PairMatchesTheorem == Spec => []PairMatchesGrant
<1>1. Init => TypeOK /\ Exchanges /\ PairsMatch
  BY TypeInit, ExchangesInit, PairsInit
<1>2. TypeOK /\ Exchanges /\ PairsMatch /\ [Next]_vars => (TypeOK /\ Exchanges /\ PairsMatch)'
  BY TypeStep, ExchangesStep, PairsStep
<1>3. QED
  BY <1>1, <1>2, PairsMatchImplies, PTL DEF Spec

-----------------------------------------------------------------------------
(* Automatic approval rests on a pair, the pair on its code, and that code *)
(* on a consent.                                                           *)
LEMMA ConsentStep ==
  TypeOK /\ PairsMatch /\ ConsentBehindEveryCode /\ [Next]_vars => ConsentBehindEveryCode'
<1> SUFFICES ASSUME TypeOK, PairsMatch, ConsentBehindEveryCode, [Next]_vars,
                    NEW c \in issued', grant'[c].client \notin Trusted
             PROVE  \E a \in consents' : /\ a.client = grant'[c].client
                                         /\ grant'[c].scope \subseteq a.scope
  BY DEF ConsentBehindEveryCode
<1>1. consents \subseteq consents'
  BY DEF Next, vars, Tick, Authorize, Allow, AutoApprove, Serve, ValidateCode,
     GetCodeChallenge, GetCodeChallengeMethod, ConfirmRedirectUri, SaveBearerToken,
     InvalidateAuthorizationCode, Deliver, Crash, ClearExpired, RevokePair
<1>2. CASE c \in issued
  <2>1. grant'[c] = grant[c]
    BY <1>2, CodeHistory
  <2>2. QED
    BY <1>1, <1>2, <2>1 DEF ConsentBehindEveryCode
<1>3. ASSUME c \notin issued,
             NEW d \in Codes, NEW client \in Clients, NEW uri \in Uris,
             NEW challenge \in Verifiers \union {Null}, NEW scope \in SUBSET Scopes,
             CreateCode(d, client, uri, challenge, scope)
      PROVE  grant'[c].client = client /\ grant'[c].scope = scope
  BY <1>3 DEF TypeOK, CreateCode
<1>4. ASSUME c \notin issued,
             NEW d \in Codes, NEW client \in Clients, NEW uri \in Uris,
             NEW challenge \in Verifiers \union {Null}, NEW scope \in SUBSET Scopes,
             Allow(d, client, uri, challenge, scope)
      PROVE  \E a \in consents' : /\ a.client = grant'[c].client
                                  /\ grant'[c].scope \subseteq a.scope
  <2>1. grant'[c].client = client /\ grant'[c].scope = scope
    BY <1>3, <1>4 DEF Allow
  <2>2. [client |-> client, scope |-> scope] \in consents'
    BY <1>4 DEF Allow
  <2>3. QED
    BY <2>1, <2>2
<1>5. ASSUME c \notin issued,
             NEW d \in Codes, NEW client \in Clients, NEW uri \in Uris,
             NEW challenge \in Verifiers \union {Null}, NEW scope \in SUBSET Scopes,
             AutoApprove(d, client, uri, challenge, scope)
      PROVE  \E a \in consents' : /\ a.client = grant'[c].client
                                  /\ grant'[c].scope \subseteq a.scope
  <2>1. grant'[c].client = client /\ grant'[c].scope = scope
    BY <1>3, <1>5 DEF AutoApprove
  <2>2. PICK p \in pairs : pair[p].client = client /\ scope \subseteq pair[p].scope
    BY <1>5, <2>1 DEF AutoApprove, Approved
  <2>3. /\ pair[p].code \in issued
        /\ grant[pair[p].code].client = client
        /\ scope \subseteq grant[pair[p].code].scope
    BY <2>2 DEF PairsMatch, Matches
  <2>4. PICK a \in consents : /\ a.client = client
                              /\ grant[pair[p].code].scope \subseteq a.scope
    BY <2>1, <2>3 DEF ConsentBehindEveryCode
  <2>5. QED
    BY <1>1, <2>1, <2>3, <2>4
<1>6. CASE c \notin issued
  <2>1. Authorize
    BY <1>6 DEF Next, vars, Tick, Serve, ValidateCode, GetCodeChallenge,
       GetCodeChallengeMethod, ConfirmRedirectUri, SaveBearerToken,
       InvalidateAuthorizationCode, Deliver, Crash, ClearExpired, RevokePair
  <2>2. QED
    BY <1>4, <1>5, <1>6, <2>1 DEF Authorize
<1>7. QED
  BY <1>2, <1>6

(* However often the authorize endpoint approves by itself, an ordinary    *)
(* client's code lies within one form that the user allowed for it.        *)
THEOREM ConsentTheorem == Spec => []ConsentBehindEveryCode
<1>1. Init => TypeOK /\ Exchanges /\ PairsMatch /\ ConsentBehindEveryCode
  BY TypeInit, ExchangesInit, PairsInit DEF Init, ConsentBehindEveryCode
<1>2. TypeOK /\ Exchanges /\ PairsMatch /\ ConsentBehindEveryCode /\ [Next]_vars
      => (TypeOK /\ Exchanges /\ PairsMatch /\ ConsentBehindEveryCode)'
  BY TypeStep, ExchangesStep, PairsStep, ConsentStep
<1>3. QED
  BY <1>1, <1>2, PTL DEF Spec

-----------------------------------------------------------------------------
(* A worker that has deleted the code and has still to answer.             *)
Claims(r, c) == req[r].pc = "deliver" /\ req[r].code = c

(* The strengthening of AnsweredOnce: whoever deletes the code is the only *)
(* one to claim it, and nobody has answered before.                        *)
OneClaim ==
  /\ \A r, s \in Requests, c \in Codes : Claims(r, c) /\ Claims(s, c) => r = s
  /\ \A r \in Requests, c \in Codes : Claims(r, c) => c \notin stored /\ answers[c] = {}
  /\ \A c \in Codes : c \in stored \/ c \notin issued => answers[c] = {}

(* A step makes a claim only by deleting the row.                          *)
LEMMA ClaimHistory ==
  ASSUME TypeOK, [Next]_vars, NEW r \in Requests, NEW c \in Codes, Claims(r, c)'
  PROVE  \/ Claims(r, c)
         \/ InvalidateAuthorizationCode(r) /\ req[r].code = c /\ c \in stored
<1>1. req[r] \in Local
  BY DEF TypeOK
<1>2. CASE req'[r] = req[r] \/ req'[r] = Idle
  BY <1>2 DEF Claims, Idle
<1>3. CASE InvalidateAuthorizationCode(r)
  <2>1. ~Refuse(r)
    BY RefuseFacts DEF Idle, Claims
  <2>2. Goto(r, "deliver") /\ req[r].code \in stored
    BY <1>3, <2>1 DEF InvalidateAuthorizationCode, Found
  <2>3. req'[r] = [req[r] EXCEPT !.pc = "deliver"]
    BY <2>2, GotoFacts
  <2>4. req'[r].code = req[r].code
    BY <1>1, <2>3 DEF Local
  <2>5. QED
    BY <1>3, <2>2, <2>4 DEF Claims
<1>4. ASSUME NEW d \in Codes, NEW client \in Clients, NEW uri \in Uris,
             NEW verifier \in Verifiers \union {Null}, ValidateCode(r, d, client, uri, verifier)
      PROVE  FALSE
  <2>1. req'[r].pc = "challenge"
    BY <1>4 DEF TypeOK, ValidateCode
  <2>2. QED
    BY <2>1 DEF Claims
<1>5. CASE GetCodeChallenge(r) \/ GetCodeChallengeMethod(r) \/ ConfirmRedirectUri(r)
  <2>1. Refuse(r) \/ \E pc \in {"method", "uri", "save"} : Goto(r, pc)
    BY <1>5 DEF GetCodeChallenge, GetCodeChallengeMethod, ConfirmRedirectUri
  <2>2. ASSUME NEW pc \in {"method", "uri", "save"}, Goto(r, pc) PROVE req'[r].pc = pc
    <3>1. req'[r] = [req[r] EXCEPT !.pc = pc]
      BY <2>2, GotoFacts
    <3>2. QED
      BY <1>1, <3>1 DEF Local
  <2>3. QED
    BY <2>1, <2>2, RefuseFacts DEF Claims, Idle
<1>6. CASE SaveBearerToken(r)
  <2>1. req'[r].pc = "spend"
    BY <1>1, <1>6 DEF SaveBearerToken, TypeOK, Local
  <2>2. QED
    BY <2>1 DEF Claims
<1>7. QED
  BY <1>2, <1>3, <1>4, <1>5, <1>6, WorkerHistory

(* Answers change only where a claim is delivered, and the claim ends.     *)
LEMMA AnswerHistory ==
  ASSUME TypeOK, [Next]_vars, NEW c \in Codes, answers'[c] # answers[c]
  PROVE  \E r \in Requests :
           /\ Claims(r, c) /\ ~Claims(r, c)'
           /\ answers'[c] = answers[c] \union {req[r].pair}
           /\ stored' = stored /\ issued' = issued
<1>1. CASE \E r \in Requests : Deliver(r)
  <2>1. PICK r \in Requests : Deliver(r)
    BY <1>1
  <2>2. req'[r].pc = "idle"
    BY <2>1, RefuseFacts DEF Deliver, Idle
  <2>3. /\ req[r].pc = "deliver"
        /\ answers' = [answers EXCEPT ![req[r].code] = @ \union {req[r].pair}]
    BY <2>1 DEF Deliver
  <2>4. req[r].code = c
    BY <2>3 DEF TypeOK
  <2>5. answers'[c] = answers[c] \union {req[r].pair}
    BY <2>3, <2>4 DEF TypeOK
  <2>6. QED
    BY <2>1, <2>2, <2>3, <2>4, <2>5 DEF Claims, Deliver
<1>2. CASE ~\E r \in Requests : Deliver(r)
  <2>1. answers' = answers
    BY <1>2, StepWrites
  <2>2. QED
    BY <2>1
<1>3. QED
  BY <1>1, <1>2

LEMMA OneClaimStep ==
  TypeOK /\ Exchanges /\ OneClaim /\ [Next]_vars => OneClaim'
<1> SUFFICES ASSUME TypeOK, Exchanges, OneClaim, [Next]_vars PROVE OneClaim'
  OBVIOUS
<1>1. ASSUME NEW r \in Requests, InvalidateAuthorizationCode(r), NEW s \in Requests \ {r}
      PROVE  req'[s] = req[s]
  BY <1>1, GotoFacts, RefuseFacts DEF InvalidateAuthorizationCode
<1>2. ASSUME NEW r \in Requests, InvalidateAuthorizationCode(r), NEW c \in Codes,
             Claims(r, c)', NEW s \in Requests, Claims(s, c)'
      PROVE  r = s
  <2>1. req[r].pc = "spend"
    BY <1>2 DEF InvalidateAuthorizationCode
  <2>2. c \in stored
    BY <1>2, <2>1, ClaimHistory DEF Claims
  <2>3. s # r => Claims(s, c)
    BY <1>1, <1>2 DEF Claims
  <2>4. QED
    BY <2>2, <2>3 DEF OneClaim
<1>3. ASSUME NEW r \in Requests, NEW s \in Requests, NEW c \in Codes,
             Claims(r, c)', Claims(s, c)'
      PROVE  r = s
  <2>1. CASE Claims(r, c) /\ Claims(s, c)
    BY <2>1 DEF OneClaim
  <2>2. CASE InvalidateAuthorizationCode(r) \/ InvalidateAuthorizationCode(s)
    BY <1>2, <1>3, <2>2
  <2>3. QED
    BY <1>3, <2>1, <2>2, ClaimHistory
<1>4. ASSUME NEW r \in Requests, NEW c \in Codes, Claims(r, c)'
      PROVE  c \notin stored' /\ answers'[c] = {}
  <2>1. CASE Claims(r, c)
    <3>1. req[r].pc # "idle" /\ req[r].code = c
      BY <2>1 DEF Claims
    <3>2. c \in issued
      BY <3>1 DEF Exchanges, Checked
    <3>3. c \notin stored'
      BY <2>1, <3>2, CodeHistory DEF OneClaim
    <3>4. ASSUME NEW s \in Requests, Claims(s, c) PROVE s = r
      BY <2>1, <3>4 DEF OneClaim
    <3>5. answers'[c] = answers[c]
      BY <1>4, <3>4, AnswerHistory
    <3>6. QED
      BY <2>1, <3>3, <3>5 DEF OneClaim
  <2>2. CASE InvalidateAuthorizationCode(r) /\ req[r].code = c /\ c \in stored
    <3>1. ~Refuse(r)
      BY <1>4, RefuseFacts DEF Claims, Idle
    <3>2. stored' = stored \ {c} /\ answers' = answers
      BY <2>2, <3>1 DEF InvalidateAuthorizationCode
    <3>3. QED
      BY <2>2, <3>2 DEF OneClaim
  <2>3. QED
    BY <1>4, <2>1, <2>2, ClaimHistory
<1>5. ASSUME NEW c \in Codes, c \in stored' \/ c \notin issued' PROVE answers'[c] = {}
  <2>1. answers[c] = {}
    <3>1. CASE c \in issued
      BY <1>5, <3>1, CodeHistory DEF OneClaim
    <3>2. CASE c \notin issued
      BY <3>2 DEF OneClaim
    <3>3. QED
      BY <3>1, <3>2
  <2>2. answers'[c] = answers[c]
    <3>1. SUFFICES ASSUME answers'[c] # answers[c] PROVE FALSE
      OBVIOUS
    <3>2. PICK r \in Requests : Claims(r, c) /\ stored' = stored /\ issued' = issued
      BY <3>1, AnswerHistory
    <3>3. req[r].pc # "idle" /\ req[r].code = c
      BY <3>2 DEF Claims
    <3>4. c \in issued
      BY <3>3 DEF Exchanges, Checked
    <3>5. QED
      BY <1>5, <3>2, <3>4 DEF OneClaim
  <2>3. QED
    BY <2>1, <2>2
<1>6. QED
  BY <1>3, <1>4, <1>5 DEF OneClaim

LEMMA OneClaimInit == Init => OneClaim
  BY DEF Init, OneClaim, Claims, Idle

LEMMA AnsweredStep ==
  TypeOK /\ OneClaim /\ AnsweredOnce /\ [Next]_vars => AnsweredOnce'
<1> SUFFICES ASSUME TypeOK, OneClaim, AnsweredOnce, [Next]_vars, NEW c \in Codes
             PROVE  \A p, q \in answers'[c] : p = q
  BY DEF AnsweredOnce
<1>1. CASE answers'[c] = answers[c]
  BY <1>1 DEF AnsweredOnce
<1>2. CASE answers'[c] # answers[c]
  <2>1. PICK r \in Requests : Claims(r, c) /\ answers'[c] = answers[c] \union {req[r].pair}
    BY <1>2, AnswerHistory
  <2>2. answers[c] = {}
    BY <2>1 DEF OneClaim
  <2>3. QED
    BY <2>1, <2>2
<1>3. QED
  BY <1>1, <1>2

(* However many requests race for a code, and wherever they die, only one  *)
(* hands tokens to a client.                                               *)
THEOREM AnsweredOnceTheorem == Spec => []AnsweredOnce
<1>1. Init => TypeOK /\ Exchanges /\ OneClaim /\ AnsweredOnce
  BY TypeInit, ExchangesInit, OneClaimInit DEF Init, AnsweredOnce
<1>2. TypeOK /\ Exchanges /\ OneClaim /\ AnsweredOnce /\ [Next]_vars
      => (TypeOK /\ Exchanges /\ OneClaim /\ AnsweredOnce)'
  BY TypeStep, ExchangesStep, OneClaimStep, AnsweredStep
<1>3. QED
  BY <1>1, <1>2, PTL DEF Spec

-----------------------------------------------------------------------------
(* A spent code: no worker can come to hold it again.                      *)
LEMMA SpentWorker ==
  ASSUME TypeOK, [Next]_vars, NEW c \in Codes, Spent(c), NEW r \in Requests, req'[r].code = c
  PROVE  req'[r].pc \in {"spend", "deliver"}
<1>1. req[r] \in Local
  BY DEF TypeOK
<1>2. req[r].code = c => req[r].pc \in {"spend", "deliver"}
  BY DEF Spent
<1>3. CASE req'[r] = req[r]
  BY <1>2, <1>3
<1>4. CASE req'[r] = Idle
  BY <1>4, CodeAssumption DEF Idle
<1>5. ASSUME NEW d \in Codes, NEW client \in Clients, NEW uri \in Uris,
             NEW verifier \in Verifiers \union {Null}, ValidateCode(r, d, client, uri, verifier)
      PROVE  FALSE
  <2>1. req'[r].code = d
    BY <1>5 DEF TypeOK, ValidateCode
  <2>2. c \in stored /\ ~(now >= grant[c].expires)
    BY <1>5, <2>1 DEF ValidateCode, Found, Expired
  <2>3. grant[c].expires \in Int /\ now \in Int
    BY CodeAssumption DEF TypeOK, Grant, Time
  <2>4. QED
    BY <2>2, <2>3 DEF Spent
<1>6. ASSUME NEW pc \in {"challenge", "method", "uri", "save", "spend", "deliver"}, Goto(r, pc)
      PROVE  req'[r].pc = pc /\ req[r].code = c
  <2>1. req'[r] = [req[r] EXCEPT !.pc = pc]
    BY <1>6, GotoFacts
  <2>2. QED
    BY <1>1, <2>1 DEF Local
<1>7. ASSUME Refuse(r) PROVE FALSE
  BY <1>7, RefuseFacts, CodeAssumption DEF Idle
<1>8. CASE GetCodeChallenge(r) \/ GetCodeChallengeMethod(r) \/ ConfirmRedirectUri(r)
  <2>1. req[r].pc \in {"challenge", "method", "uri"}
    BY <1>8 DEF GetCodeChallenge, GetCodeChallengeMethod, ConfirmRedirectUri
  <2>2. \E pc \in {"method", "uri", "save"} : Goto(r, pc)
    BY <1>7, <1>8 DEF GetCodeChallenge, GetCodeChallengeMethod, ConfirmRedirectUri
  <2>3. QED
    BY <1>2, <1>6, <2>1, <2>2
<1>9. CASE SaveBearerToken(r)
  BY <1>1, <1>9 DEF SaveBearerToken, TypeOK, Local
<1>10. CASE InvalidateAuthorizationCode(r)
  BY <1>6, <1>7, <1>10 DEF InvalidateAuthorizationCode
<1>11. QED
  BY <1>3, <1>4, <1>5, <1>8, <1>9, <1>10, WorkerHistory

LEMMA SpentStep ==
  ASSUME TypeOK, [Next]_vars, NEW c \in Codes, Spent(c)
  PROVE  Spent(c)' /\ PairsOf(c)' = PairsOf(c)
<1>1. now \in Int /\ grant[c].expires \in Int
  BY CodeAssumption DEF TypeOK, Grant, Time
<1>2. now' = now \/ now' = now + 1
  BY StepWrites
<1>3. /\ c \in issued' /\ grant'[c] = grant[c]
      /\ c \in stored' => c \in stored
  BY CodeHistory DEF Spent
<1>4. c \in stored' => grant'[c].expires =< now'
  BY <1>1, <1>2, <1>3 DEF Spent
<1>5. Spent(c)'
  BY <1>3, <1>4, SpentWorker DEF Spent
<1>6. ASSUME NEW r \in Requests, SaveBearerToken(r) PROVE PairsOf(c)' = PairsOf(c)
  <2>1. req[r].code # c
    BY <1>6 DEF SaveBearerToken, Spent
  <2>2. nextPair \in Int /\ nextPair' = nextPair + 1
    BY <1>6 DEF SaveBearerToken, Pairs
  <2>3. pair'[nextPair].code = req[r].code
    BY <1>6 DEF TypeOK, SaveBearerToken
  <2>4. \A p \in Pairs : p # nextPair => pair'[p] = pair[p]
    BY <1>6 DEF TypeOK, SaveBearerToken
  <2>5. \A p \in Pairs : p < nextPair' /\ pair'[p].code = c <=> p < nextPair /\ pair[p].code = c
    BY <2>1, <2>2, <2>3, <2>4 DEF Pairs
  <2>6. QED
    BY <2>5 DEF PairsOf
<1>7. ASSUME pair' = pair, nextPair' = nextPair PROVE PairsOf(c)' = PairsOf(c)
  BY <1>7 DEF PairsOf
<1>8. QED
  BY <1>5, <1>6, <1>7, PairHistory

(* A spent code stays spent and buys no further tokens, whatever the       *)
(* workers that once validated it still do.                                *)
THEOREM SpentTheorem == Spec => SpentStaysSpent
<1>1. TypeOK /\ [Next]_vars
      => [\A c \in Codes : Spent(c) => Spent(c)' /\ PairsOf(c)' = PairsOf(c)]_vars
  BY SpentStep
<1>2. QED
  BY <1>1, CodeTypes, PTL DEF Spec, SpentStaysSpent

-----------------------------------------------------------------------------
(* The phases of a code.                                                   *)
LEMMA Phases ==
  ASSUME NEW c \in Codes
  PROVE  /\ c \notin issued => Phase(c) = "unissued"
         /\ c \in issued /\ c \in stored => Phase(c) = "valid"
         /\ c \in issued /\ c \notin stored /\ answers[c] # {} => Phase(c) = "answered"
         /\ /\ c \in issued /\ c \notin stored /\ answers[c] = {}
            /\ \E r \in Requests : Claims(r, c)
            => Phase(c) = "claimed"
         /\ /\ c \in issued /\ c \notin stored /\ answers[c] = {}
            /\ ~\E r \in Requests : Claims(r, c)
            => Phase(c) = "dead"
  BY DEF Phase, Claims

(* A claim lasts until it is delivered or its worker dies.                 *)
LEMMA ClaimStays ==
  ASSUME TypeOK, [Next]_vars, NEW r \in Requests, NEW c \in Codes,
         Claims(r, c), ~Deliver(r), ~Crash(r)
  PROVE  Claims(r, c)'
<1>1. CASE req'[r] = req[r]
  BY <1>1 DEF Claims
<1>2. ASSUME NEW s \in Requests, s # r, Serve(s) PROVE req'[r] = req[r]
  BY <1>2 DEF TypeOK, Serve, ValidateCode, GetCodeChallenge, GetCodeChallengeMethod,
     ConfirmRedirectUri, SaveBearerToken, InvalidateAuthorizationCode, Deliver, Crash,
     Goto, Refuse
<1>3. ~Serve(r)
  BY DEF Serve, Claims, ValidateCode, GetCodeChallenge, GetCodeChallengeMethod,
     ConfirmRedirectUri, SaveBearerToken, InvalidateAuthorizationCode
<1>4. CASE ~\E s \in Requests : Serve(s)
  BY <1>1, <1>4 DEF Next, vars, Tick, Authorize, Allow, AutoApprove, CreateCode, ClearExpired,
     RevokePair
<1>5. QED
  BY <1>1, <1>2, <1>3, <1>4

(* A step that leaves issued, stored, answers and the claims of a code     *)
(* alone leaves it in its phase.                                           *)
SamePhase(c) ==
  /\ c \in issued' <=> c \in issued
  /\ c \in stored' <=> c \in stored
  /\ answers'[c] = answers[c]
  /\ (\E r \in Requests : Claims(r, c)') <=> (\E r \in Requests : Claims(r, c))

LEMMA SamePhaseStep ==
  ASSUME NEW c \in Codes, SamePhase(c)
  PROVE  Phase(c)' = Phase(c)
  BY DEF SamePhase, Phase, Claims

LEMMA MoveStep ==
  ASSUME NEW c \in Codes, NEW from, NEW to, Phase(c) = from, Phase(c)' = to,
         \A d \in Codes \ {c} : Phase(d)' = Phase(d)
  PROVE  Lifecycle!Move(c, from, to)
  BY DEF Lifecycle!Move

(* A step after which every code is in the phase it was in.                *)
Quiet == \A c \in Codes : SamePhase(c)

LEMMA QuietStep == Quiet => UNCHANGED [c \in Codes |-> Phase(c)]
<1> SUFFICES ASSUME Quiet PROVE UNCHANGED [c \in Codes |-> Phase(c)]
  OBVIOUS
<1>1. \A c \in Codes : Phase(c)' = Phase(c)
  BY SamePhaseStep DEF Quiet
<1>2. QED
  BY <1>1

(* While nobody deletes a code, answers or dies, claims come and go only   *)
(* if some worker does one of these.                                       *)
LEMMA ClaimsKept ==
  ASSUME TypeOK, [Next]_vars, NEW r \in Requests, NEW c \in Codes,
         ~Deliver(r), ~Crash(r),
         ~(InvalidateAuthorizationCode(r) /\ req[r].code = c /\ c \in stored)
  PROVE  Claims(r, c)' <=> Claims(r, c)
  BY ClaimHistory, ClaimStays

LEMMA CreateRefines ==
  ASSUME TypeOK, Exchanges, OneClaim, NEW c \in Codes, NEW client \in Clients, NEW uri \in Uris,
         NEW challenge \in Verifiers \union {Null}, NEW scope \in SUBSET Scopes,
         CreateCode(c, client, uri, challenge, scope)
  PROVE  Lifecycle!Issue(c)
<1>1. req' = req /\ answers' = answers
  BY DEF CreateCode
<1>2. ASSUME NEW d \in Codes \ {c} PROVE Phase(d)' = Phase(d)
  <2>1. SamePhase(d)
    BY <1>1 DEF SamePhase, CreateCode, Claims
  <2>2. QED
    BY <2>1, SamePhaseStep
<1>3. Phase(c) = "unissued"
  BY Phases DEF CreateCode
<1>4. Phase(c)' = "valid"
  BY DEF CreateCode, Phase
<1>5. QED
  BY <1>2, <1>3, <1>4, MoveStep DEF Lifecycle!Issue

LEMMA InvalidateRefines ==
  ASSUME TypeOK, Exchanges, OneClaim, [Next]_vars, NEW r \in Requests,
         InvalidateAuthorizationCode(r)
  PROVE  Quiet \/ \E c \in Codes : Lifecycle!Claim(c)
<1>1. /\ req[r].pc = "spend" /\ issued' = issued /\ answers' = answers
      /\ \/ /\ req[r].code \in stored /\ stored' = stored \ {req[r].code}
            /\ Goto(r, "deliver")
         \/ stored' = stored /\ Refuse(r)
  BY DEF InvalidateAuthorizationCode, Found
<1>2. PICK c \in issued : c = req[r].code
  BY <1>1 DEF Exchanges, Checked
<1>3. c \in Codes
  BY DEF TypeOK
<1>4. ASSUME NEW s \in Requests, s # r, NEW d \in Codes
      PROVE  Claims(s, d)' <=> Claims(s, d)
  <2>1. req'[s] = req[s]
    BY <1>1, <1>4, GotoFacts, RefuseFacts
  <2>2. QED
    BY <2>1 DEF Claims
<1>5. CASE stored' = stored /\ Refuse(r)
  <2>1. req'[r].pc = "idle"
    BY <1>5, RefuseFacts DEF Idle
  <2>2. \A d \in Codes : ~Claims(r, d) /\ ~Claims(r, d)'
    BY <1>1, <2>1 DEF Claims
  <2>3. Quiet
    BY <1>1, <1>4, <1>5, <2>2 DEF Quiet, SamePhase
  <2>4. QED
    BY <2>3
<1>6. CASE c \in stored /\ stored' = stored \ {c} /\ Goto(r, "deliver")
  <2>1. req'[r] = [req[r] EXCEPT !.pc = "deliver"] /\ req[r] \in Local
    BY <1>6, GotoFacts DEF TypeOK
  <2>2. req'[r].pc = "deliver" /\ req'[r].code = c
    BY <1>2, <2>1 DEF Local
  <2>3. Claims(r, c)' /\ \A d \in Codes \ {c} : ~Claims(r, d) /\ ~Claims(r, d)'
    BY <1>1, <1>2, <2>2 DEF Claims
  <2>4. ASSUME NEW d \in Codes \ {c} PROVE Phase(d)' = Phase(d)
    <3>1. SamePhase(d)
      BY <1>1, <1>4, <1>6, <2>3 DEF SamePhase
    <3>2. QED
      BY <3>1, SamePhaseStep
  <2>5. Phase(c) = "valid"
    BY <1>3, <1>6, Phases
  <2>6. answers'[c] = {}
    BY <1>3, <1>1, <1>6 DEF OneClaim
  <2>7. Phase(c)' = "claimed"
    BY <1>1, <1>2, <1>6, <2>2, <2>6 DEF Phase
  <2>8. Lifecycle!Claim(c)
    BY <1>3, <2>4, <2>5, <2>7, MoveStep DEF Lifecycle!Claim
  <2>9. QED
    BY <1>3, <2>8
<1>7. QED
  BY <1>1, <1>2, <1>5, <1>6

(* The worker that claims c ends: c is answered or lost.                   *)
LEMMA EndRefines ==
  ASSUME TypeOK, Exchanges, OneClaim, NEW r \in Requests, NEW c \in Codes, Claims(r, c),
         Refuse(r), UNCHANGED <<issued, stored>>,
         \A d \in Codes \ {c} : answers'[d] = answers[d]
  PROVE  Lifecycle!Answer(c) \/ Lifecycle!Lose(c)
<1>1. c \in issued /\ c \notin stored /\ answers[c] = {}
  BY DEF Exchanges, Checked, OneClaim, Claims
<1>2. req'[r].pc = "idle" /\ \A s \in Requests \ {r} : req'[s] = req[s]
  BY RefuseFacts DEF Idle
<1>3. \A s \in Requests : ~Claims(s, c)'
  BY <1>2 DEF OneClaim, Claims
<1>4. ASSUME NEW d \in Codes \ {c} PROVE Phase(d)' = Phase(d)
  <2>1. ASSUME NEW s \in Requests PROVE Claims(s, d)' <=> Claims(s, d)
    BY <1>2 DEF Claims
  <2>2. SamePhase(d)
    BY <2>1 DEF SamePhase
  <2>3. QED
    BY <2>2, SamePhaseStep
<1>5. Phase(c) = "claimed"
  BY <1>1, Phases
<1>6. Phase(c)' = "answered" \/ Phase(c)' = "dead"
  BY <1>1, <1>3 DEF Phase, Claims
<1>7. QED
  BY <1>4, <1>5, <1>6, MoveStep DEF Lifecycle!Answer, Lifecycle!Lose

LEMMA ExpireRefines ==
  ASSUME TypeOK, Exchanges, OneClaim, NEW c \in Codes, ClearExpired(c)
  PROVE  Lifecycle!Expire(c)
<1>1. /\ c \in stored /\ stored' = stored \ {c}
      /\ issued' = issued /\ answers' = answers /\ req' = req
  BY DEF ClearExpired
<1>2. c \in issued /\ answers[c] = {} /\ \A r \in Requests : ~Claims(r, c)
  BY <1>1 DEF Exchanges, OneClaim
<1>3. ASSUME NEW d \in Codes \ {c} PROVE Phase(d)' = Phase(d)
  <2>1. SamePhase(d)
    BY <1>1 DEF SamePhase, Claims
  <2>2. QED
    BY <2>1, SamePhaseStep
<1>4. Phase(c) = "valid"
  BY <1>1, <1>2, Phases
<1>5. Phase(c)' = "dead"
  BY <1>1, <1>2 DEF Phase, Claims
<1>6. QED
  BY <1>3, <1>4, <1>5, MoveStep DEF Lifecycle!Expire

LEMMA LifecycleStep ==
  TypeOK /\ Exchanges /\ OneClaim /\ [Next]_vars => [Lifecycle!Next]_[c \in Codes |-> Phase(c)]
<1> SUFFICES ASSUME TypeOK, Exchanges, OneClaim, [Next]_vars
             PROVE  Lifecycle!Next \/ Quiet
  BY QuietStep
<1>1. CASE Authorize
  <2>1. PICK c \in Codes, client \in Clients, uri \in Uris,
             challenge \in Verifiers \union {Null}, scope \in SUBSET Scopes :
             CreateCode(c, client, uri, challenge, scope)
    BY <1>1 DEF Authorize, Allow, AutoApprove
  <2>2. QED
    BY <2>1, CreateRefines DEF Lifecycle!Next
<1>2. ASSUME NEW r \in Requests, InvalidateAuthorizationCode(r) PROVE Lifecycle!Next \/ Quiet
  BY <1>2, InvalidateRefines DEF Lifecycle!Next
<1>3. ASSUME NEW r \in Requests, Deliver(r) PROVE Lifecycle!Next
  <2>1. req[r].pc = "deliver" /\ Refuse(r) /\ UNCHANGED <<issued, stored>>
    BY <1>3 DEF Deliver
  <2>2. PICK c \in Codes : c = req[r].code
    BY <2>1 DEF Exchanges, Checked, TypeOK
  <2>3. Claims(r, c)
    BY <2>1, <2>2 DEF Claims
  <2>4. \A d \in Codes \ {c} : answers'[d] = answers[d]
    BY <1>3, <2>2 DEF TypeOK, Deliver
  <2>5. QED
    BY <2>1, <2>2, <2>3, <2>4, EndRefines DEF Lifecycle!Next
<1>4. ASSUME NEW r \in Requests, Crash(r) PROVE Lifecycle!Next \/ Quiet
  <2>1. /\ req[r].pc # "idle" /\ Refuse(r)
        /\ UNCHANGED <<issued, stored, answers>>
    BY <1>4 DEF Crash
  <2>2. PICK c \in Codes : c = req[r].code
    BY <2>1 DEF Exchanges, Checked, TypeOK
  <2>3. CASE req[r].pc = "deliver"
    <3>1. Claims(r, c)
      BY <2>2, <2>3 DEF Claims
    <3>2. QED
      BY <2>1, <2>2, <3>1, EndRefines DEF Lifecycle!Next
  <2>4. CASE req[r].pc # "deliver"
    <3>1. ASSUME NEW s \in Requests, NEW d \in Codes PROVE Claims(s, d)' <=> Claims(s, d)
      BY <2>1, <2>4, RefuseFacts DEF Claims, Idle
    <3>2. Quiet
      BY <2>1, <3>1 DEF Quiet, SamePhase
    <3>3. QED
      BY <3>2
  <2>5. QED
    BY <2>3, <2>4
<1>5. ASSUME NEW c \in Codes, ClearExpired(c) PROVE Lifecycle!Next
  BY <1>5, ExpireRefines DEF Lifecycle!Next
<1>6. CASE /\ ~Authorize /\ ~\E c \in Codes : ClearExpired(c)
           /\ ~\E r \in Requests : InvalidateAuthorizationCode(r) \/ Deliver(r) \/ Crash(r)
  <2>1. UNCHANGED <<issued, stored, answers>>
    BY <1>6 DEF Next, vars, Tick, Serve, ValidateCode, GetCodeChallenge,
       GetCodeChallengeMethod, ConfirmRedirectUri, SaveBearerToken, RevokePair
  <2>2. ASSUME NEW r \in Requests, NEW c \in Codes PROVE Claims(r, c)' <=> Claims(r, c)
    BY <1>6, ClaimsKept
  <2>3. Quiet
    BY <2>1, <2>2 DEF Quiet, SamePhase
  <2>4. QED
    BY <2>3
<1>7. QED
  BY <1>1, <1>2, <1>3, <1>4, <1>5, <1>6

LEMMA LifecycleInit == Init => Lifecycle!Init
<1> SUFFICES ASSUME Init PROVE Lifecycle!Init
  OBVIOUS
<1>1. \A c \in Codes : Phase(c) = "unissued"
  BY Phases DEF Init
<1>2. QED
  BY <1>1 DEF Lifecycle!Init

(* The exchange, with its separate queries, its two commits, crashes and   *)
(* clean-up, implements the abstract life of a code: one claim for each    *)
(* code, and at most one answer for each claim.                            *)
THEOREM CodeRefinement == Spec => ImplementsLifecycle
<1>1. Init => TypeOK /\ Exchanges /\ OneClaim /\ Lifecycle!Init
  BY TypeInit, ExchangesInit, OneClaimInit, LifecycleInit
<1>2. TypeOK /\ Exchanges /\ OneClaim /\ [Next]_vars => (TypeOK /\ Exchanges /\ OneClaim)'
  BY TypeStep, ExchangesStep, OneClaimStep
<1>3. TypeOK /\ Exchanges /\ OneClaim /\ [Next]_vars
      => [Lifecycle!Next]_[c \in Codes |-> Phase(c)]
  BY LifecycleStep
<1>4. QED
  BY <1>1, <1>2, <1>3, PTL DEF Spec, ImplementsLifecycle, Lifecycle!Spec
=============================================================================
