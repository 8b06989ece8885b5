# A formal model of Django OAuth Toolkit

`src/oauth2_provider` is an OAuth2 and OpenID Connect provider for Django. The
protocol engine (oauthlib) calls a request validator; the validator and a few
views read and write tokens, codes and device grants in a SQL database. All
state that matters is in that database, several worker processes serve requests
over it at once, and most handlers make several queries without a transaction
around them. What the handlers may do to each other between two queries is what
these modules are about.

## Inventory

| Part | State it keeps | Operations | Hard behaviour |
|---|---|---|---|
| Refresh tokens (`oauth2_validators.py`, `models.py`) | rows of RefreshToken and AccessToken and the links between them | `validate_refresh_token`, `get_original_scopes`, `save_bearer_token`, `revoke_token`, both `revoke` methods | stale copies, row locks, the grace period, reuse detection, retries |
| Authorization codes (`views/base.py`, `oauth2_validators.py`) | rows of Grant | authorize form, automatic approval, the five queries of an exchange, `invalidate_authorization_code` | tokens are committed before the code is deleted; crashes, expiry, racing exchanges |
| Device grants (`views/device.py`, `views/base.py`, `utils.py`) | rows of DeviceGrant | device authorization, user-code form, confirm form, polls | several users and forms at once, single-column saves of stale copies, deadlines |
| Revocation endpoint | none of its own | `revoke_token` | runs against rotations in flight |
| Clean-up (`clear_expired`) | deletes rows of five tables | batches of ids read in advance | stale id lists, cascades, the end of the loop |
| Bearer validation and introspection cache | cached AccessToken rows of a resource server | `validate_bearer_token`, `_get_token_from_authentication_server` | answers applied out of order, rows that outlive a revocation |
| Decorators, mixins, REST framework authentication and permissions | the scope list of `rw_protected_resource` | checks before a view | state shared by requests, a row judged twice |
| RP-initiated logout (`views/oidc.py`) | deletes tokens of a user | the GET, the form, `do_logout` | no transaction over the whole, lists read in advance |
| Applications and their pages | rows of Application | registration, update, deletion, `clean` | edits under requests that loaded the row |
| Client authentication | the application a request has cached | `client_authentication_required`, `authenticate_client`, `authenticate_client_id`, `validate_grant_type` | a cached row, two sets of credentials in one request |
| Redirect URI and origin matching | none | `redirect_to_uri_allowed`, `is_origin_allowed`, `AllowedURIValidator` | wildcards, loopback, queries; a form posted long after it was validated |
| OpenID claims and discovery, parsing in the oauthlib bridge, settings, admin | - | formatting, signing, forms over one row | none between requests |

The parts interact through the rows only: an exchange, a device poll and a
rotation all end in `save_bearer_token`; revocation, logout and clean-up delete
or stamp what it wrote; bearer validation reads it. `PROJECT.json` lists each
part with its status, and every hazard at the line where it bites.

What makes the parts correct:

* refresh tokens: a token is spent before its successor exists, has one
  successor, and takes its access token with it; revocation is final; a dead
  session stays dead; scopes never widen; requests end;
* codes: one answer for each code; tokens match what the code was issued for;
  automatic approval never exceeds a consent the user gave;
* device grants: tokens belong to a user who entered the code of that device;
  a decided grant stays decided; an approved device is served;
* clean-up: only rows whose time is over, nothing left behind, and an end;
* cache: a token opens a view only while a recent answer vouches for it;
* protected views: no token without every scope the view and the method need;
* logout: none of the pairs the user had when it began is left;
* client authentication: one row of the client presented justifies the decision;
* redirects: codes and errors go where the application let them go.

## Modules

`RefreshTokens` is the core. An action is one transaction, or one query outside
a transaction, so `validate_refresh_token`, `get_original_scopes` and
`save_bearer_token` are three steps of a worker, and `save_bearer_token` is
split again at its `select_for_update`. `rt` and `at` are the columns of the two
tables, `rtRows` and `atRows` the rows that exist, `req` what a worker remembers
(a copy of `refresh_token_instance`, that may be stale), `reply` the answer it
sends. `GraceOver`, `StartSweep`, `SweepStep` and `SweepDone` are the reuse
detection; `ReuseAccessToken` is the branch for rotation switched off,
`LockInstance`, `CreatePair` and `ReturnExisting` the other one; `Deliver` is the
view's last read of the access token; `Abort` is a dead worker or a rollback.
`granted` and `ended` are history. The revocation endpoint is
`RevokeRefreshToken` and `RevokeAccessToken`.

`RefreshLifecycle` says what the tables promise without workers, locks and
copies: a token is unissued, live, revoked, in that order; a bearer exists only
while its token is live; a token has one successor with a bearer at a time.
`RefreshTokens` implements it under the mapping at its end.

`AuthorizationCode` has one action for the authorize form, one for automatic
approval, and one for each query of the exchange, in the order oauthlib calls
the validator. `stored` and `grant` are the grant table, `pairs` and `pair` the
committed tokens with what their request had presented, `answers` what clients
received. `Crash` may hit between any two queries, `ClearExpired` and
`RevokePair` delete rows under a running exchange. oauthlib itself is external:
its order of calls and its comparison of the PKCE verifier are modelled from
the hooks the validator implements for it. `CodeLifecycle` is the abstract
promise: one claim for each code, at most one answer for each claim.

`DeviceFlow` has one action for each read and each save of the two forms and of
a poll. `grant` is the table, `browser` and `poller` the copies requests hold.
The save of `is_expired` writes one column of an old copy, which is why it is
an action apart from the read. So may the confirm form of a second user decide
after the first: `DecisionStands` says how far that goes, namely that a decision is
overturned only by forms that had read the grant pending, each of them once, and by
a stale expiry only past the deadline.

`ResourceServer` is a protected view in front of the cache that introspection
fills, one thread for each request. `cache` is the table of the resource server's
AccessTokens, `active` the tokens whose row the authorization server has. A
thread looks its row up, asks the authorization server, and applies the answer,
which is made when that server looks (`Answer`), is applied later (`Receive`) or
is lost (`LoseAnswer`). Then the view decides by the operators of `AccessRules`:
the two decorators, the mixins and the five REST framework permission classes,
each in its own words. `kept` is the scope list that `rw_protected_resource` keeps
between requests, `doomed` the rows that `clear_expired` has selected and not yet
deleted. `vouched` is history: when an active answer about a token last arrived.
`TokenLease` is the abstract promise: the authorization server vouches for a token
it stands behind, an answer that arrives gives the token a lease of at most
`CachingSeconds`, a request is let in while the lease runs, and nothing else moves
a lease. It knows no rows, no copies of them, no views and no positions of threads.
`ResourceServer` implements it; the lease of a token is computed from `vouched` and
from the expiry the answers state.

`TokenTables` has the access, refresh and ID token tables with their foreign
keys, and the token and revocation endpoints as one transaction each: their
inside is the subject of `RefreshTokens`. An ID token is committed before its
access token, so there is a step between, and `Abandon` is a worker that dies
there. Time may pass in that step: `Loads` accepts the ID token until `Leeway` (the
60 seconds jwcrypto allows, `tests/conftest.py:236`) after its expiry, so an ID token
that the command has read as expired and unlinked may be linked before it is deleted,
and then takes the new access token with it (`Cascade`). `ClearExpired` is the command: four queries, each a loop of reading a
batch of keys and deleting them. `Logout` is the logout view of each tab of a
browser: the GET, the form, and `do_logout`, with a step for each list it reads
and each row it deletes or revokes; `owed` and the field `listed` are history, the
pairs there were when `do_logout` began and the access tokens it read. `SessionEnd` composes the three over the
same tables.

`Matching` is what a registered URI lets through and what `clean` accepts, on
URIs split into their parts. `ClientRequests` composes it with the token
endpoint, which finds out who the client is in several loads of the
application, with the authorization endpoint, which validates a request when it
shows the form and once more when the form is posted, and with owners who edit
and delete applications in between. `seen` is history: the rows each client_id
has had since a request began.

The `MC` modules add symmetry sets and the values of the constants; the
`...Proofs` modules have the theorems. Operators named `Faulty...` are
definitions with one plausible bug; no specification uses them, they are
substituted to see that a property notices the bug.

## Runs

| Run | Shows |
|---|---|
| `refresh_rotate` | rotation with reuse protection and a grace period: links, single successor, revocation final, dead families, usable answers, refinement, every request ends |
| `refresh_reuse` | rotation off: access tokens renewed in place from stale copies; scopes never widen, no access token without a live refresh token |
| `reuse_protection` | violated: a rotation between validation and its lock commits a live pair after the sweep, so reuse does not end the session as `docs/settings.rst` says |
| `non_rotating_reply` | violated: rotation off and the access token revoked, the refresh token in the answer finds the old revoked row |
| `code_exchange` | two exchanges of one code against crashes, expiry and clean-up; refinement of `CodeLifecycle` |
| `code_consent` | two codes in a row, automatic approval, a trusted client: scopes do not creep beyond a consent |
| `device_grants` | two devices with one user code, two users, two browsers, one poller: tokens for users who entered the code, closed grants stay closed, who may overturn a decision, an approved device is served |
| `device_deadline` | violated: the token endpoint serves an authorized grant past `expires`, the tutorial says `expired_token` |
| `resource_server` | two requests to a view of each kind at a caching resource server, answers late and lost, the token revoked: never under-protected, vouched for by a fresh answer, shut out for good once revoked and run out, refinement of `TokenLease` |
| `rw_scopes` | violated: after one POST the decorator's list keeps the write scope and every later GET needs it |
| `session_end` | token endpoint, clean-up and logout interleave on one set of tables, rotation on and off: foreign keys, no orphan access token, no session cleared early, nothing left behind, logout leaves nothing it saw, the command makes progress and ends |
| `client_requests` | token and authorization requests while applications are edited: authentication rests on one row, redirects on registered URIs, wildcards stay in their domain, on their port and with their query |

### Bounds, and why they suffice

* Two workers: every race in these handlers is between one request's copy and
  one other transaction; the safety results are proved for any number of them.
* `MaxPk` bounds the rows. Three pairs hold a session, its successor and the
  successor of either, or two sessions.
* `refresh_rotate` has a grace period of 1 and `MaxTime` 1: a retry falls within the
  period or on its end, where it is over (`revoked <= now - Grace`). `refresh_reuse`
  and `code_exchange` have `MaxTime` 2 with a grace period or a code life of 1, a
  step before, at and after each boundary. `device_grants` and `code_consent` need
  one step: from within a lifetime to its end.
* `MaxWrites` bounds in-place renewals: one is enough for a copy to be stale.
* `MaxPairs` lets each of two exchanges commit, and one more after a crash.
* Two clients, redirect URIs, verifiers and scopes distinguish right from wrong.
* `device_grants` uses one user code for two devices, which forces the clash.
  One user code or two makes no difference to a device on its own.
* `resource_server`: one token, as nothing in the cache relates two; one view at
  a site, as a list belongs to one view; two requests, which the list and the
  row are shared by; `MaxTime` 3 with a caching limit of 1 and expiries of 1 and
  2 puts steps on both sides of each.
* `session_end`: two token responses, so that a rotation has a successor; one
  account, as the tables meet only by key and account and another's rows are
  left alone; batches of one row, so that every other step may fall between two
  deletions; `MaxTime` 3 is the first at which a refresh token's lifetime of 1
  is over; a `Leeway` of 1 lets an ID token be loaded that is already expired for the
  command. The theorems have no such bounds.
* `client_requests`: one request at a time, since the endpoints share nothing but
  the applications; two client_ids for a header and a body that disagree;
  two edits, so that the row of the middle of a request is neither the first
  nor the last. The URIs are a wildcard that `clean` accepts and one it refuses,
  an exact one with a query, and a loopback address with another port.
* Deadlock is not checked for codes, device grants, the resource server, the
  session's end and client requests: refusals that change no row are no steps
  there, and a run ends when all codes, grants, keys or ticks are used.

Symmetry is used for sets whose members are interchangeable in `Init` and
`Next`, never in a run with a liveness property. `code_consent` excludes clients
from it, as one of them is trusted.

### Fairness

`EveryRequestEnds` assumes that a worker that has begun goes on, and that a
database hands a contended lock to each waiter in turn (strong fairness for the
two steps that wait). `ApprovedIsServed` assumes that the device polls until it
is answered, which is what the protocol asks of it, and that a poll runs to its
end; it excuses a device only when it is served, denied or past its deadline, so
neither a stale expiry before the deadline nor a lost approval is hidden by it.
`CleaningEnds`, which is stated as `[]<>(stage = 0)` since the command may always be
started again, assumes only that cron runs the command (weak fairness of its
steps), against token endpoint and logout that go on or stop as they like.
Nothing is assumed of users, of the clock, or of requests that are not
under way.

## Theorems

`RefreshTokensProofs` proves, for any number of workers, rows and scopes, any
grace period and both settings of rotation and reuse protection:

* `TypeCorrect`, and the invariants `NoOrphanAccess`, `SingleSuccessor` and
  `SourceSpent`;
* the action properties `RevocationFinal` and `DeadFamilyStaysDead`;
* `Refinement`: `Spec` implements `RefreshLifecycle`.

The assumptions are those of `ConstantsAssumption`. None of the invariants is
inductive alone; each theorem adds what its argument needs:

* `InstanceExists`: the row a worker validated, and those its sweep has still to
  do, exist. Types of later answers rest on it.
* `Links` (for `NoOrphanAccess`): a pair shares its key, and an access token
  exists exactly while its refresh token is live and linked to it.
* `LockExclusive` and `StillUnused` (for `SingleSuccessor`): one worker holds the
  lock of a row, and while a worker that found no earlier use holds it, nobody
  makes one. This is the heart of it: the query for the earlier access token is
  made under the lock that everyone who could make another one has to take.
* `SourceRevoked` (for `SourceSpent`): the source of an access token is a
  revoked row of the same family.
* `DeadFamilyStaysDead` rests on what a step may do to one row (`RowHistory`) and
  on how a worker comes to hold a validated row (`WorkerHistory`): only with a
  row that is live or within its grace period, which a dead family has not.

`AuthorizationCodeProofs` proves, for any number of workers and codes, any
lifetimes and both settings of `PKCE_REQUIRED`, from `CodeAssumption`:

* `CodeTypes`; `PairMatchesGrant`, from `Exchanges`: the row of a code is written
  once (`CodeHistory`), so what one query has checked stays true of it when a
  later query runs, also if the row has been deleted since; the position of a
  worker says which checks it has behind it;
* `ConsentBehindEveryCode`, from the former: automatic approval rests on a pair,
  the pair on the scope of its code, and that code on a consent;
* `AnsweredOnce`, from `OneClaim`: whoever deletes the row is the only one to
  claim the code, and nobody has answered before;
* `SpentStaysSpent`, and `CodeRefinement`: `Spec` implements `CodeLifecycle`.

`DeviceFlowProofs` proves, for any number of devices, users, forms and polls,
from `DeviceAssumption`: `DeviceTypes`; `TokenUserEnteredCode`, from
`LinkedUsers` (the user column and every poll's copy of it name a user recorded
for that device); and `ClosedStaysClosed` and `DecisionStands`, from what one step may make of a form
(`BrowserHistory`), of a poll (`PollerHistory`) and of the status.

Three more theorems of `RefreshTokensProofs`:

* `SweepTheorem`, from `SweepProgress` and `EndedBelow`: rows below the mark a
  sweep took at its beginning are dead or still on its list, and no mark is
  beyond the rows that exist, so no later row falls below one;
* `ScopeTheorem`, from `Families`, `TablesWithin` and `WorkersWithin`: the scopes
  in the tables and in the workers' copies are within what the family was
  granted, and a family has one grant;
* `ReplyTheorem`, with `Rotate` assumed (`non_rotating_reply` shows why), from
  `OwnStrings` and `PairCarried`: with rotation on, every row has a string of its
  own, and a worker about to answer carries a pair of one row.

`ResourceServerProofs` proves, for any tokens, requests, views and caching limit:
`ResourceTypes`, from `Typing`: a decorated view's list never loses a declared
scope or the scope of a request under way; `NeverUnderProtectedAlways`,
`VouchedForAlways` and `RevokedStaysOutAlways`, from `Granted`, whose part `Copies`
says that a row, and a thread's copy of one, has the scope the token was issued
with and expires no later than the last active answer allows. Every step is first
shown to do to a request and to a row no more than `Effects` allows. Two more rest
on `Granted`:

* `LeaseRefinement`: `Spec` implements `TokenLease`. A thread that passes holds a row
  that runs out within the lease of its token (`WithinLease`), whichever of the
  stored, copied or rewritten rows it is; every other step is a lost answer, a new
  one, an arrival, or a stutter (the lemmas `Step...`).
* `RevokedRunsOutAlways`: once a token is revoked and no active answer about it is
  under way, its lease is fixed and ends at most `CachingSeconds` from now, and no
  view opens after it. This is what `RESOURCE_SERVER_TOKEN_CACHING_SECONDS` is
  worth to an administrator who revokes a token. It is stated with `Lease` of
  `ResourceServer`, in `ResourceServerProofs`.

`SessionEndProofs` proves, for any number of responses, accounts and tabs, any
lifetimes and any batch size: `SessionTypes`, `NoOrphanBearerAlways`,
`StagesCompleteAlways`, `LogoutRevokesWhatItSawAlways`,
`CleanerSparesSessionsAlways` and `CleaningProgressesAlways`. Every step is first shown to do to each row no more
than `Effects` allows; the invariants follow from that without the actions.
`CleanerReads` says what remains true of a batch between reading and deleting:
a refresh token read as revoked stays so, and with rotation on an access token
read as expired is never renewed. `Found` restates what each finished query
has left: stamps, new access tokens and new ID tokens are of now, which is not
before any limit of the command. The same fact makes `CleaningProgresses`: the rows
a query works on only become fewer, so the command needs no more batches than it
had rows, which is the safety half of `CleaningEnds` for every batch size and number
of rows. `Debt` says that a logout's lists still hold whatever its user's pairs
have left in the tables, `Listed` that what is left of the access tokens it has read
is still to be deleted.

`ClientRequestsProofs` proves, for any applications, requests and number of edits:
`RequestTypes`, `AuthenticatedClientAlways`, from `CachedClient` (the cached row is
one its client_id had since the request began, and the request presented that
id), and `RedirectsWereRegisteredAlways` and `StaysInDomainAlways`, from `Carried`
(what the form carries was allowed when it was shown). They rest on `TargetAllowed`: the URI that is
chosen when the request names none is let through by the application's own
list, which for a wildcard is a fact about reversed sequences.

`MatchingProofs` has the lemmas about hosts that `StaysInDomainAlways` needs, up to
`MatchStaysInDomain`: a host that a wildcard lets through ends in all that follows
the wildcard (`TailIsSuffix`), a point of a suffix has as many dots after it
as in the whole (`SuffixPoints`, `CountFrom`), and a wildcard that `clean` accepts has
two dots, so the last two labels lie in the common part (`SameLastLabels`); a
loopback address, the one exception for ports, has no wildcard. The
theorem assumes that hosts are sequences of strings, which `RequestsAssumption` and
`AppsAssumption` say of the URIs of requests and of applications.

Only model-checked: `EveryRequestEnds`, `ApprovedIsServed` and `CleaningEnds`, which
are liveness under fairness and out of the prover's reach. Every other property of
a passing run is a theorem.

## Findings

1. Reuse protection does not end a session if a rotation of it has passed
   validation and not yet taken its lock (`oauth2_validators.py:819-830` and
   `:673`). What does hold: the sweep revokes all it saw, and a family that is
   dead with nothing in flight stays dead.
2. With `ROTATE_REFRESH_TOKEN = False` and the access token gone, a refresh
   answers with a token that is refused from then on (`oauth2_validators.py:650`).
3. A device grant that was authorized is served after its deadline
   (`views/base.py:334-348`).
4. `rw_protected_resource` appends the scope of each request's method to a list
   it made when the view was decorated (`decorators.py:72-74`): from the first
   POST on, GETs need the write scope too, in that process. It never asks for
   less than it should, which is `NeverUnderProtected`.

Seen while reading, without a run of its own: `docs/settings.rst:79` says that
`https://*.sub.example.com` is not allowed, `validators.py:80-108` accepts it, and so
does the model. A comment of `do_logout` (`views/oidc.py:449`) has each token deleted
with its corresponding refresh token, but that of a rotation between its two reads
stays live.
`do_logout` finds refresh tokens
through their access tokens (`views/oidc.py:445`), so one whose access token has
been deleted is not revoked, and its list of grant types leaves out device codes,
while `docs/settings.rst:404-408` speaks of the tokens of all applications. And
`clean` accepts a wildcard in an allowed origin, as `docs/settings.rst:67` says,
but `is_origin_allowed` compares the origin as it stands and never matches one.

## Not modelled

* Building, signing and checking ID tokens, claims, userinfo, discovery documents,
  templates: cryptography and formatting. The row of an ID token is modelled.
* Settings, generators, scopes backends, admin and system checks: configuration.
  Settings are constants of the modules.
* oauthlib's inside: the order in which it calls the validator is modelled, its
  parsing is not. Malformed credentials count as none, secrets are compared by
  what they are and not by their hashes.
* `skip_authorization` is a constant of `AuthorizationCode` (`Trusted`): an owner who
  switches it off between two codes is not modelled.
* The fragment of a URI and the letters of its host, in `UriValid`.
* The implicit, password and client credentials grants: each is one call of
  `save_bearer_token` without a refresh token instance, `IssueTokens`.
* The claims of a logout hint and the target of the last redirect; the signing
  algorithms `clean` checks; the user a resource server creates for an answer;
  the deprecated `AUTHENTICATION_SERVER_EXP_TIME_ZONE`.
* The end of the introspection request: `requests.post` has no timeout, so
  nothing promises one. A lost answer is modelled as an exception.
* `_oauthlib_core` on a class is found by subclasses (`views/mixins.py:85`): which
  server a view uses depends on the order of first requests. No module has the
  class hierarchy.
* The redirect properties speak of users who are logged in: with `prompt=none` an
  anonymous one is answered before anything is validated (`LoginRequired`).
* With rotation off, an access token can be renewed after `clear_expired` has read
  its refresh token as expired; it then loses that token. `NoOrphanBearer` and
  `CleanerSparesSessions` therefore assume rotation.

## Plan

Done: refresh tokens, codes and device grants; the resource server with its cache and
views; clean-up and logout over the token tables; client requests and matching.
Refresh tokens, codes and the resource server have an abstract specification that
they are proved to implement. Every safety property of the runs is a theorem.

Left, in order of worth:

1. `TokenTables` as an abstraction of `RefreshTokens`, which would carry the results
   of `SessionEnd` over to the workers and locks of a rotation. `RefreshTokens` has
   no expiry of access tokens yet, which the mapping needs.
2. An abstract life of a device grant that `DeviceFlow` implements.
3. The class hierarchy of the views, for the inherited `_oauthlib_core`.
