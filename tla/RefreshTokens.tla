--------------------------- MODULE RefreshTokens ---------------------------
(***************************************************************************)
(* The life of refresh tokens and of the access tokens bound to them, when *)
(* several worker processes serve the token endpoint and the revocation    *)
(* endpoint over one database.                                             *)
(*                                                                         *)
(* An action is one database transaction, or one query outside any         *)
(* transaction: validate_refresh_token, get_original_scopes and            *)
(* save_bearer_token are three steps of a request, and anything may happen *)
(* between them.  save_bearer_token is split once more, at the row lock it *)
(* takes with select_for_update; its writes become visible at its commit.  *)
(*                                                                         *)
(* A request that issues or rotates creates an access token and a refresh  *)
(* token together; both rows get the same primary key here.  A token       *)
(* string is represented by the key of the first row that carried it, a    *)
(* token_family by the key of the row that started it.                     *)
(*                                                                         *)
(* An operator whose name starts with Faulty is the definition below it    *)
(* with one plausible bug.  The specification does not use it: it shows    *)
(* that a property notices the bug.                                        *)
(***************************************************************************)
EXTENDS Integers, FiniteSets

CONSTANTS
  Requests,        \* the worker processes that serve grant_type=refresh_token
  MaxPk,           \* bound: rows the autoincrement key may reach
  MaxTime,         \* bound: the clock stops here
  MaxWrites,       \* bound: how often one access token is renewed in place
  Scopes,          \* scope names
  Grace,           \* REFRESH_TOKEN_GRACE_PERIOD_SECONDS
  ReuseProtection, \* REFRESH_TOKEN_REUSE_PROTECTION
  Rotate,          \* ROTATE_REFRESH_TOKEN
  Null             \* SQL NULL

ASSUME ConstantsAssumption ==
  /\ MaxPk \in Nat /\ MaxTime \in Nat /\ MaxWrites \in Nat /\ Grace \in Nat
  /\ ReuseProtection \in BOOLEAN /\ Rotate \in BOOLEAN
  /\ Null \notin Int

Pks  == 1 .. MaxPk
Time == 0 .. MaxTime

VARIABLES
  rtRows,  \* keys of the rows of the refresh token table
  rt,      \* their columns
  atRows,  \* keys of the rows of the access token table
  at,      \* their columns
  nextPk,  \* the next key of both tables
  now,     \* timezone.now()
  req,     \* what each worker remembers between two queries
  reply,   \* the answer the last step sent, if it sent one
  granted, \* history: the scope the user granted, by family
  ended    \* history: by family, the largest key a finished reuse sweep saw

vars == <<rtRows, rt, atRows, at, nextPk, now, req, reply, granted, ended>>
db   == <<rtRows, rt, atRows, at, nextPk, granted>>

RefreshRow == [token : Pks, family : Pks, revoked : Time \union {Null},
               access : Pks \union {Null}]
(* An access token renewed in place keeps its row and gets a new string:   *)
(* version counts the strings.                                             *)
AccessRow  == [source : Pks \union {Null}, scope : SUBSET Scopes, version : 0 .. MaxWrites]

(* request.refresh_token_instance is a copy of the row as the first query  *)
(* of the request read it: rt is its key, access its access_token_id and,  *)
(* until the scopes are settled, scopes the scope of the joined row.  Once *)
(* the tokens are saved, access, version and refresh are the two strings   *)
(* of the response body.                                                   *)
Local == [pc      : {"idle", "scopes", "save", "locked", "deliver", "sweep"},
          rt      : Pks \union {Null},
          access  : Pks \union {Null},
          version : 0 .. MaxWrites,
          refresh : Pks \union {Null},
          scopes  : SUBSET Scopes,
          prev    : Pks \union {Null},
          todo    : SUBSET Pks,
          mark    : 0 .. MaxPk]

Reply == [status  : {"none", "ok", "refused", "error"},
          access  : Pks \union {Null},
          refresh : Pks \union {Null}]

Idle == [pc |-> "idle", rt |-> Null, access |-> Null, version |-> 0, refresh |-> Null,
         scopes |-> {}, prev |-> Null, todo |-> {}, mark |-> 0]

Answer(status)  == [status |-> status, access |-> Null, refresh |-> Null]
Tokens(a, t)    == [status |-> "ok", access |-> a, refresh |-> t]
NoAnswer        == Answer("none")

-----------------------------------------------------------------------------
(* Reading the tables.                                                     *)

Live(k) == rt[k].revoked = Null

Rows(t) == {k \in rtRows : rt[k].token = t}

(* .filter(token=t).first(): an unordered query is ordered by key.         *)
FirstRow(t) == {k \in Rows(t) : \A j \in Rows(t) : k =< j}

Family(f) == {k \in rtRows : rt[k].family = f}

(* The access tokens whose source_refresh_token is row k.                  *)
Children(k) == {a \in atRows : at[a].source = k}

PreviousAccess(k) ==
  IF Children(k) = {} THEN Null ELSE CHOOSE a \in Children(k) : TRUE

(* The refresh tokens bound to access token a.                             *)
BoundTo(a) == {k \in rtRows : rt[k].access = a}

(* A worker holds the row lock of the instance it is about to revoke.      *)
FaultyLocked(k) == FALSE
Locked(k) == \E r \in Requests : req[r].pc = "locked" /\ req[r].rt = k

(* rt.revoked <= now - grace period                                        *)
FaultyGraceOver(k) == rt[k].revoked # Null /\ rt[k].revoked < now - Grace
GraceOver(k) == rt[k].revoked # Null /\ rt[k].revoked =< now - Grace

InFlight == {r \in Requests : req[r].pc # "idle"}

(* Bound: a request is admitted only if its row still fits the table.      *)
Room == nextPk + Cardinality(InFlight) =< MaxPk

-----------------------------------------------------------------------------
(* AbstractRefreshToken.revoke: lock the row if it is not revoked yet,     *)
(* delete its access token, clear the link and stamp the row.              *)

FaultyRestamp(K) == K
FaultySkip(K) == {}
StillLive(K) == {k \in K : Live(k)}

FaultyRevokedTable(K) ==
  [k \in Pks |-> IF k \in StillLive(K)
                   THEN [rt[k] EXCEPT !.revoked = now + Grace, !.access = Null]
                   ELSE rt[k]]
RevokedTable(K) ==
  [k \in Pks |-> IF k \in StillLive(K)
                   THEN [rt[k] EXCEPT !.revoked = now, !.access = Null]
                   ELSE rt[k]]

FaultyAccessWithout(K) == atRows
AccessWithout(K) == atRows \ {rt[k].access : k \in StillLive(K)}

(* The call waits while another transaction holds the lock of a live row.  *)
CanRevoke(K) == \A k \in StillLive(K) : ~Locked(k)

-----------------------------------------------------------------------------
(* A step that answers no client.                                          *)
Silent == reply' = NoAnswer

Init ==
  /\ rtRows = {} /\ atRows = {}
  /\ rt = [k \in Pks |-> [token |-> k, family |-> k, revoked |-> Null, access |-> Null]]
  /\ at = [k \in Pks |-> [source |-> Null, scope |-> {}, version |-> 0]]
  /\ nextPk = 1 /\ now = 0
  /\ req = [r \in Requests |-> Idle]
  /\ reply = NoAnswer
  /\ granted = [f \in Pks |-> {}]
  /\ ended = [f \in Pks |-> 0]

Tick ==
  /\ now < MaxTime
  /\ now' = now + 1
  /\ Silent
  /\ UNCHANGED <<rtRows, rt, atRows, at, nextPk, req, granted, ended>>

(* _save_bearer_token without refresh_token_instance: a grant that starts  *)
(* a session creates both tokens and a new token_family.                   *)
IssueTokens(scope) ==
  /\ Room
  /\ nextPk \in Pks
  /\ rtRows' = rtRows \union {nextPk}
  /\ rt' = [rt EXCEPT ![nextPk] = [token |-> nextPk, family |-> nextPk,
                                   revoked |-> Null, access |-> nextPk]]
  /\ atRows' = atRows \union {nextPk}
  /\ at' = [at EXCEPT ![nextPk] = [source |-> Null, scope |-> scope, version |-> 0]]
  /\ nextPk' = nextPk + 1
  /\ granted' = [granted EXCEPT ![nextPk] = scope]
  /\ Silent
  /\ UNCHANGED <<now, req, ended>>

(* The worker answers and forgets the request.                             *)
Finish(r, answer) == req' = [req EXCEPT ![r] = Idle] /\ reply' = answer

(* save_bearer_token has committed; the response is not sent yet.          *)
Commit(r, a, version, t) ==
  /\ req' = [req EXCEPT ![r] =
       [Idle EXCEPT !.pc = "deliver", !.rt = req[r].rt,
                    !.access = a, !.version = version, !.refresh = t]]
  /\ Silent

Accept(r, k) ==
  /\ Room
  /\ req' = [req EXCEPT ![r] =
       [Idle EXCEPT !.pc = "scopes", !.rt = k, !.access = rt[k].access,
                    !.scopes = IF rt[k].access = Null THEN {}
                               ELSE at[rt[k].access].scope]]
  /\ Silent

(* The related tokens are read once, before the loop revokes the first.    *)
StartSweep(r, k) ==
  /\ req' = [req EXCEPT ![r] =
       [Idle EXCEPT !.pc = "sweep", !.rt = k,
                    !.todo = Family(rt[k].family), !.mark = nextPk - 1]]
  /\ Silent

(* One unlocked query for the row with its access token, then the grace    *)
(* test, reuse protection, and the comparison of the application.          *)
ValidateRefreshToken(r, t, sameClient) ==
  /\ req[r].pc = "idle"
  /\ \/ FirstRow(t) = {} /\ Finish(r, Answer("refused"))
     \/ \E k \in FirstRow(t) :
          \/ GraceOver(k) /\ ReuseProtection /\ StartSweep(r, k)
          \/ GraceOver(k) /\ ~ReuseProtection /\ Finish(r, Answer("refused"))
          \/ ~GraceOver(k) /\ sameClient /\ Accept(r, k)
          \/ ~GraceOver(k) /\ ~sameClient /\ Finish(r, Answer("refused"))
  /\ UNCHANGED <<db, now, ended>>

(* get_original_scopes: the joined copy of the access token if the stale   *)
(* instance links to one, else the token already made from this row.       *)
FaultyOriginalScopes(r) ==
  IF req[r].access # Null THEN req[r].scopes ELSE Scopes
OriginalScopes(r) ==
  IF req[r].access # Null THEN req[r].scopes
  ELSE UNION {at[a].scope : a \in Children(req[r].rt)}

(* An absent scope parameter is the empty set.                             *)
GetOriginalScopes(r, asked) ==
  /\ req[r].pc = "scopes"
  /\ \/ /\ asked \subseteq OriginalScopes(r)
        /\ req' = [req EXCEPT ![r].pc = "save",
                              ![r].scopes = IF asked = {} THEN OriginalScopes(r)
                                            ELSE asked]
        /\ Silent
     \/ /\ ~(asked \subseteq OriginalScopes(r))
        /\ Finish(r, Answer("refused"))
  /\ UNCHANGED <<db, now, ended>>

(* Rotation off, and the stale instance has an access token: update that   *)
(* row in place.  The row may be gone, and then .get raises.               *)
ReuseAccessToken(r) ==
  /\ req[r].pc = "save"
  /\ ~Rotate /\ req[r].access # Null
  /\ \/ /\ req[r].access \in atRows
        /\ at[req[r].access].version < MaxWrites
        /\ at' = [at EXCEPT ![req[r].access].scope = req[r].scopes,
                            ![req[r].access].version = @ + 1]
        /\ Commit(r, req[r].access, at[req[r].access].version + 1, rt[req[r].rt].token)
     \/ /\ req[r].access \notin atRows
        /\ at' = at
        /\ Finish(r, Answer("error"))
  /\ UNCHANGED <<rtRows, rt, atRows, nextPk, now, granted, ended>>

(* Lock the row again from the database and look for the access token that *)
(* was already made from it; its string is kept.                           *)
LockInstance(r) ==
  /\ req[r].pc = "save"
  /\ Rotate \/ req[r].access = Null
  /\ ~Locked(req[r].rt)
  /\ LET a == PreviousAccess(req[r].rt) IN
       req' = [req EXCEPT ![r].pc = "locked", ![r].prev = a,
                          ![r].version = IF a = Null THEN 0 ELSE at[a].version]
  /\ Silent
  /\ UNCHANGED <<db, now, ended>>

(* No earlier use: revoke the instance, create the pair, commit.           *)
CreatePair(r) ==
  LET k == req[r].rt IN
  /\ req[r].pc = "locked" /\ req[r].prev = Null
  /\ nextPk \in Pks
  /\ rtRows' = rtRows \union {nextPk}
  /\ rt' = [RevokedTable({k}) EXCEPT ![nextPk] =
              [token |-> IF Rotate THEN nextPk ELSE rt[k].token,
               family |-> rt[k].family, revoked |-> Null, access |-> nextPk]]
  /\ atRows' = AccessWithout({k}) \union {nextPk}
  /\ at' = [at EXCEPT ![nextPk] = [source |-> k, scope |-> req[r].scopes, version |-> 0]]
  /\ nextPk' = nextPk + 1
  /\ Commit(r, nextPk, 0, IF Rotate THEN nextPk ELSE rt[k].token)
  /\ UNCHANGED <<now, granted, ended>>

(* The row was used before (grace period): answer with what that use made. *)
(* If the refresh token of that access token is gone, .first() is None,    *)
(* the attribute error rolls the transaction back.                         *)
FaultyPairOf(r) == {req[r].rt}
PairOf(r) == BoundTo(req[r].prev)
ReturnExisting(r) ==
  LET k == req[r].rt IN
  /\ req[r].pc = "locked" /\ req[r].prev # Null
  /\ \/ /\ \E j \in PairOf(r) :
             Commit(r, req[r].prev, req[r].version, rt[j].token)
        /\ rt' = RevokedTable({k})
        /\ atRows' = AccessWithout({k})
     \/ /\ PairOf(r) = {}
        /\ Finish(r, Answer("error"))
        /\ UNCHANGED <<rt, atRows>>
  /\ UNCHANGED <<rtRows, at, nextPk, now, granted, ended>>

(* authorization_flow_token_response reads the access token it is about to *)
(* hand out again, by its checksum, and fails if it is gone by now.        *)
Deliver(r) ==
  LET found == req[r].access \in atRows /\ at[req[r].access].version = req[r].version IN
  /\ req[r].pc = "deliver"
  /\ \/ found /\ Finish(r, Tokens(req[r].access, req[r].refresh))
     \/ ~found /\ Finish(r, Answer("error"))
  /\ UNCHANGED <<db, now, ended>>

(* One turn of the reuse loop: related_rt.revoke() in its own transaction. *)
FaultySkipLocked(r, k) ==
  /\ req[r].pc = "sweep" /\ k \in req[r].todo
  /\ LET K == IF Locked(k) THEN {} ELSE {k} IN
       /\ rt' = RevokedTable(K)
       /\ atRows' = AccessWithout(K)
  /\ req' = [req EXCEPT ![r].todo = @ \ {k}]
  /\ Silent
  /\ UNCHANGED <<rtRows, at, nextPk, now, granted, ended>>
FaultySweepStep(r, k) ==
  /\ req[r].pc = "sweep" /\ k \in req[r].todo
  /\ Live(k) /\ CanRevoke({k})
  /\ rt' = RevokedTable({k})
  /\ atRows' = AccessWithout({k})
  /\ req' = [req EXCEPT ![r].todo = @ \ {k}]
  /\ Silent
  /\ UNCHANGED <<rtRows, at, nextPk, now, granted, ended>>
SweepStep(r, k) ==
  /\ req[r].pc = "sweep" /\ k \in req[r].todo
  /\ CanRevoke({k})
  /\ rt' = RevokedTable({k})
  /\ atRows' = AccessWithout({k})
  /\ req' = [req EXCEPT ![r].todo = @ \ {k}]
  /\ Silent
  /\ UNCHANGED <<rtRows, at, nextPk, now, granted, ended>>

SweepDone(r) ==
  LET f == rt[req[r].rt].family IN
  /\ req[r].pc = "sweep" /\ req[r].todo = {}
  /\ Finish(r, Answer("refused"))
  /\ ended' = [ended EXCEPT ![f] = IF @ < req[r].mark THEN req[r].mark ELSE @]
  /\ UNCHANGED <<db, now>>

(* The worker dies or loses its connection: the database rolls back what   *)
(* it had not committed and drops its locks.                               *)
Abort(r) ==
  /\ req[r].pc # "idle"
  /\ Finish(r, NoAnswer)
  /\ UNCHANGED <<db, now, ended>>

(* revoke_token for a refresh token: one transaction for each row that     *)
(* carries the string.  A request stops between two rows if its worker     *)
(* dies, and before the first with token_type_hint=refresh_token if two    *)
(* rows carry the string, where .get raises.                               *)
RevokeRefreshToken(k) ==
  /\ k \in rtRows /\ Live(k)
  /\ CanRevoke({k})
  /\ rt' = RevokedTable({k})
  /\ atRows' = AccessWithout({k})
  /\ Silent
  /\ UNCHANGED <<rtRows, at, nextPk, now, req, granted, ended>>

(* AccessToken.revoke, from revoke_token or AuthorizedTokenDeleteView: the *)
(* row is deleted, and SET_NULL updates the refresh token bound to it,     *)
(* which waits for that row's lock.                                        *)
RevokeAccessToken(a) ==
  /\ a \in atRows
  /\ \A k \in BoundTo(a) : ~Locked(k)
  /\ atRows' = atRows \ {a}
  /\ rt' = [k \in Pks |-> IF k \in BoundTo(a) THEN [rt[k] EXCEPT !.access = Null]
                          ELSE rt[k]]
  /\ Silent
  /\ UNCHANGED <<rtRows, at, nextPk, now, req, granted, ended>>

-----------------------------------------------------------------------------
Serve(r) ==
  \/ \E t \in Pks, sameClient \in BOOLEAN : ValidateRefreshToken(r, t, sameClient)
  \/ \E asked \in SUBSET Scopes : GetOriginalScopes(r, asked)
  \/ ReuseAccessToken(r)
  \/ LockInstance(r)
  \/ CreatePair(r)
  \/ ReturnExisting(r)
  \/ Deliver(r)
  \/ \E k \in Pks : SweepStep(r, k)
  \/ SweepDone(r)
  \/ Abort(r)

Next ==
  \/ Tick
  \/ \E scope \in SUBSET Scopes : IssueTokens(scope)
  \/ \E r \in Requests : Serve(r)
  \/ \E k \in Pks : RevokeRefreshToken(k) \/ RevokeAccessToken(k)

(* A worker that has begun a request goes on with it; a database hands a   *)
(* contended row lock to each waiter in turn, so the two steps that wait   *)
(* for one are strongly fair.  Nobody has to send a request or to revoke.  *)
Fairness ==
  \A r \in Requests :
    /\ WF_vars(\E asked \in SUBSET Scopes : GetOriginalScopes(r, asked))
    /\ WF_vars(ReuseAccessToken(r))
    /\ SF_vars(LockInstance(r))
    /\ WF_vars(CreatePair(r))
    /\ WF_vars(ReturnExisting(r))
    /\ WF_vars(Deliver(r))
    /\ SF_vars(\E k \in Pks : SweepStep(r, k))
    /\ WF_vars(SweepDone(r))

Spec == Init /\ [][Next]_vars
FairSpec == Spec /\ Fairness

-----------------------------------------------------------------------------
(* Types of the tables, of the workers' locals and of the history.         *)
TypeOK ==
  /\ rtRows \subseteq Pks /\ atRows \subseteq Pks
  /\ rt \in [Pks -> RefreshRow]
  /\ at \in [Pks -> AccessRow]
  /\ nextPk \in 1 .. MaxPk + 1
  /\ now \in Time
  /\ req \in [Requests -> Local]
  /\ reply \in Reply
  /\ granted \in [Pks -> SUBSET Scopes]
  /\ ended \in [Pks -> 0 .. MaxPk]

(* An access token that came with a refresh token exists only as long as a *)
(* live refresh token is bound to it, and a link never dangles: whatever   *)
(* rotations, revocations, sweeps and rollbacks interleave, no bearer token*)
(* outlives the revocation of its refresh token.                           *)
NoOrphanAccess ==
  /\ \A a \in atRows : \E k \in rtRows : rt[k].access = a /\ Live(k)
  /\ \A k \in rtRows : rt[k].access # Null => rt[k].access \in atRows /\ Live(k)
  /\ \A j, k \in rtRows : rt[j].access = rt[k].access /\ rt[j].access # Null => j = k

(* At most one access token names a given refresh token as its source: the *)
(* unique constraint behind source_refresh_token is never hit, however many*)
(* requests present the same refresh token at once.                        *)
SingleSuccessor ==
  \A a, b \in atRows : at[a].source = at[b].source /\ at[a].source # Null => a = b

(* A token is made only from a refresh token that is spent: the source is  *)
(* revoked and the new refresh token joined its family.                    *)
SourceSpent ==
  \A a \in atRows : at[a].source # Null =>
    \A k \in BoundTo(a) :
      /\ rt[at[a].source].revoked # Null
      /\ rt[k].family = rt[at[a].source].family

(* No refresh widens a session: whatever stale copies the scopes came from *)
(* every access token has a subset of what the user granted at its start.  *)
ScopeNeverWidens ==
  \A a \in atRows : \A k \in BoundTo(a) : at[a].scope \subseteq granted[rt[k].family]

(* A finished reuse sweep has revoked every related token it saw, also     *)
(* those that a concurrent rotation had locked.                            *)
SweepRevokesWhatItSaw ==
  \A k \in rtRows : k =< ended[rt[k].family] => ~Live(k)

(* REFRESH_TOKEN_REUSE_PROTECTION as documented: reuse ends the session,   *)
(* so a family has no live refresh token once its sweep is over.           *)
SessionEnded ==
  \A k \in rtRows : ended[rt[k].family] > 0 => ~Live(k)

(* Revocation is final: no later save of a stale copy clears the stamp or  *)
(* moves it, which would prolong the grace period.                         *)
RevocationFinal ==
  [][\A k \in rtRows : ~Live(k) => k \in rtRows' /\ rt'[k].revoked = rt[k].revoked]_vars

(* A family is dead when each of its tokens is revoked beyond the grace    *)
(* period and no worker that validated one is still under way.             *)
Dead(f) ==
  /\ f < nextPk
  /\ \A k \in Family(f) : rt[k].revoked # Null /\ rt[k].revoked + Grace =< now
  /\ \A r \in Requests :
       req[r].pc \in {"scopes", "save", "locked"} => rt[req[r].rt].family # f

(* A dead session never comes back: no order of presentations of its old   *)
(* tokens makes a new one.                                                 *)
DeadFamilyStaysDead == [][\A f \in Pks : Dead(f) => Dead(f)']_vars

Usable(t, a) ==
  \E k \in FirstRow(t) : Live(k) /\ rt[k].access = a /\ a \in atRows

(* The tokens in a successful answer work when it is given: the refresh    *)
(* token finds a live row, and that row is bound to the access token.      *)
ReplyIsUsable ==
  reply.status = "ok" => Usable(reply.refresh, reply.access)

(* Every request that was accepted or began a sweep ends, whatever locks   *)
(* it met on the way.                                                      *)
EveryRequestEnds == \A r \in Requests : req[r].pc # "idle" ~> req[r].pc = "idle"

-----------------------------------------------------------------------------
(* What the tables promise, without workers, clock, locks or strings.      *)
Status(k) == IF k \notin rtRows THEN "unissued" ELSE IF Live(k) THEN "live" ELSE "revoked"

Lifecycle == INSTANCE RefreshLifecycle WITH
  Ids    <- Pks,
  status <- [k \in Pks |-> Status(k)],
  bearer <- atRows,
  parent <- [k \in Pks |-> IF k \in rtRows THEN at[k].source ELSE Null]

(* Every step of the workers is a step of the abstract life cycle.         *)
ImplementsLifecycle == Lifecycle!Spec
=============================================================================
