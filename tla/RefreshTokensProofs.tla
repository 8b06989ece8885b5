------------------------- MODULE RefreshTokensProofs -------------------------
(***************************************************************************)
(* Machine-checked theorems about RefreshTokens, for every value of its    *)
(* constants that satisfies ConstantsAssumption.                           *)
(***************************************************************************)
EXTENDS RefreshTokens, TLAPS

(* The local record of a worker that has just accepted or begins a sweep.  *)
LEMMA IdleType == Idle \in Local
  BY ConstantsAssumption DEF Idle, Local, Pks

LEMMA KeysNotNull == \A k \in Pks : k \in Int /\ k # Null
  BY ConstantsAssumption DEF Pks

(* Revoking rows keeps the type of the table.                              *)
LEMMA RevokedTableType ==
  ASSUME TypeOK, NEW K \in SUBSET Pks
  PROVE  RevokedTable(K) \in [Pks -> RefreshRow]
<1>1. ASSUME NEW k \in Pks
      PROVE  [rt[k] EXCEPT !.revoked = now, !.access = Null] \in RefreshRow
  <2>1. rt[k] \in RefreshRow /\ now \in Time
    BY DEF TypeOK
  <2>2. QED
    BY <2>1 DEF RefreshRow
<1>2. \A k \in Pks : rt[k] \in RefreshRow
  BY DEF TypeOK
<1>3. QED
  BY <1>1, <1>2 DEF RevokedTable

LEMMA AccessWithoutType ==
  ASSUME TypeOK, NEW K \in SUBSET Pks
  PROVE  AccessWithout(K) \subseteq Pks
  BY DEF TypeOK, AccessWithout

LEMMA AnswerType ==
  ASSUME NEW s \in {"none", "ok", "refused", "error"}
  PROVE  Answer(s) \in Reply
  BY DEF Answer, Reply

LEMMA TokensType ==
  ASSUME NEW a \in Pks, NEW t \in Pks
  PROVE  Tokens(a, t) \in Reply
  BY DEF Tokens, Reply

LEMMA FinishType ==
  ASSUME TypeOK, NEW r \in Requests, NEW answer \in Reply, Finish(r, answer)
  PROVE  req' \in [Requests -> Local] /\ reply' \in Reply
  BY IdleType DEF TypeOK, Finish

(* The scopes a worker can be left with are sets of scope names.           *)
LEMMA OriginalScopesType ==
  ASSUME TypeOK, NEW r \in Requests
  PROVE  OriginalScopes(r) \subseteq Scopes
  BY DEF TypeOK, OriginalScopes, Children, AccessRow, Local

LEMMA PreviousAccessType ==
  ASSUME TypeOK, NEW k \in Pks
  PROVE  PreviousAccess(k) \in Pks \union {Null}
  BY DEF TypeOK, PreviousAccess, Children

(* What revoking does to each row, without the form of the definition.     *)
LEMMA RevokedTableFacts ==
  ASSUME TypeOK, NEW K \in SUBSET Pks, NEW k \in Pks
  PROVE  /\ RevokedTable(K)[k].token = rt[k].token
         /\ RevokedTable(K)[k].family = rt[k].family
         /\ k \in K /\ Live(k) => /\ RevokedTable(K)[k].revoked = now
                                 /\ RevokedTable(K)[k].access = Null
         /\ ~(k \in K /\ Live(k)) => RevokedTable(K)[k] = rt[k]
<1>1. rt[k] \in RefreshRow
  BY DEF TypeOK
<1>2. /\ [rt[k] EXCEPT !.revoked = now, !.access = Null].token = rt[k].token
      /\ [rt[k] EXCEPT !.revoked = now, !.access = Null].family = rt[k].family
      /\ [rt[k] EXCEPT !.revoked = now, !.access = Null].revoked = now
      /\ [rt[k] EXCEPT !.revoked = now, !.access = Null].access = Null
  BY <1>1 DEF RefreshRow
<1>3. RevokedTable(K)[k] = IF k \in StillLive(K)
                           THEN [rt[k] EXCEPT !.revoked = now, !.access = Null]
                           ELSE rt[k]
  BY DEF RevokedTable
<1>4. k \in StillLive(K) <=> k \in K /\ Live(k)
  BY DEF StillLive
<1>5. QED
  BY <1>2, <1>3, <1>4

(* What a worker remembers after it accepted a token, began a sweep or      *)
(* answered.                                                                *)
LEMMA AcceptFacts ==
  ASSUME TypeOK, NEW r \in Requests, NEW k \in Pks, Accept(r, k)
  PROVE  /\ \A s \in Requests \ {r} : req'[s] = req[s]
         /\ req'[r].pc = "scopes" /\ req'[r].rt = k /\ req'[r].todo = {}
<1> DEFINE ss == IF rt[k].access = Null THEN {} ELSE at[rt[k].access].scope
           x  == [Idle EXCEPT !.pc = "scopes", !.rt = k, !.access = rt[k].access, !.scopes = ss]
<1>1. req' = [req EXCEPT ![r] = x]
  BY DEF Accept
<1>2. x.pc = "scopes" /\ x.rt = k /\ x.todo = {}
  BY DEF Idle
<1> HIDE DEF x
<1>3. QED
  BY <1>1, <1>2 DEF TypeOK

LEMMA StartSweepFacts ==
  ASSUME TypeOK, NEW r \in Requests, NEW k \in Pks, StartSweep(r, k)
  PROVE  /\ \A s \in Requests \ {r} : req'[s] = req[s]
         /\ req'[r].pc = "sweep" /\ req'[r].rt = k
         /\ req'[r].todo = Family(rt[k].family) /\ req'[r].mark = nextPk - 1
<1> DEFINE x == [Idle EXCEPT !.pc = "sweep", !.rt = k,
                             !.todo = Family(rt[k].family), !.mark = nextPk - 1]
<1>1. req' = [req EXCEPT ![r] = x]
  BY DEF StartSweep
<1>2. /\ x.pc = "sweep" /\ x.rt = k
      /\ x.todo = Family(rt[k].family) /\ x.mark = nextPk - 1
  BY DEF Idle
<1> HIDE DEF x
<1>3. QED
  BY <1>1, <1>2 DEF TypeOK

LEMMA CommitType ==
  ASSUME TypeOK, NEW r \in Requests, NEW a \in Pks, NEW v \in 0 .. MaxWrites, NEW t \in Pks,
         Commit(r, a, v, t)
  PROVE  req' \in [Requests -> Local] /\ reply' \in Reply
<1> DEFINE x == [Idle EXCEPT !.pc = "deliver", !.rt = req[r].rt,
                             !.access = a, !.version = v, !.refresh = t]
<1>1. req[r] \in Local
  BY DEF TypeOK
<1>2. x \in Local
  BY <1>1, IdleType DEF Local, Idle
<1>3. req' = [req EXCEPT ![r] = x] /\ reply' = Answer("none")
  BY DEF Commit, Silent, NoAnswer
<1> HIDE DEF x
<1>4. QED
  BY <1>2, <1>3, AnswerType DEF TypeOK

LEMMA CommitFacts ==
  ASSUME TypeOK, NEW r \in Requests, NEW a, NEW v, NEW t, Commit(r, a, v, t)
  PROVE  /\ \A s \in Requests \ {r} : req'[s] = req[s]
         /\ req'[r].pc = "deliver" /\ req'[r].rt = req[r].rt /\ req'[r].todo = {}
<1> DEFINE x == [Idle EXCEPT !.pc = "deliver", !.rt = req[r].rt,
                             !.access = a, !.version = v, !.refresh = t]
<1>1. req' = [req EXCEPT ![r] = x]
  BY DEF Commit
<1>2. x.pc = "deliver" /\ x.rt = req[r].rt /\ x.todo = {}
  BY DEF Idle
<1> HIDE DEF x
<1>3. QED
  BY <1>1, <1>2 DEF TypeOK

LEMMA FinishFacts ==
  ASSUME TypeOK, NEW r \in Requests, NEW answer, Finish(r, answer)
  PROVE  /\ \A s \in Requests \ {r} : req'[s] = req[s]
         /\ req'[r].pc = "idle"
  BY DEF Finish, TypeOK, Idle

-----------------------------------------------------------------------------
(* The instance a worker validated is a row, which the types of its later  *)
(* answers rest on: no row is ever removed here.                           *)
InstanceExists ==
  \A r \in Requests : req[r].pc # "idle" => req[r].rt \in rtRows /\ req[r].todo \subseteq rtRows

LEMMA InstanceStep ==
  TypeOK /\ InstanceExists /\ [Next]_vars => InstanceExists'
<1> SUFFICES ASSUME TypeOK, InstanceExists, [Next]_vars,
                    NEW r \in Requests, req'[r].pc # "idle"
             PROVE  req'[r].rt \in rtRows' /\ req'[r].todo \subseteq rtRows'
  BY DEF InstanceExists
<1> DEFINE Kept == req'[r].rt \in rtRows' /\ req'[r].todo \subseteq rtRows'
<1> USE DEF InstanceExists, TypeOK, db
<1>0. ASSUME NEW s \in Requests, NEW answer, Finish(s, answer)
      PROVE  req'[r].rt \in rtRows /\ req'[r].todo \subseteq rtRows
  BY <1>0 DEF Finish, Idle
<1>1. ASSUME NEW s \in Requests, NEW t \in Pks, NEW same \in BOOLEAN,
             ValidateRefreshToken(s, t, same)
      PROVE  Kept
  <2>1. \A k \in FirstRow(t) : StartSweep(s, k) \/ Accept(s, k) =>
                            req'[r].rt \in rtRows /\ req'[r].todo \subseteq rtRows
    BY StartSweepFacts, AcceptFacts DEF FirstRow, Rows, Family
  <2>2. QED
    BY <1>0, <1>1, <2>1 DEF ValidateRefreshToken
<1>2. ASSUME NEW s \in Requests, NEW asked \in SUBSET Scopes, GetOriginalScopes(s, asked)
      PROVE  Kept
  BY <1>0, <1>2 DEF GetOriginalScopes, Local
<1>3. ASSUME NEW s \in Requests,
             \/ ReuseAccessToken(s) \/ CreatePair(s) \/ ReturnExisting(s)
             \/ Deliver(s) \/ SweepDone(s) \/ Abort(s)
      PROVE  Kept
  <2>1. ASSUME NEW a, NEW v, NEW t, Commit(s, a, v, t), req[s].pc # "idle"
        PROVE  req'[r].rt \in rtRows /\ req'[r].todo \subseteq rtRows
    BY <2>1, CommitFacts
  <2>2. CASE ReuseAccessToken(s)
    BY <1>0, <2>1, <2>2 DEF ReuseAccessToken
  <2>3. CASE CreatePair(s)
    BY <1>0, <2>1, <2>3 DEF CreatePair
  <2>4. CASE ReturnExisting(s)
    BY <1>0, <2>1, <2>4 DEF ReturnExisting
  <2>5. CASE Deliver(s) \/ SweepDone(s) \/ Abort(s)
    BY <1>0, <2>5 DEF Deliver, SweepDone, Abort
  <2>6. QED
    BY <1>3, <2>2, <2>3, <2>4, <2>5
<1>4. ASSUME NEW s \in Requests, LockInstance(s) PROVE Kept
  BY <1>4 DEF LockInstance, Local
<1>5. ASSUME NEW s \in Requests, NEW k \in Pks, SweepStep(s, k) PROVE Kept
  BY <1>5 DEF SweepStep, Local
<1>6. CASE Tick \/ (\E scope \in SUBSET Scopes : IssueTokens(scope))
  BY <1>6 DEF Tick, IssueTokens
<1>7. CASE \/ \E k \in Pks : RevokeRefreshToken(k)
           \/ \E a \in Pks : RevokeAccessToken(a)
  BY <1>7 DEF RevokeRefreshToken, RevokeAccessToken
<1>8. CASE UNCHANGED vars
  BY <1>8 DEF vars
<1>9. QED
  BY <1>1, <1>2, <1>3, <1>4, <1>5, <1>6, <1>7, <1>8 DEF Next, Serve

(* Every step keeps the types.                                             *)
LEMMA TypeStep == TypeOK /\ InstanceExists /\ [Next]_vars => TypeOK'
<1> SUFFICES ASSUME TypeOK, InstanceExists, [Next]_vars PROVE TypeOK'
  OBVIOUS
<1> USE ConstantsAssumption
<1>0. Silent => reply' \in Reply
  BY AnswerType DEF Silent, NoAnswer
<1>1. CASE Tick
  BY <1>0, <1>1 DEF TypeOK, Tick, Time
<1>2. ASSUME NEW scope \in SUBSET Scopes, IssueTokens(scope) PROVE TypeOK'
  <2>1. nextPk \in Pks
    BY <1>2 DEF IssueTokens
  <2>2. [token |-> nextPk, family |-> nextPk, revoked |-> Null, access |-> nextPk] \in RefreshRow
    BY <2>1 DEF RefreshRow
  <2>3. [source |-> Null, scope |-> scope, version |-> 0] \in AccessRow
    BY DEF AccessRow
  <2>4. rt' \in [Pks -> RefreshRow] /\ at' \in [Pks -> AccessRow]
    BY <1>2, <2>2, <2>3 DEF IssueTokens, TypeOK
  <2>5. nextPk' \in 1 .. MaxPk + 1
    BY <1>2, <2>1 DEF IssueTokens, Pks
  <2>6. QED
    BY <1>0, <1>2, <2>1, <2>4, <2>5 DEF IssueTokens, TypeOK
<1>3. ASSUME NEW r \in Requests, NEW t \in Pks, NEW same \in BOOLEAN,
             ValidateRefreshToken(r, t, same)
      PROVE TypeOK'
  <2>1. ASSUME NEW k \in FirstRow(t), StartSweep(r, k)
        PROVE req' \in [Requests -> Local] /\ reply' \in Reply
    <3>1. k \in Pks /\ Family(rt[k].family) \in SUBSET Pks /\ nextPk - 1 \in 0 .. MaxPk
      BY <2>1 DEF TypeOK, FirstRow, Rows, Family
    <3>2. [Idle EXCEPT !.pc = "sweep", !.rt = k, !.todo = Family(rt[k].family),
                       !.mark = nextPk - 1] \in Local
      BY <3>1, IdleType DEF Local, Idle
    <3>3. QED
      BY <1>0, <2>1, <3>2 DEF StartSweep, TypeOK
  <2>2. ASSUME NEW k \in FirstRow(t), Accept(r, k)
        PROVE req' \in [Requests -> Local] /\ reply' \in Reply
    <3> DEFINE ss == IF rt[k].access = Null THEN {} ELSE at[rt[k].access].scope
    <3>1. k \in Pks /\ rt[k].access \in Pks \union {Null} /\ ss \in SUBSET Scopes
      BY <2>2 DEF TypeOK, FirstRow, Rows, RefreshRow, AccessRow
    <3> HIDE DEF ss
    <3>2. [Idle EXCEPT !.pc = "scopes", !.rt = k, !.access = rt[k].access, !.scopes = ss]
            \in Local
      BY <3>1, IdleType DEF Local, Idle
    <3>3. req' = [req EXCEPT ![r] =
            [Idle EXCEPT !.pc = "scopes", !.rt = k, !.access = rt[k].access, !.scopes = ss]]
      BY <2>2 DEF Accept, ss
    <3>4. QED
      BY <1>0, <2>2, <3>2, <3>3 DEF Accept, TypeOK
  <2>3. req' \in [Requests -> Local] /\ reply' \in Reply
    BY <1>3, <2>1, <2>2, FinishType, AnswerType DEF ValidateRefreshToken
  <2>4. QED
    BY <1>3, <2>3 DEF ValidateRefreshToken, TypeOK, db
<1>4. ASSUME NEW r \in Requests, NEW asked \in SUBSET Scopes, GetOriginalScopes(r, asked)
      PROVE TypeOK'
  <2>1. CASE Finish(r, Answer("refused"))
    BY <1>4, <2>1, FinishType, AnswerType DEF GetOriginalScopes, TypeOK, db
  <2>2. CASE ~Finish(r, Answer("refused"))
    <3> DEFINE ss == IF asked = {} THEN OriginalScopes(r) ELSE asked
    <3>1. ss \in SUBSET Scopes /\ req[r] \in Local
      BY OriginalScopesType DEF TypeOK
    <3>2. req' = [req EXCEPT ![r].pc = "save", ![r].scopes = ss] /\ Silent
      BY <1>4, <2>2 DEF GetOriginalScopes
    <3> HIDE DEF ss
    <3>3. req' \in [Requests -> Local]
      BY <3>1, <3>2 DEF TypeOK, Local
    <3>4. QED
      BY <1>0, <1>4, <3>2, <3>3 DEF GetOriginalScopes, TypeOK, db
  <2>3. QED
    BY <2>1, <2>2
<1>5. ASSUME NEW r \in Requests, ReuseAccessToken(r) PROVE TypeOK'
  <2>1. req[r] \in Local
    BY DEF TypeOK
  <2>2. CASE req[r].access \in atRows
    <3> DEFINE a == req[r].access
               v == at[a].version + 1
               t == rt[req[r].rt].token
    <3>1. a \in Pks /\ t \in Pks /\ at[a] \in AccessRow
      BY <1>5, <2>2 DEF TypeOK, InstanceExists, ReuseAccessToken, RefreshRow
    <3>2. v \in 0 .. MaxWrites
      BY <1>5, <2>2, <3>1 DEF ReuseAccessToken, AccessRow
    <3>3. at' \in [Pks -> AccessRow]
      <4>1. at' = [at EXCEPT ![a].scope = req[r].scopes, ![a].version = v]
        BY <1>5, <2>2 DEF ReuseAccessToken
      <4>2. req[r].scopes \in SUBSET Scopes
        BY <2>1 DEF Local
      <4> HIDE DEF a, v, t
      <4>3. QED
        BY <3>1, <3>2, <4>1, <4>2 DEF TypeOK, AccessRow
    <3>4. Commit(r, a, v, t)
      BY <1>5, <2>2 DEF ReuseAccessToken
    <3> HIDE DEF a, v, t
    <3>5. req' \in [Requests -> Local] /\ reply' \in Reply
      BY <3>1, <3>2, <3>4, CommitType
    <3>6. QED
      BY <1>5, <3>3, <3>5 DEF ReuseAccessToken, TypeOK
  <2>3. CASE req[r].access \notin atRows
    <3>1. req' \in [Requests -> Local] /\ reply' \in Reply
      BY <1>5, <2>3, FinishType, AnswerType DEF ReuseAccessToken
    <3>2. QED
      BY <1>5, <2>3, <3>1 DEF ReuseAccessToken, TypeOK
  <2>4. QED
    BY <2>2, <2>3
<1>6. ASSUME NEW r \in Requests, LockInstance(r) PROVE TypeOK'
  <2> DEFINE p == PreviousAccess(req[r].rt)
             v == IF p = Null THEN 0 ELSE at[p].version
  <2>1. p \in Pks \union {Null} /\ req[r] \in Local
    BY <1>6, PreviousAccessType DEF TypeOK, InstanceExists, LockInstance
  <2>2. req' = [req EXCEPT ![r].pc = "locked", ![r].prev = p, ![r].version = v]
    BY <1>6 DEF LockInstance
  <2> HIDE DEF p
  <2>5. v \in 0 .. MaxWrites
    BY <2>1 DEF TypeOK, AccessRow
  <2> HIDE DEF v
  <2>3. req' \in [Requests -> Local]
    BY <2>1, <2>2, <2>5 DEF TypeOK, Local
  <2>4. QED
    BY <1>0, <1>6, <2>3 DEF LockInstance, TypeOK, db
<1>7. ASSUME NEW r \in Requests, CreatePair(r) PROVE TypeOK'
  <2> DEFINE k == req[r].rt
             t == IF Rotate THEN nextPk ELSE rt[k].token
  <2>1. k \in Pks /\ {k} \in SUBSET Pks /\ nextPk \in Pks /\ req[r] \in Local
    BY <1>7 DEF TypeOK, InstanceExists, CreatePair
  <2>2. rt[k].family \in Pks /\ t \in Pks
    BY <2>1 DEF TypeOK, RefreshRow
  <2>3. [token |-> t, family |-> rt[k].family, revoked |-> Null, access |-> nextPk]
          \in RefreshRow
    BY <2>1, <2>2 DEF RefreshRow
  <2>4. [source |-> k, scope |-> req[r].scopes, version |-> 0] \in AccessRow
    BY <2>1 DEF AccessRow, Local
  <2>5. rt' \in [Pks -> RefreshRow]
    BY <1>7, <2>1, <2>3, RevokedTableType DEF CreatePair
  <2>6. at' \in [Pks -> AccessRow]
    BY <1>7, <2>4 DEF CreatePair, TypeOK
  <2>7. rtRows' \subseteq Pks /\ atRows' \subseteq Pks
    BY <1>7, <2>1, AccessWithoutType DEF CreatePair, TypeOK
  <2>8. nextPk' \in 1 .. MaxPk + 1
    BY <1>7, <2>1 DEF CreatePair, Pks
  <2>9. req' \in [Requests -> Local] /\ reply' \in Reply
    BY <1>7, <2>1, <2>2, CommitType, ConstantsAssumption DEF CreatePair
  <2>10. QED
    BY <1>7, <2>5, <2>6, <2>7, <2>8, <2>9 DEF CreatePair, TypeOK
<1>8. ASSUME NEW r \in Requests, ReturnExisting(r) PROVE TypeOK'
  <2>1. {req[r].rt} \in SUBSET Pks /\ req[r].prev \in Pks
    BY <1>8 DEF TypeOK, InstanceExists, ReturnExisting, Local
  <2>2. req[r].version \in 0 .. MaxWrites /\ \A j \in PairOf(r) : rt[j].token \in Pks
    BY DEF TypeOK, PairOf, BoundTo, RefreshRow, Local
  <2>3. req' \in [Requests -> Local] /\ reply' \in Reply
    BY <1>8, <2>1, <2>2, CommitType, FinishType, AnswerType DEF ReturnExisting
  <2>4. rt' \in [Pks -> RefreshRow] /\ atRows' \subseteq Pks
    BY <1>8, <2>1, RevokedTableType, AccessWithoutType DEF ReturnExisting, TypeOK
  <2>5. QED
    BY <1>8, <2>3, <2>4 DEF ReturnExisting, TypeOK
<1>9. ASSUME NEW r \in Requests, NEW k \in Pks, SweepStep(r, k) PROVE TypeOK'
  <2>1. rt' \in [Pks -> RefreshRow] /\ atRows' \subseteq Pks
    BY <1>9, RevokedTableType, AccessWithoutType DEF SweepStep
  <2>2. req' \in [Requests -> Local]
    BY <1>9 DEF SweepStep, TypeOK, Local
  <2>3. QED
    BY <1>0, <1>9, <2>1, <2>2 DEF SweepStep, TypeOK
<1>10. ASSUME NEW r \in Requests, SweepDone(r) PROVE TypeOK'
  <2>1. req' \in [Requests -> Local] /\ reply' \in Reply
    BY <1>10, FinishType, AnswerType DEF SweepDone
  <2>2. ended' \in [Pks -> 0 .. MaxPk]
    BY <1>10 DEF SweepDone, TypeOK, Local
  <2>3. QED
    BY <1>10, <2>1, <2>2 DEF SweepDone, TypeOK, db
<1>11. ASSUME NEW r \in Requests, Abort(r) PROVE TypeOK'
  BY <1>11, FinishType, AnswerType DEF Abort, NoAnswer, TypeOK, db
<1>12. ASSUME NEW x \in Pks, RevokeRefreshToken(x) PROVE TypeOK'
  <2>1. {x} \in SUBSET Pks
    OBVIOUS
  <2>2. rt' \in [Pks -> RefreshRow] /\ atRows' \subseteq Pks
    BY <1>12, <2>1, RevokedTableType, AccessWithoutType DEF RevokeRefreshToken
  <2>3. QED
    BY <1>0, <1>12, <2>2 DEF RevokeRefreshToken, TypeOK
<1>13. ASSUME NEW a \in Pks, RevokeAccessToken(a) PROVE TypeOK'
  <2>1. ASSUME NEW k \in Pks PROVE [rt[k] EXCEPT !.access = Null] \in RefreshRow
    <3>1. rt[k] \in RefreshRow
      BY DEF TypeOK
    <3>2. QED
      BY <3>1 DEF RefreshRow
  <2>2. rt' \in [Pks -> RefreshRow]
    BY <1>13, <2>1 DEF RevokeAccessToken, TypeOK
  <2>3. QED
    BY <1>0, <1>13, <2>2 DEF RevokeAccessToken, TypeOK
<1>14. ASSUME NEW r \in Requests, Deliver(r) PROVE TypeOK'
  <2>1. req[r] \in Local
    BY DEF TypeOK
  <2>2. Tokens(req[r].access, req[r].refresh) \in Reply /\ Answer("error") \in Reply
    BY <2>1, AnswerType DEF Tokens, Reply, Local
  <2>3. req' \in [Requests -> Local] /\ reply' \in Reply
    <3>1. Finish(r, Tokens(req[r].access, req[r].refresh)) \/ Finish(r, Answer("error"))
      BY <1>14 DEF Deliver
    <3>2. QED
      BY <2>2, <3>1, FinishType
  <2>4. QED
    BY <1>14, <2>3 DEF Deliver, TypeOK, db
<1>15. CASE UNCHANGED vars
  BY <1>15 DEF vars, TypeOK
<1>16. QED
  BY <1>1, <1>2, <1>3, <1>4, <1>5, <1>6, <1>7, <1>8, <1>9, <1>10, <1>11, <1>12, <1>13,
     <1>14, <1>15
     DEF Next, Serve

LEMMA TypeInit == Init => TypeOK /\ InstanceExists
  BY ConstantsAssumption, IdleType, AnswerType
     DEF Init, TypeOK, InstanceExists, RefreshRow, AccessRow, Pks, Time, NoAnswer, Idle

(* The tables, the workers' copies and the answers keep their types, for    *)
(* any number of workers and rows and any setting of the module.            *)
THEOREM TypeCorrect == Spec => []TypeOK
<1>1. Spec => [](TypeOK /\ InstanceExists)
  BY TypeInit, TypeStep, InstanceStep, PTL DEF Spec
<1>2. QED
  BY <1>1, PTL

-----------------------------------------------------------------------------
(* The strengthening of NoOrphanAccess: the two rows of a pair share their  *)
(* key, and the access token exists exactly while the link is set.          *)
Links ==
  /\ \A k \in rtRows : k < nextPk
  /\ atRows \subseteq rtRows
  /\ \A k \in rtRows : /\ rt[k].access # Null => rt[k].access = k /\ Live(k)
                       /\ k \in atRows <=> rt[k].access = k

(* Revoking any rows unlinks exactly the access tokens it deletes.          *)
LEMMA RevokedLinks ==
  ASSUME TypeOK, Links, NEW K \in SUBSET Pks, K \subseteq rtRows, NEW k \in rtRows
  PROVE  /\ RevokedTable(K)[k].access # Null =>
              RevokedTable(K)[k].access = k /\ RevokedTable(K)[k].revoked = Null
         /\ k \in AccessWithout(K) <=> RevokedTable(K)[k].access = k
<1>1. k \in Pks /\ k # Null
  BY ConstantsAssumption DEF TypeOK, Pks
<1>2. CASE k \in K /\ Live(k)
  <2>1. rt[k].access = k => k \in {rt[j].access : j \in StillLive(K)}
    BY <1>2 DEF StillLive
  <2>2. k \notin AccessWithout(K)
    BY <2>1 DEF AccessWithout, Links
  <2>3. QED
    BY <1>1, <1>2, <2>2, RevokedTableFacts DEF Links
<1>3. CASE ~(k \in K /\ Live(k))
  <2>1. ASSUME NEW j \in StillLive(K) PROVE rt[j].access # k
    BY <1>1, <1>3 DEF StillLive, Links
  <2>2. k \in AccessWithout(K) <=> k \in atRows
    BY <2>1 DEF AccessWithout
  <2>3. QED
    BY <1>1, <1>3, <2>2, RevokedTableFacts DEF Links, Live
<1>4. QED
  BY <1>2, <1>3

LEMMA RevokeStepLinks ==
  ASSUME TypeOK, Links, NEW K \in SUBSET Pks, K \subseteq rtRows,
         rt' = RevokedTable(K), atRows' = AccessWithout(K), UNCHANGED <<rtRows, nextPk>>
  PROVE  Links'
<1>1. \A k \in rtRows : k < nextPk
  BY DEF Links
<1>2. AccessWithout(K) \subseteq rtRows
  BY DEF Links, AccessWithout
<1>3. QED
  BY <1>1, <1>2, RevokedLinks DEF Links, Live

LEMMA LinksStep ==
  TypeOK /\ InstanceExists /\ Links /\ [Next]_vars => Links'
<1> SUFFICES ASSUME TypeOK, InstanceExists, Links, [Next]_vars PROVE Links'
  OBVIOUS
<1> USE ConstantsAssumption
<1>1. ASSUME NEW scope \in SUBSET Scopes, IssueTokens(scope) PROVE Links'
  <2>1. nextPk \in Pks /\ nextPk \notin rtRows /\ nextPk # Null
    BY <1>1 DEF IssueTokens, Links, Pks, TypeOK
  <2>2. \A k \in rtRows : k < nextPk' /\ k # nextPk /\ rt'[k] = rt[k]
    BY <1>1, <2>1 DEF IssueTokens, Links, TypeOK, Pks
  <2>3. rt'[nextPk].access = nextPk /\ rt'[nextPk].revoked = Null /\ nextPk < nextPk'
    BY <1>1, <2>1 DEF IssueTokens, TypeOK
  <2>4. rtRows' = rtRows \union {nextPk} /\ atRows' = atRows \union {nextPk}
    BY <1>1 DEF IssueTokens
  <2>5. nextPk \notin atRows /\ atRows' \subseteq rtRows'
    BY <2>1, <2>4 DEF Links
  <2>6. \A k \in rtRows' : /\ rt'[k].access # Null => rt'[k].access = k /\ rt'[k].revoked = Null
                           /\ k \in atRows' <=> rt'[k].access = k
    BY <2>1, <2>2, <2>3, <2>4 DEF Links, Live
  <2>7. QED
    BY <2>2, <2>3, <2>4, <2>5, <2>6 DEF Links, Live
<1>2. ASSUME NEW r \in Requests, CreatePair(r) PROVE Links'
  <2> DEFINE k == req[r].rt
  <2>1. k \in rtRows /\ {k} \in SUBSET Pks /\ {k} \subseteq rtRows
    BY <1>2 DEF TypeOK, InstanceExists, CreatePair
  <2>2. nextPk \in Pks /\ nextPk \notin rtRows /\ nextPk # Null
    BY <1>2 DEF CreatePair, Links, Pks, TypeOK
  <2>3. /\ rt' = [RevokedTable({k}) EXCEPT ![nextPk] = rt'[nextPk]]
        /\ rt'[nextPk].access = nextPk /\ rt'[nextPk].revoked = Null
    BY <1>2, <2>1, <2>2, RevokedTableType DEF CreatePair
  <2>4. \A j \in rtRows : j < nextPk' /\ j # nextPk /\ rt'[j] = RevokedTable({k})[j]
    <3>1. \A j \in rtRows : j \in Pks /\ j < nextPk /\ j # nextPk
      BY <2>2 DEF Links, TypeOK
    <3>2. RevokedTable({k}) \in [Pks -> RefreshRow]
      BY <2>1, RevokedTableType
    <3>3. nextPk' = nextPk + 1
      BY <1>2 DEF CreatePair
    <3>4. ASSUME NEW j \in rtRows PROVE rt'[j] = RevokedTable({k})[j]
      BY <2>3, <3>1, <3>2
    <3>5. \A j \in rtRows : j < nextPk'
      BY <3>1, <3>3, ConstantsAssumption DEF Pks, TypeOK
    <3>6. QED
      BY <3>1, <3>4, <3>5
  <2>5. atRows' = AccessWithout({k}) \union {nextPk} /\ rtRows' = rtRows \union {nextPk}
        /\ nextPk < nextPk' /\ AccessWithout({k}) \subseteq rtRows
    BY <1>2, <2>2 DEF CreatePair, AccessWithout, Links, Pks
  <2>6. ASSUME NEW j \in rtRows
        PROVE  /\ rt'[j].access # Null => rt'[j].access = j /\ rt'[j].revoked = Null
               /\ j \in AccessWithout({k}) <=> rt'[j].access = j
    <3> HIDE DEF k
    <3>1. /\ RevokedTable({k})[j].access # Null =>
               RevokedTable({k})[j].access = j /\ RevokedTable({k})[j].revoked = Null
          /\ j \in AccessWithout({k}) <=> RevokedTable({k})[j].access = j
      BY <2>1, RevokedLinks
    <3>2. QED
      BY <2>4, <3>1
  <2>7. QED
    BY <2>2, <2>3, <2>4, <2>5, <2>6 DEF Links, Live
<1>3. ASSUME NEW r \in Requests, ReturnExisting(r) PROVE Links'
  <2>1. {req[r].rt} \in SUBSET Pks /\ {req[r].rt} \subseteq rtRows
    BY <1>3 DEF TypeOK, InstanceExists, ReturnExisting
  <2>2. CASE rt' = RevokedTable({req[r].rt}) /\ atRows' = AccessWithout({req[r].rt})
    BY <1>3, <2>1, <2>2, RevokeStepLinks DEF ReturnExisting
  <2>3. CASE UNCHANGED <<rt, atRows>>
    BY <1>3, <2>3 DEF ReturnExisting, Links, Live
  <2>4. QED
    BY <1>3, <2>2, <2>3 DEF ReturnExisting
<1>4. ASSUME NEW r \in Requests, NEW k \in Pks, SweepStep(r, k) PROVE Links'
  <2>1. {k} \in SUBSET Pks /\ {k} \subseteq rtRows
    BY <1>4 DEF SweepStep, InstanceExists
  <2>2. QED
    BY <1>4, <2>1, RevokeStepLinks DEF SweepStep
<1>5. ASSUME NEW x \in Pks, RevokeRefreshToken(x) PROVE Links'
  BY <1>5, RevokeStepLinks DEF RevokeRefreshToken, Rows, TypeOK
<1>6. ASSUME NEW a \in Pks, RevokeAccessToken(a) PROVE Links'
  <2>1. a \in rtRows /\ rt[a].access = a /\ BoundTo(a) = {a} /\ a # Null
    BY <1>6 DEF RevokeAccessToken, Links, BoundTo, Pks
  <2>2. rt'[a].access = Null /\ \A k \in rtRows \ {a} : rt'[k] = rt[k]
    BY <1>6, <2>1 DEF RevokeAccessToken, TypeOK, RefreshRow
  <2>3. QED
    BY <1>6, <2>1, <2>2 DEF RevokeAccessToken, Links, Live
<1>7. CASE UNCHANGED <<rtRows, rt, atRows, nextPk>>
  BY <1>7 DEF Links, Live
<1>8. ASSUME NEW r \in Requests,
             \/ \E t \in Pks, same \in BOOLEAN : ValidateRefreshToken(r, t, same)
             \/ \E asked \in SUBSET Scopes : GetOriginalScopes(r, asked)
             \/ ReuseAccessToken(r) \/ LockInstance(r) \/ Deliver(r) \/ SweepDone(r) \/ Abort(r)
      PROVE  Links'
  BY <1>7, <1>8 DEF ValidateRefreshToken, GetOriginalScopes, ReuseAccessToken,
                    LockInstance, Deliver, SweepDone, Abort, db
<1>9. CASE Tick \/ UNCHANGED vars
  BY <1>7, <1>9 DEF Tick, vars
<1>10. QED
  BY <1>1, <1>2, <1>3, <1>4, <1>5, <1>6, <1>8, <1>9 DEF Next, Serve

LEMMA LinksInit == Init => Links
  BY DEF Init, Links

(* No bearer token outlives the revocation of its refresh token, and no     *)
(* link dangles, whatever the workers interleave.                           *)
THEOREM NoOrphanAccessTheorem == Spec => []NoOrphanAccess
<1>1. Spec => [](TypeOK /\ InstanceExists /\ Links)
  BY TypeInit, LinksInit, TypeStep, InstanceStep, LinksStep, PTL DEF Spec
<1>2. TypeOK /\ Links => NoOrphanAccess
  <2> SUFFICES ASSUME TypeOK, Links PROVE NoOrphanAccess
    OBVIOUS
  <2>1. \A a \in atRows : a \in rtRows /\ rt[a].access = a /\ Live(a)
    BY ConstantsAssumption DEF TypeOK, Links, Pks
  <2>2. \A k \in rtRows : rt[k].access # Null => rt[k].access = k /\ k \in atRows /\ Live(k)
    BY DEF Links
  <2>3. QED
    BY <2>1, <2>2 DEF NoOrphanAccess
<1>3. QED
  BY <1>1, <1>2, PTL

-----------------------------------------------------------------------------
(* What a step may do to a refresh token row: the family stays, a stamp     *)
(* stays, and a new stamp is the present.                                   *)
RowKept(k) ==
  /\ k \in rtRows'
  /\ rt'[k].family = rt[k].family
  /\ rt'[k].revoked = rt[k].revoked \/ (Live(k) /\ rt'[k].revoked = now)

LEMMA RowHistory ==
  TypeOK /\ InstanceExists /\ Links /\ [Next]_vars => \A k \in rtRows : RowKept(k)
<1> SUFFICES ASSUME TypeOK, InstanceExists, Links, [Next]_vars, NEW k \in rtRows
             PROVE  RowKept(k)
  OBVIOUS
<1>0. k \in Pks /\ (nextPk \in Pks => k # nextPk)
  BY DEF TypeOK, Links, Pks
<1>1. ASSUME NEW K \in SUBSET Pks, rt'[k] = RevokedTable(K)[k], k \in rtRows' PROVE RowKept(k)
  <2>1. CASE k \in K /\ Live(k)
    BY <1>0, <1>1, <2>1, RevokedTableFacts DEF RowKept
  <2>2. CASE ~(k \in K /\ Live(k))
    BY <1>0, <1>1, <2>2, RevokedTableFacts DEF RowKept
  <2>3. QED
    BY <2>1, <2>2
<1>2. CASE rt'[k] = rt[k] /\ k \in rtRows'
  BY <1>2 DEF RowKept
<1>3. ASSUME NEW scope \in SUBSET Scopes, IssueTokens(scope) PROVE RowKept(k)
  BY <1>0, <1>2, <1>3 DEF IssueTokens, TypeOK
<1>4. ASSUME NEW r \in Requests, CreatePair(r) PROVE RowKept(k)
  <2> DEFINE K == {req[r].rt}
  <2>1. K \in SUBSET Pks
    BY <1>4 DEF TypeOK, InstanceExists, CreatePair
  <2>2. rt'[k] = RevokedTable(K)[k]
    BY <1>0, <1>4, <2>1, RevokedTableType DEF CreatePair
  <2>3. QED
    BY <1>1, <1>4, <2>1, <2>2 DEF CreatePair
<1>5. ASSUME NEW r \in Requests, ReturnExisting(r) PROVE RowKept(k)
  <2>1. {req[r].rt} \in SUBSET Pks
    BY <1>5 DEF TypeOK, InstanceExists, ReturnExisting
  <2>2. QED
    BY <1>1, <1>2, <1>5, <2>1 DEF ReturnExisting
<1>6. ASSUME NEW r \in Requests, NEW j \in Pks, SweepStep(r, j) PROVE RowKept(k)
  <2>1. {j} \in SUBSET Pks
    OBVIOUS
  <2>2. QED
    BY <1>1, <1>6, <2>1 DEF SweepStep
<1>7. ASSUME NEW x \in Pks, RevokeRefreshToken(x) PROVE RowKept(k)
  <2>1. {x} \in SUBSET Pks
    OBVIOUS
  <2>2. QED
    BY <1>1, <1>7, <2>1 DEF RevokeRefreshToken
<1>8. ASSUME NEW a \in Pks, RevokeAccessToken(a) PROVE RowKept(k)
  <2>1. /\ [rt[k] EXCEPT !.access = Null].family = rt[k].family
        /\ [rt[k] EXCEPT !.access = Null].revoked = rt[k].revoked
    BY <1>0 DEF TypeOK, RefreshRow
  <2>2. QED
    BY <1>0, <1>8, <2>1 DEF RevokeAccessToken, RowKept
<1>9. ASSUME NEW r \in Requests,
             \/ \E t \in Pks, same \in BOOLEAN : ValidateRefreshToken(r, t, same)
             \/ \E asked \in SUBSET Scopes : GetOriginalScopes(r, asked)
             \/ ReuseAccessToken(r) \/ LockInstance(r) \/ Deliver(r) \/ SweepDone(r) \/ Abort(r)
      PROVE  RowKept(k)
  BY <1>2, <1>9 DEF ValidateRefreshToken, GetOriginalScopes, ReuseAccessToken,
                    LockInstance, Deliver, SweepDone, Abort, db
<1>10. CASE Tick \/ UNCHANGED vars
  BY <1>2, <1>10 DEF Tick, vars
<1>11. QED
  BY <1>3, <1>4, <1>5, <1>6, <1>7, <1>8, <1>9, <1>10 DEF Next, Serve

(* A revocation stamp is never cleared or moved.                            *)
THEOREM RevocationFinalTheorem == Spec => RevocationFinal
<1>1. Spec => [](TypeOK /\ InstanceExists /\ Links)
  BY TypeInit, LinksInit, TypeStep, InstanceStep, LinksStep, PTL DEF Spec
<1>2. TypeOK /\ InstanceExists /\ Links /\ [Next]_vars =>
        [\A k \in rtRows : ~Live(k) => k \in rtRows' /\ rt'[k].revoked = rt[k].revoked]_vars
  BY RowHistory DEF RowKept
<1>3. QED
  BY <1>1, <1>2, PTL DEF Spec, RevocationFinal

-----------------------------------------------------------------------------
(* A worker between validation and commit.                                  *)
Validated(r) == req[r].pc \in {"scopes", "save", "locked"}

(* A worker comes into that state only with a row within its grace period,  *)
(* and keeps its row while it is there.                                     *)
LEMMA WorkerHistory ==
  ASSUME TypeOK, InstanceExists, [Next]_vars, NEW r \in Requests, Validated(r)'
  PROVE  \/ Validated(r) /\ req'[r].rt = req[r].rt
         \/ req'[r].rt \in rtRows /\ ~GraceOver(req'[r].rt)
<1> USE DEF Validated
<1>1. CASE req'[r] = req[r]
  BY <1>1
<1>2. ASSUME NEW s \in Requests, NEW answer, Finish(s, answer)
      PROVE  req'[r] = req[r]
  BY <1>2, FinishFacts
<1>3. ASSUME NEW s \in Requests, NEW t \in Pks, NEW same \in BOOLEAN,
             ValidateRefreshToken(s, t, same)
      PROVE  req'[r] = req[r] \/ (req'[r].rt \in rtRows /\ ~GraceOver(req'[r].rt))
  <2>1. ASSUME NEW k \in FirstRow(t), StartSweep(s, k) PROVE req'[r] = req[r]
    BY <2>1, StartSweepFacts DEF FirstRow, Rows, TypeOK
  <2>2. ASSUME NEW k \in FirstRow(t), Accept(s, k), ~GraceOver(k)
        PROVE  req'[r] = req[r] \/ (req'[r].rt \in rtRows /\ ~GraceOver(req'[r].rt))
    BY <2>2, AcceptFacts DEF FirstRow, Rows, TypeOK
  <2>3. QED
    BY <1>2, <1>3, <2>1, <2>2 DEF ValidateRefreshToken
<1>4. ASSUME NEW s \in Requests, NEW asked \in SUBSET Scopes, GetOriginalScopes(s, asked)
      PROVE  req'[r] = req[r] \/ (Validated(r) /\ req'[r].rt = req[r].rt)
  BY <1>2, <1>4 DEF GetOriginalScopes, TypeOK, Local
<1>5. ASSUME NEW s \in Requests,
             \/ ReuseAccessToken(s) \/ CreatePair(s) \/ ReturnExisting(s)
             \/ Deliver(s) \/ SweepDone(s) \/ Abort(s)
      PROVE  req'[r] = req[r]
  <2>1. ASSUME NEW a, NEW v, NEW t, Commit(s, a, v, t) PROVE req'[r] = req[r]
    BY <2>1, CommitFacts
  <2>2. CASE ReuseAccessToken(s) \/ CreatePair(s) \/ ReturnExisting(s)
    BY <1>2, <2>1, <2>2 DEF ReuseAccessToken, CreatePair, ReturnExisting
  <2>3. CASE Deliver(s) \/ SweepDone(s) \/ Abort(s)
    BY <1>2, <2>3 DEF Deliver, SweepDone, Abort
  <2>4. QED
    BY <1>5, <2>2, <2>3
<1>6. ASSUME NEW s \in Requests, LockInstance(s)
      PROVE  req'[r] = req[r] \/ (Validated(r) /\ req'[r].rt = req[r].rt)
  BY <1>6 DEF LockInstance, TypeOK, Local
<1>7. ASSUME NEW s \in Requests, NEW k \in Pks, SweepStep(s, k) PROVE req'[r] = req[r]
  BY <1>7 DEF SweepStep, TypeOK, Local
<1>8. CASE \/ Tick \/ UNCHANGED vars
           \/ \E scope \in SUBSET Scopes : IssueTokens(scope)
           \/ \E k \in Pks : RevokeRefreshToken(k)
           \/ \E a \in Pks : RevokeAccessToken(a)
  BY <1>8 DEF Tick, vars, IssueTokens, RevokeRefreshToken, RevokeAccessToken
<1>9. QED
  BY <1>1, <1>3, <1>4, <1>5, <1>6, <1>7, <1>8 DEF Next, Serve

(* A new row starts a family of its own or joins that of a locked instance; *)
(* clock and keys only grow.                                                *)
LEMMA Growth ==
  ASSUME TypeOK, InstanceExists, [Next]_vars
  PROVE  /\ now =< now' /\ nextPk =< nextPk'
         /\ \A k \in rtRows' \ rtRows :
              /\ nextPk < nextPk' /\ k = nextPk
              /\ \/ rt'[k].family = nextPk
                 \/ \E r \in Requests : Validated(r) /\ rt'[k].family = rt[req[r].rt].family
<1> USE ConstantsAssumption
<1>0. now \in Int /\ nextPk \in Int
  BY DEF TypeOK, Time
<1>1. CASE Tick
  BY <1>0, <1>1 DEF Tick
<1>2. ASSUME NEW scope \in SUBSET Scopes, IssueTokens(scope)
      PROVE  /\ now = now' /\ nextPk < nextPk' /\ rtRows' = rtRows \union {nextPk}
             /\ rt'[nextPk].family = nextPk
  BY <1>0, <1>2 DEF IssueTokens, TypeOK
<1>3. ASSUME NEW r \in Requests, CreatePair(r)
      PROVE  /\ now = now' /\ nextPk < nextPk' /\ rtRows' = rtRows \union {nextPk}
             /\ Validated(r) /\ rt'[nextPk].family = rt[req[r].rt].family
  <2>1. {req[r].rt} \in SUBSET Pks
    BY <1>3 DEF TypeOK, InstanceExists, CreatePair
  <2>2. rt'[nextPk].family = rt[req[r].rt].family
    BY <1>3, <2>1, RevokedTableType DEF CreatePair
  <2>3. QED
    BY <1>0, <1>3, <2>2 DEF CreatePair, Validated
<1>4. CASE UNCHANGED <<rtRows, now, nextPk>>
  BY <1>0, <1>4
<1>5. ASSUME NEW r \in Requests,
             \/ \E t \in Pks, same \in BOOLEAN : ValidateRefreshToken(r, t, same)
             \/ \E asked \in SUBSET Scopes : GetOriginalScopes(r, asked)
             \/ ReuseAccessToken(r) \/ LockInstance(r) \/ ReturnExisting(r)
             \/ \E k \in Pks : SweepStep(r, k)
             \/ Deliver(r) \/ SweepDone(r) \/ Abort(r)
      PROVE  UNCHANGED <<rtRows, now, nextPk>>
  BY <1>5 DEF ValidateRefreshToken, GetOriginalScopes, ReuseAccessToken, LockInstance,
              ReturnExisting, SweepStep, Deliver, SweepDone, Abort, db
<1>6. ASSUME \/ UNCHANGED vars
             \/ \E k \in Pks : RevokeRefreshToken(k)
             \/ \E a \in Pks : RevokeAccessToken(a)
      PROVE  UNCHANGED <<rtRows, now, nextPk>>
  BY <1>6 DEF vars, RevokeRefreshToken, RevokeAccessToken
<1>7. \/ Tick \/ UNCHANGED <<rtRows, now, nextPk>>
      \/ \E scope \in SUBSET Scopes : IssueTokens(scope)
      \/ \E r \in Requests : CreatePair(r)
  BY <1>5, <1>6 DEF Next, Serve
<1>8. CASE \E scope \in SUBSET Scopes : IssueTokens(scope)
  <2>1. PICK scope \in SUBSET Scopes : IssueTokens(scope)
    BY <1>8
  <2>2. /\ now = now' /\ nextPk < nextPk' /\ rtRows' = rtRows \union {nextPk}
        /\ rt'[nextPk].family = nextPk
    BY <1>2, <2>1
  <2>3. now =< now' /\ nextPk =< nextPk'
    BY <1>0, <2>1, <2>2 DEF IssueTokens
  <2>4. QED
    BY <2>2, <2>3
<1>9. CASE \E r \in Requests : CreatePair(r)
  <2>1. PICK r \in Requests : CreatePair(r)
    BY <1>9
  <2>2. /\ now = now' /\ nextPk < nextPk' /\ rtRows' = rtRows \union {nextPk}
        /\ Validated(r) /\ rt'[nextPk].family = rt[req[r].rt].family
    BY <1>3, <2>1
  <2>3. now =< now' /\ nextPk =< nextPk'
    BY <1>0, <2>1, <2>2 DEF CreatePair
  <2>4. QED
    BY <2>2, <2>3
<1>10. QED
  BY <1>1, <1>4, <1>7, <1>8, <1>9

(* Once every token of a family is revoked beyond its grace period and no   *)
(* worker holds one, the family stays so: the session never comes back.     *)
THEOREM DeadFamilyTheorem == Spec => DeadFamilyStaysDead
<1> DEFINE Inv == TypeOK /\ InstanceExists /\ Links
<1>1. Spec => []Inv
  BY TypeInit, LinksInit, TypeStep, InstanceStep, LinksStep, PTL DEF Spec
<1>2. ASSUME Inv, Inv', [Next]_vars, NEW f \in Pks, Dead(f) PROVE Dead(f)'
  <2>1. f < nextPk'
    BY <1>2, Growth DEF Dead, TypeOK, Pks
  <2>2. ASSUME NEW k \in rtRows', rt'[k].family = f
        PROVE  rt'[k].revoked # Null /\ rt'[k].revoked + Grace =< now'
    <3>1. k \in rtRows
      BY <1>2, <2>2, Growth DEF Dead, Validated, Pks
    <3>2. RowKept(k)
      BY <1>2, <3>1, RowHistory
    <3>3. rt[k].revoked # Null /\ rt[k].revoked + Grace =< now
      BY <1>2, <2>2, <3>1, <3>2 DEF Dead, Family, RowKept
    <3>4. rt'[k].revoked = rt[k].revoked
      BY <3>2, <3>3 DEF RowKept, Live
    <3>5. rt[k].revoked \in Int /\ now \in Int /\ now' \in Int /\ now =< now'
      BY <1>2, <3>1, <3>3, Growth, ConstantsAssumption DEF TypeOK, RefreshRow, Time
    <3>6. QED
      BY <3>3, <3>4, <3>5, ConstantsAssumption
  <2>3. ASSUME NEW r \in Requests, Validated(r)' PROVE rt'[req'[r].rt].family # f
    <3>1. CASE Validated(r) /\ req'[r].rt = req[r].rt
      <4>1. req[r].rt \in rtRows /\ rt[req[r].rt].family # f
        BY <1>2, <3>1 DEF Dead, Validated, InstanceExists
      <4>2. QED
        BY <1>2, <3>1, <4>1, RowHistory DEF RowKept
    <3>2. CASE req'[r].rt \in rtRows /\ ~GraceOver(req'[r].rt)
      <4> DEFINE k == req'[r].rt
      <4>1. rt[k].revoked \in Time \union {Null} /\ now \in Time
        BY <1>2, <3>2 DEF TypeOK, RefreshRow
      <4>2. rt[k].revoked # Null => ~(rt[k].revoked + Grace =< now)
        BY <3>2, <4>1, ConstantsAssumption DEF GraceOver, Time
      <4>3. rt[k].family # f
        BY <1>2, <3>2, <4>2 DEF Dead, Family
      <4>4. QED
        BY <1>2, <3>2, <4>3, RowHistory DEF RowKept
    <3>3. QED
      BY <1>2, <2>3, <3>1, <3>2, WorkerHistory
  <2>4. QED
    BY <2>1, <2>2, <2>3 DEF Dead, Family, Validated
<1>3. Inv /\ Inv' /\ [Next]_vars => [\A f \in Pks : Dead(f) => Dead(f)']_vars
  BY <1>2
<1>4. QED
  BY <1>1, <1>3, PTL DEF Spec, DeadFamilyStaysDead

-----------------------------------------------------------------------------
(* The strengthening of SingleSuccessor: no two workers hold the lock of    *)
(* one row, and while a worker that found no earlier use holds it, none     *)
(* appears.                                                                 *)
LockExclusive ==
  \A r, s \in Requests :
    req[r].pc = "locked" /\ req[s].pc = "locked" /\ req[r].rt = req[s].rt => r = s

StillUnused ==
  \A r \in Requests : req[r].pc = "locked" /\ req[r].prev = Null => Children(req[r].rt) = {}

(* The strengthening of SourceSpent.                                        *)
SourceRevoked ==
  \A a \in atRows : at[a].source # Null =>
    /\ at[a].source \in rtRows
    /\ ~Live(at[a].source)
    /\ rt[a].family = rt[at[a].source].family

(* Access token rows appear only when tokens are issued or a pair is made.  *)
SourcesKept ==
  /\ atRows' \subseteq atRows
  /\ \A a \in atRows' : at'[a].source = at[a].source
  /\ rtRows' = rtRows

LEMMA AccessHistory ==
  ASSUME TypeOK, InstanceExists, [Next]_vars
  PROVE  \/ \E scope \in SUBSET Scopes : IssueTokens(scope)
         \/ \E r \in Requests : CreatePair(r)
         \/ SourcesKept
<1>1. CASE UNCHANGED <<atRows, at, rtRows>>
  BY <1>1 DEF SourcesKept
<1>2. ASSUME NEW r \in Requests, ReuseAccessToken(r) PROVE SourcesKept
  <2>1. CASE at' = at
    BY <1>2, <2>1 DEF ReuseAccessToken, SourcesKept
  <2>2. CASE at' = [at EXCEPT ![req[r].access].scope = req[r].scopes,
                              ![req[r].access].version = @ + 1]
    <3>1. \A a \in Pks : at'[a].source = at[a].source
      BY <2>2 DEF TypeOK, AccessRow
    <3>2. QED
      BY <1>2, <3>1 DEF ReuseAccessToken, SourcesKept, TypeOK
  <2>3. QED
    BY <1>2, <2>1, <2>2 DEF ReuseAccessToken
<1>3. ASSUME NEW r \in Requests,
             ReturnExisting(r) \/ \E k \in Pks : SweepStep(r, k)
      PROVE  SourcesKept
  BY <1>3 DEF ReturnExisting, SweepStep, SourcesKept, AccessWithout
<1>4. CASE \/ \E k \in Pks : RevokeRefreshToken(k)
           \/ \E a \in Pks : RevokeAccessToken(a)
  BY <1>4 DEF RevokeRefreshToken, RevokeAccessToken, SourcesKept, AccessWithout
<1>5. ASSUME NEW r \in Requests,
             \/ \E t \in Pks, same \in BOOLEAN : ValidateRefreshToken(r, t, same)
             \/ \E asked \in SUBSET Scopes : GetOriginalScopes(r, asked)
             \/ LockInstance(r) \/ Deliver(r) \/ SweepDone(r) \/ Abort(r)
      PROVE  UNCHANGED <<atRows, at, rtRows>>
  BY <1>5 DEF ValidateRefreshToken, GetOriginalScopes, LockInstance, Deliver, SweepDone, Abort, db
<1>6. CASE Tick \/ UNCHANGED vars
  BY <1>1, <1>6 DEF Tick, vars
<1>7. QED
  BY <1>1, <1>2, <1>3, <1>4, <1>5, <1>6 DEF Next, Serve

(* A lock and what was read under it come from LockInstance alone.          *)
LEMMA LockHistory ==
  ASSUME TypeOK, InstanceExists, [Next]_vars,
         NEW r \in Requests, req'[r].pc = "locked"
  PROVE  \/ req'[r] = req[r]
         \/ LockInstance(r) /\ \A s \in Requests \ {r} : req'[s] = req[s]
<1>1. ASSUME NEW s \in Requests, NEW answer, Finish(s, answer)
      PROVE  req'[r] = req[r]
  BY <1>1, FinishFacts
<1>2. ASSUME NEW s \in Requests, NEW t \in Pks, NEW same \in BOOLEAN,
             ValidateRefreshToken(s, t, same)
      PROVE  req'[r] = req[r]
  <2>1. ASSUME NEW k \in FirstRow(t), StartSweep(s, k) \/ Accept(s, k) PROVE req'[r] = req[r]
    BY <2>1, StartSweepFacts, AcceptFacts DEF FirstRow, Rows, TypeOK
  <2>2. QED
    BY <1>1, <1>2, <2>1 DEF ValidateRefreshToken
<1>3. ASSUME NEW s \in Requests, NEW asked \in SUBSET Scopes, GetOriginalScopes(s, asked)
      PROVE  req'[r] = req[r]
  BY <1>1, <1>3 DEF GetOriginalScopes, TypeOK, Local
<1>4. ASSUME NEW s \in Requests,
             \/ ReuseAccessToken(s) \/ CreatePair(s) \/ ReturnExisting(s)
             \/ Deliver(s) \/ SweepDone(s) \/ Abort(s)
      PROVE  req'[r] = req[r]
  <2>1. ASSUME NEW a, NEW v, NEW t, Commit(s, a, v, t) PROVE req'[r] = req[r]
    BY <2>1, CommitFacts
  <2>2. CASE ReuseAccessToken(s) \/ CreatePair(s) \/ ReturnExisting(s)
    BY <1>1, <2>1, <2>2 DEF ReuseAccessToken, CreatePair, ReturnExisting
  <2>3. CASE Deliver(s) \/ SweepDone(s) \/ Abort(s)
    BY <1>1, <2>3 DEF Deliver, SweepDone, Abort
  <2>4. QED
    BY <1>4, <2>2, <2>3
<1>5. ASSUME NEW s \in Requests, LockInstance(s)
      PROVE  s # r => req'[r] = req[r]
  BY <1>5 DEF LockInstance, TypeOK, Local
<1>6. ASSUME LockInstance(r), NEW s \in Requests \ {r} PROVE req'[s] = req[s]
  BY <1>6 DEF LockInstance, TypeOK, Local
<1>7. ASSUME NEW s \in Requests, NEW k \in Pks, SweepStep(s, k) PROVE req'[r] = req[r]
  BY <1>7 DEF SweepStep, TypeOK, Local
<1>8. CASE \/ Tick \/ UNCHANGED vars
           \/ \E scope \in SUBSET Scopes : IssueTokens(scope)
           \/ \E k \in Pks : RevokeRefreshToken(k)
           \/ \E a \in Pks : RevokeAccessToken(a)
  BY <1>8 DEF Tick, vars, IssueTokens, RevokeRefreshToken, RevokeAccessToken
<1>9. CASE \E s \in Requests : LockInstance(s)
  <2>1. PICK s \in Requests : LockInstance(s)
    BY <1>9
  <2>2. CASE s = r
    BY <1>6, <2>1, <2>2
  <2>3. CASE s # r
    BY <1>5, <2>1, <2>3
  <2>4. QED
    BY <2>2, <2>3
<1>10. QED
  BY <1>2, <1>3, <1>4, <1>7, <1>8, <1>9 DEF Next, Serve

LEMMA LockFacts ==
  ASSUME TypeOK, InstanceExists, NEW r \in Requests, LockInstance(r)
  PROVE  /\ req'[r].pc = "locked" /\ req'[r].rt = req[r].rt
         /\ req'[r].prev = PreviousAccess(req[r].rt)
         /\ ~Locked(req[r].rt) /\ UNCHANGED <<atRows, at>>
<1> DEFINE p == PreviousAccess(req[r].rt)
           v == IF p = Null THEN 0 ELSE at[p].version
<1>1. req' = [req EXCEPT ![r].pc = "locked", ![r].prev = p, ![r].version = v]
  BY DEF LockInstance
<1>2. req[r] \in Local
  BY DEF TypeOK
<1> HIDE DEF p, v
<1>3. req'[r].pc = "locked" /\ req'[r].rt = req[r].rt /\ req'[r].prev = p
  BY <1>1, <1>2 DEF TypeOK, Local
<1>4. QED
  BY <1>3 DEF p, LockInstance, db

LEMMA LockStep ==
  /\ TypeOK /\ InstanceExists /\ Links /\ LockExclusive /\ StillUnused /\ [Next]_vars
  => LockExclusive' /\ StillUnused'
<1> SUFFICES ASSUME TypeOK, InstanceExists, Links, LockExclusive, StillUnused, [Next]_vars
             PROVE  LockExclusive' /\ StillUnused'
  OBVIOUS
<1>1. LockExclusive'
  <2> SUFFICES ASSUME NEW r \in Requests, NEW s \in Requests, r # s,
                      req'[r].pc = "locked", req'[s].pc = "locked", req'[r].rt = req'[s].rt
               PROVE  FALSE
    BY DEF LockExclusive
  <2>1. CASE req'[r] = req[r] /\ req'[s] = req[s]
    BY <2>1 DEF LockExclusive
  <2>2. ASSUME NEW x \in Requests, NEW y \in Requests, x # y, LockInstance(x), req'[y] = req[y],
               req'[y].pc = "locked", req'[x].rt = req'[y].rt
        PROVE  FALSE
    BY <2>2, LockFacts DEF Locked
  <2>3. QED
    BY <2>1, <2>2, LockHistory
<1>2. StillUnused'
  <2> SUFFICES ASSUME NEW r \in Requests, req'[r].pc = "locked", req'[r].prev = Null
               PROVE  {a \in atRows' : at'[a].source = req'[r].rt} = {}
    BY DEF StillUnused, Children
  <2>1. CASE LockInstance(r)
    <3>1. Children(req[r].rt) = {}
      <4>1. \A c \in Children(req[r].rt) : c # Null
        BY ConstantsAssumption DEF Children, TypeOK, Pks
      <4>2. QED
        BY <2>1, <4>1, LockFacts DEF PreviousAccess
    <3>2. QED
      BY <2>1, <3>1, LockFacts DEF Children
  <2>2. CASE req'[r] = req[r]
    <3>1. Children(req[r].rt) = {} /\ req[r].rt # Null
      <4>1. req[r].pc = "locked" /\ req[r].prev = Null
        BY <2>2
      <4>2. req[r].rt \in Pks /\ Children(req[r].rt) = {}
        BY <4>1 DEF StillUnused, InstanceExists, TypeOK
      <4>3. QED
        BY <4>2, KeysNotNull
    <3>2. CASE SourcesKept
      <4>1. \A a \in atRows' : a \in atRows /\ at'[a].source = at[a].source
        BY <3>2 DEF SourcesKept
      <4>2. ASSUME NEW a \in atRows' PROVE at'[a].source # req'[r].rt
        BY <2>2, <3>1, <4>1 DEF Children
      <4>3. QED
        BY <4>2
    <3>3. ASSUME NEW scope \in SUBSET Scopes, IssueTokens(scope)
          PROVE {a \in atRows' : at'[a].source = req'[r].rt} = {}
      <4>1. \A a \in Pks : at'[a].source = at[a].source \/ at'[a].source = Null
        BY <3>3 DEF IssueTokens, TypeOK
      <4>2. at'[nextPk].source = Null /\ atRows' = atRows \union {nextPk}
        BY <3>3 DEF IssueTokens, TypeOK
      <4>3. QED
        BY <2>2, <3>1, <4>1, <4>2 DEF Children, TypeOK
    <3>4. ASSUME NEW s \in Requests, CreatePair(s)
          PROVE {a \in atRows' : at'[a].source = req'[r].rt} = {}
      <4>1. req[s].pc = "locked" /\ s # r
        BY <2>2, <3>4, CommitFacts DEF CreatePair
      <4>2. req[s].rt # req[r].rt
        BY <2>2, <4>1 DEF LockExclusive
      <4>3. /\ at'[nextPk].source = req[s].rt /\ atRows' \subseteq atRows \union {nextPk}
            /\ \A a \in Pks \ {nextPk} : at'[a] = at[a]
        BY <3>4 DEF CreatePair, TypeOK, AccessWithout
      <4>4. QED
        BY <2>2, <3>1, <4>2, <4>3 DEF Children, TypeOK
    <3>5. QED
      BY <3>2, <3>3, <3>4, AccessHistory
  <2>3. QED
    BY <2>1, <2>2, LockHistory
<1>3. QED
  BY <1>1, <1>2

LEMMA SuccessorStep ==
  /\ TypeOK /\ InstanceExists /\ Links /\ StillUnused /\ SingleSuccessor /\ [Next]_vars
  => SingleSuccessor'
<1> SUFFICES ASSUME TypeOK, InstanceExists, Links, StillUnused, SingleSuccessor, [Next]_vars
             PROVE  SingleSuccessor'
  OBVIOUS
<1>1. CASE SourcesKept
  BY <1>1 DEF SourcesKept, SingleSuccessor
<1>2. ASSUME NEW n \in Pks, atRows' \subseteq atRows \union {n},
             \A a \in Pks \ {n} : at'[a] = at[a],
             at'[n].source # Null => \A a \in atRows : at[a].source # at'[n].source
      PROVE  SingleSuccessor'
  BY <1>2 DEF SingleSuccessor, TypeOK
<1>3. ASSUME NEW scope \in SUBSET Scopes, IssueTokens(scope) PROVE SingleSuccessor'
  BY <1>2, <1>3 DEF IssueTokens, TypeOK
<1>4. ASSUME NEW r \in Requests, CreatePair(r) PROVE SingleSuccessor'
  <2>1. Children(req[r].rt) = {}
    BY <1>4 DEF CreatePair, StillUnused
  <2>2. /\ at'[nextPk].source = req[r].rt /\ atRows' \subseteq atRows \union {nextPk}
        /\ nextPk \in Pks /\ \A a \in Pks \ {nextPk} : at'[a] = at[a]
    BY <1>4 DEF CreatePair, TypeOK, AccessWithout
  <2>3. QED
    BY <1>2, <2>1, <2>2 DEF Children
<1>5. QED
  BY <1>1, <1>3, <1>4, AccessHistory

LEMMA LockInit == Init => LockExclusive /\ StillUnused /\ SingleSuccessor
  BY DEF Init, LockExclusive, StillUnused, SingleSuccessor, Idle

(* However many workers present one refresh token at once, at most one      *)
(* access token names it as its source, so the unique constraint is never   *)
(* hit: the row lock and the query under it see to that.                    *)
THEOREM SingleSuccessorTheorem == Spec => []SingleSuccessor
<1> DEFINE Inv == /\ TypeOK /\ InstanceExists /\ Links
                  /\ LockExclusive /\ StillUnused /\ SingleSuccessor
<1>1. Init => Inv
  BY TypeInit, LinksInit, LockInit
<1>2. Inv /\ [Next]_vars => Inv'
  BY TypeStep, InstanceStep, LinksStep, LockStep, SuccessorStep
<1>3. QED
  BY <1>1, <1>2, PTL DEF Spec

LEMMA SourceStep ==
  /\ TypeOK /\ InstanceExists /\ Links /\ SourceRevoked /\ [Next]_vars
  => SourceRevoked'
<1> SUFFICES ASSUME TypeOK, InstanceExists, Links, SourceRevoked, [Next]_vars,
                    NEW a \in atRows', at'[a].source # Null
             PROVE  /\ at'[a].source \in rtRows'
                    /\ rt'[at'[a].source].revoked # Null
                    /\ rt'[a].family = rt'[at'[a].source].family
  BY DEF SourceRevoked, Live
<1>0. now # Null
  BY ConstantsAssumption DEF TypeOK, Time
<1>1. CASE a \in atRows /\ at'[a].source = at[a].source
  <2>1. a \in rtRows /\ at[a].source \in rtRows
    BY <1>1 DEF Links, SourceRevoked
  <2>2. RowKept(a) /\ RowKept(at[a].source)
    BY <2>1, RowHistory
  <2>3. QED
    BY <1>1, <2>1, <2>2 DEF RowKept, SourceRevoked, Live
<1>2. ASSUME NEW scope \in SUBSET Scopes, IssueTokens(scope)
      PROVE  a \in atRows /\ at'[a].source = at[a].source
  BY <1>2 DEF IssueTokens, TypeOK
<1>3. ASSUME NEW r \in Requests, CreatePair(r), a = nextPk
      PROVE  /\ at'[a].source \in rtRows'
             /\ rt'[at'[a].source].revoked # Null
             /\ rt'[a].family = rt'[at'[a].source].family
  <2> DEFINE k == req[r].rt
  <2>1. k \in rtRows /\ k \in Pks /\ {k} \in SUBSET Pks /\ nextPk \in Pks /\ k # nextPk
    <3>1. k \in rtRows /\ k \in Pks /\ nextPk \in Pks
      BY <1>3 DEF CreatePair, InstanceExists, TypeOK
    <3>2. k < nextPk
      BY <3>1 DEF Links
    <3>3. QED
      BY <3>1, <3>2, KeysNotNull
  <2>2. at'[a].source = k /\ rt'[a].family = rt[k].family
    BY <1>3, <2>1, RevokedTableType DEF CreatePair, TypeOK
  <2>3. rt'[k] = RevokedTable({k})[k]
    BY <1>3, <2>1, RevokedTableType DEF CreatePair
  <2> HIDE DEF k
  <2>4. RevokedTable({k})[k].revoked # Null
    BY <1>0, <2>1, RevokedTableFacts DEF Live
  <2>5. k \in rtRows' /\ rt'[k].family = rt[k].family
    BY <2>1, RowHistory DEF RowKept
  <2>6. QED
    BY <2>2, <2>3, <2>4, <2>5
<1>4. ASSUME NEW r \in Requests, CreatePair(r), a # nextPk
      PROVE  a \in atRows /\ at'[a].source = at[a].source
  BY <1>4 DEF CreatePair, TypeOK, AccessWithout
<1>5. QED
  BY <1>1, <1>2, <1>3, <1>4, AccessHistory DEF SourcesKept

LEMMA SourceInit == Init => SourceRevoked
  BY DEF Init, SourceRevoked

(* An access token made by a refresh belongs to the family of its source,   *)
(* and that source is spent.                                                *)
THEOREM SourceSpentTheorem == Spec => []SourceSpent
<1> DEFINE Inv == TypeOK /\ InstanceExists /\ Links /\ SourceRevoked
<1>1. Init => Inv
  BY TypeInit, LinksInit, SourceInit
<1>2. Inv /\ [Next]_vars => Inv'
  BY TypeStep, InstanceStep, LinksStep, SourceStep
<1>3. Inv => SourceSpent
  <2> SUFFICES ASSUME Inv, NEW a \in atRows, at[a].source # Null, NEW k \in BoundTo(a)
               PROVE  /\ rt[at[a].source].revoked # Null
                      /\ rt[k].family = rt[at[a].source].family
    BY DEF SourceSpent
  <2>1. k = a
    BY ConstantsAssumption DEF BoundTo, Links, TypeOK, Pks
  <2>2. QED
    BY <2>1 DEF SourceRevoked, Live
<1>4. QED
  BY <1>1, <1>2, <1>3, PTL DEF Spec

-----------------------------------------------------------------------------
(* The refinement mapping, by name.                                         *)
AbsStatus == [k \in Pks |-> Status(k)]
AbsParent == [k \in Pks |-> IF k \in rtRows THEN at[k].source ELSE Null]

(* Revoking rows is the abstract Revoke of those that were live.            *)
LEMMA RevokeRefines ==
  ASSUME TypeOK, Links, NEW K \in SUBSET Pks, K \subseteq rtRows,
         rt' = RevokedTable(K), atRows' = AccessWithout(K), UNCHANGED <<rtRows, at>>
  PROVE  Lifecycle!Revoke(StillLive(K))
<1>1. \A k \in StillLive(K) : AbsStatus[k] = "live"
  BY DEF AbsStatus, Status, StillLive
<1>2. AbsStatus' = [k \in Pks |-> IF k \in StillLive(K) THEN "revoked" ELSE AbsStatus[k]]
  <2>1. now # Null
    BY ConstantsAssumption DEF TypeOK, Time
  <2>2. ASSUME NEW k \in Pks
        PROVE  Status(k)' = IF k \in StillLive(K) THEN "revoked" ELSE Status(k)
    <3>1. CASE k \in StillLive(K)
      BY <2>1, <3>1, RevokedTableFacts DEF Status, Live, StillLive
    <3>2. CASE k \notin StillLive(K)
      BY <3>2, RevokedTableFacts DEF Status, Live, StillLive
    <3>3. QED
      BY <3>1, <3>2
  <2>3. QED
    BY <2>2 DEF AbsStatus
<1>3. atRows' = atRows \ StillLive(K)
  <2>1. ASSUME NEW a \in atRows PROVE a \in {rt[k].access : k \in StillLive(K)} <=> a \in StillLive(K)
    <3>1. a \in rtRows /\ rt[a].access = a /\ a # Null
      BY KeysNotNull DEF Links, TypeOK
    <3>2. \A k \in StillLive(K) : rt[k].access = a => k = a
      BY <3>1 DEF Links, StillLive
    <3>3. QED
      BY <3>1, <3>2
  <2>2. QED
    BY <2>1 DEF AccessWithout
<1>4. AbsParent' = AbsParent
  BY DEF AbsParent
<1>5. QED
  BY <1>1, <1>2, <1>3, <1>4 DEF Lifecycle!Revoke, AbsStatus, AbsParent

LEMMA IssueRefines ==
  ASSUME TypeOK, Links, NEW scope \in SUBSET Scopes, IssueTokens(scope)
  PROVE  Lifecycle!Issue(nextPk)
<1>1. nextPk \in Pks /\ nextPk \notin rtRows
  BY DEF IssueTokens, Links, TypeOK, Pks
<1>2. AbsStatus[nextPk] = "unissued"
  BY <1>1 DEF AbsStatus, Status
<1>3. /\ rt'[nextPk].revoked = Null /\ \A k \in Pks \ {nextPk} : rt'[k] = rt[k]
      /\ at'[nextPk].source = Null /\ \A k \in Pks \ {nextPk} : at'[k] = at[k]
      /\ rtRows' = rtRows \union {nextPk} /\ atRows' = atRows \union {nextPk}
  BY <1>1 DEF IssueTokens, TypeOK
<1>4. AbsStatus' = [AbsStatus EXCEPT ![nextPk] = "live"]
  BY <1>1, <1>3 DEF AbsStatus, Status, Live
<1>5. AbsParent' = AbsParent
  BY <1>1, <1>3 DEF AbsParent
<1>6. QED
  BY <1>2, <1>3, <1>4, <1>5 DEF Lifecycle!Issue, AbsStatus, AbsParent

LEMMA CreateRefines ==
  ASSUME TypeOK, InstanceExists, Links, StillUnused, NEW r \in Requests, CreatePair(r),
         NEW k, NEW n, k = req[r].rt, n = nextPk
  PROVE  Lifecycle!RotateTo(k, n)
<1>1. k \in rtRows /\ k \in Pks /\ n \in Pks /\ n \notin rtRows /\ now # Null
  <2>1. k \in rtRows /\ k \in Pks /\ n \in Pks
    BY DEF CreatePair, InstanceExists, TypeOK
  <2>2. n \notin rtRows /\ now # Null
    BY <2>1, KeysNotNull, ConstantsAssumption DEF Links, TypeOK, Time
  <2>3. QED
    BY <2>1, <2>2
<1>2. AbsStatus[k] # "unissued" /\ AbsStatus[n] = "unissued"
  BY <1>1 DEF AbsStatus, Status
<1>3. \A b \in atRows : AbsParent[b] # k
  <2>1. Children(k) = {}
    BY DEF CreatePair, StillUnused
  <2>2. \A b \in atRows : b \in Pks /\ AbsParent[b] = at[b].source
    BY DEF AbsParent, Links, TypeOK
  <2>3. QED
    BY <2>1, <2>2 DEF Children
<1>4. /\ rtRows' = rtRows \union {n} /\ rt'[n].revoked = Null
      /\ \A j \in Pks \ {n} : rt'[j] = RevokedTable({k})[j]
      /\ at' = [at EXCEPT ![n] = [source |-> k, scope |-> req[r].scopes, version |-> 0]]
  <2>1. RevokedTable({k}) \in [Pks -> RefreshRow]
    BY <1>1, RevokedTableType
  <2>2. QED
    BY <1>1, <2>1 DEF CreatePair
<1>5. AbsStatus' = [AbsStatus EXCEPT ![k] = "revoked", ![n] = "live"]
  <2>1. AbsStatus'[n] = "live"
    BY <1>1, <1>4 DEF AbsStatus, Status, Live
  <2>2. AbsStatus'[k] = "revoked"
    <3>1. RevokedTable({k})[k].revoked # Null
      <4>1. {k} \in SUBSET Pks /\ k \in {k}
        BY <1>1
      <4>2. CASE Live(k)
        BY <1>1, <4>1, <4>2, RevokedTableFacts
      <4>3. CASE ~Live(k)
        BY <1>1, <4>1, <4>3, RevokedTableFacts DEF Live
      <4>4. QED
        BY <4>2, <4>3
    <3>2. QED
      BY <1>1, <1>4, <3>1 DEF AbsStatus, Status, Live
  <2>3. ASSUME NEW j \in Pks, j # n, j # k PROVE AbsStatus'[j] = AbsStatus[j]
    <3>1. rt'[j] = rt[j]
      BY <1>1, <1>4, <2>3, RevokedTableFacts
    <3>2. QED
      BY <1>4, <2>3, <3>1 DEF AbsStatus, Status, Live
  <2>4. QED
    BY <1>1, <2>1, <2>2, <2>3 DEF AbsStatus
<1>6. atRows' = (atRows \ {k}) \union {n}
  <2>1. ASSUME NEW a \in atRows PROVE a \in AccessWithout({k}) <=> a # k
    <3>1. a \in rtRows /\ rt[a].access = a /\ Live(a) /\ a # Null
      BY KeysNotNull DEF Links, TypeOK
    <3>2. CASE a = k
      <4>1. a \in StillLive({k})
        BY <3>1, <3>2 DEF StillLive
      <4>2. QED
        BY <3>1, <3>2, <4>1 DEF AccessWithout
    <3>3. CASE a # k
      <4>1. \A j \in StillLive({k}) : rt[j].access # a
        BY <1>1, <3>1, <3>3 DEF StillLive, Links
      <4>2. QED
        BY <3>3, <4>1 DEF AccessWithout
    <3>4. QED
      BY <3>2, <3>3
  <2>2. AccessWithout({k}) = atRows \ {k}
    BY <2>1 DEF AccessWithout
  <2>3. QED
    BY <2>2 DEF CreatePair
<1>7. AbsParent' = [AbsParent EXCEPT ![n] = k]
  BY <1>1, <1>4 DEF AbsParent, TypeOK
<1>8. QED
  BY <1>2, <1>3, <1>5, <1>6, <1>7 DEF Lifecycle!RotateTo, AbsStatus, AbsParent

(* Every step is an abstract step or leaves the abstract state alone.       *)
LEMMA LifecycleStep ==
  /\ TypeOK /\ InstanceExists /\ Links /\ StillUnused /\ [Next]_vars
  => [Lifecycle!Next]_<<AbsStatus, atRows, AbsParent>>
<1> SUFFICES ASSUME TypeOK, InstanceExists, Links, StillUnused, [Next]_vars
             PROVE  [Lifecycle!Next]_<<AbsStatus, atRows, AbsParent>>
  OBVIOUS
<1> DEFINE Goal == [Lifecycle!Next]_<<AbsStatus, atRows, AbsParent>>
<1> USE DEF Lifecycle!Next
<1>1. ASSUME UNCHANGED <<rtRows, rt, atRows>>, \A k \in Pks : at'[k].source = at[k].source
      PROVE  Goal
  <2>1. \A k \in Pks : Status(k)' = Status(k)
    BY <1>1 DEF Status, Live
  <2>2. AbsStatus' = AbsStatus /\ AbsParent' = AbsParent
    BY <1>1, <2>1 DEF AbsStatus, AbsParent
  <2>3. QED
    BY <1>1, <2>2
<1>2. ASSUME NEW K \in SUBSET Pks, K \subseteq rtRows,
             rt' = RevokedTable(K), atRows' = AccessWithout(K), UNCHANGED <<rtRows, at>>
      PROVE  Goal
  <2>1. Lifecycle!Revoke(StillLive(K)) /\ StillLive(K) \in SUBSET Pks
    BY <1>2, RevokeRefines DEF StillLive
  <2>2. QED
    BY <2>1
<1>3. ASSUME NEW scope \in SUBSET Scopes, IssueTokens(scope) PROVE Goal
  <2>1. nextPk \in Pks /\ Lifecycle!Issue(nextPk)
    BY <1>3, IssueRefines DEF IssueTokens
  <2>2. QED
    BY <2>1
<1>4. ASSUME NEW r \in Requests, CreatePair(r) PROVE Goal
  <2>1. PICK k \in Pks, n \in Pks : k = req[r].rt /\ n = nextPk
    BY <1>4 DEF CreatePair, InstanceExists, TypeOK
  <2>2. Lifecycle!RotateTo(k, n)
    BY <1>4, <2>1, CreateRefines
  <2>3. QED
    BY <2>2
<1>5. ASSUME NEW r \in Requests, ReturnExisting(r) PROVE Goal
  <2>1. {req[r].rt} \in SUBSET Pks /\ {req[r].rt} \subseteq rtRows
    BY <1>5 DEF TypeOK, InstanceExists, ReturnExisting
  <2>2. UNCHANGED <<rtRows, at>>
    BY <1>5 DEF ReturnExisting
  <2>3. CASE rt' = RevokedTable({req[r].rt}) /\ atRows' = AccessWithout({req[r].rt})
    BY <1>2, <2>1, <2>2, <2>3
  <2>4. CASE UNCHANGED <<rt, atRows>>
    BY <1>1, <2>2, <2>4
  <2>5. QED
    BY <1>5, <2>3, <2>4 DEF ReturnExisting
<1>6. ASSUME NEW r \in Requests, NEW k \in Pks, SweepStep(r, k) PROVE Goal
  <2>1. {k} \in SUBSET Pks /\ {k} \subseteq rtRows
    BY <1>6 DEF SweepStep, InstanceExists
  <2>2. QED
    BY <1>2, <1>6, <2>1 DEF SweepStep
<1>7. ASSUME NEW x \in Pks, RevokeRefreshToken(x) PROVE Goal
  <2>1. {x} \in SUBSET Pks /\ {x} \subseteq rtRows
    BY <1>7 DEF RevokeRefreshToken
  <2>2. QED
    BY <1>2, <1>7, <2>1 DEF RevokeRefreshToken
<1>8. ASSUME NEW a \in Pks, RevokeAccessToken(a) PROVE Goal
  <2>1. \A k \in Pks : rt'[k].revoked = rt[k].revoked
    BY <1>8 DEF RevokeAccessToken, TypeOK, RefreshRow
  <2>2. \A k \in Pks : Status(k)' = Status(k)
    BY <1>8, <2>1 DEF Status, Live, RevokeAccessToken
  <2>3. AbsStatus' = AbsStatus /\ AbsParent' = AbsParent
    BY <1>8, <2>2 DEF AbsStatus, AbsParent, RevokeAccessToken
  <2>4. Lifecycle!DropBearer(a)
    BY <1>8, <2>3 DEF Lifecycle!DropBearer, AbsStatus, AbsParent, RevokeAccessToken
  <2>5. QED
    BY <2>4
<1>9. ASSUME NEW r \in Requests, ReuseAccessToken(r) PROVE Goal
  <2>1. \A k \in Pks : at'[k].source = at[k].source
    BY <1>9 DEF ReuseAccessToken, TypeOK, AccessRow
  <2>2. QED
    BY <1>1, <1>9, <2>1 DEF ReuseAccessToken
<1>10. ASSUME NEW r \in Requests,
              \/ \E t \in Pks, same \in BOOLEAN : ValidateRefreshToken(r, t, same)
              \/ \E asked \in SUBSET Scopes : GetOriginalScopes(r, asked)
              \/ LockInstance(r) \/ Deliver(r) \/ SweepDone(r) \/ Abort(r)
       PROVE  UNCHANGED <<rtRows, rt, atRows, at>>
  BY <1>10 DEF ValidateRefreshToken, GetOriginalScopes, LockInstance, Deliver, SweepDone, Abort, db
<1>11. ASSUME Tick \/ UNCHANGED vars PROVE UNCHANGED <<rtRows, rt, atRows, at>>
  BY <1>11 DEF Tick, vars
<1>12. ASSUME UNCHANGED <<rtRows, rt, atRows, at>> PROVE Goal
  BY <1>1, <1>12
<1> HIDE DEF Goal
<1>13. ASSUME NEW r \in Requests, Serve(r) PROVE Goal
  <2>1. CASE \/ \E t \in Pks, same \in BOOLEAN : ValidateRefreshToken(r, t, same)
             \/ \E asked \in SUBSET Scopes : GetOriginalScopes(r, asked)
             \/ LockInstance(r) \/ Deliver(r) \/ SweepDone(r) \/ Abort(r)
    <3>1. UNCHANGED <<rtRows, rt, atRows, at>>
      BY <1>10, <2>1
    <3>2. QED
      BY <1>12, <3>1
  <2>2. CASE \/ CreatePair(r) \/ ReturnExisting(r) \/ ReuseAccessToken(r)
             \/ \E k \in Pks : SweepStep(r, k)
    BY <1>4, <1>5, <1>6, <1>9, <2>2
  <2>3. QED
    BY <1>13, <2>1, <2>2 DEF Serve
<1>14. ASSUME Tick \/ UNCHANGED vars PROVE Goal
  BY <1>11, <1>12, <1>14
<1>15. QED
  BY <1>3, <1>7, <1>8, <1>13, <1>14 DEF Next, Goal

LEMMA LifecycleInit == Init => Lifecycle!Init
  BY DEF Init, Lifecycle!Init, Status

(* The code's life of refresh tokens, with its workers, locks, stale        *)
(* copies, clock and rollbacks, implements the abstract life cycle.         *)
THEOREM Refinement == Spec => ImplementsLifecycle
<1> DEFINE Inv == TypeOK /\ InstanceExists /\ Links /\ LockExclusive /\ StillUnused
<1>1. Init => Inv
  BY TypeInit, LinksInit, LockInit
<1>2. Inv /\ [Next]_vars => Inv'
  BY TypeStep, InstanceStep, LinksStep, LockStep
<1>3. Inv /\ [Next]_vars => [Lifecycle!Next]_(Lifecycle!lifecycle)
  BY LifecycleStep DEF Lifecycle!lifecycle, AbsStatus, AbsParent
<1>4. QED
  BY <1>1, <1>2, <1>3, LifecycleInit, PTL DEF Spec, ImplementsLifecycle, Lifecycle!Spec

-----------------------------------------------------------------------------
(* The strengthening of SweepRevokesWhatItSaw: a sweep under way has either *)
(* still to do or already revoked each row of its family up to its mark,    *)
(* and rows made later have larger keys.                                    *)
SweepProgress ==
  \A r \in Requests : req[r].pc = "sweep" =>
    /\ req[r].mark < nextPk
    /\ \A k \in rtRows : rt[k].family = rt[req[r].rt].family /\ k =< req[r].mark =>
         k \in req[r].todo \/ ~Live(k)

EndedBelow == \A f \in Pks : ended[f] < nextPk

(* How a worker comes to be in a sweep.                                     *)
LEMMA SweepHistory ==
  ASSUME TypeOK, InstanceExists, [Next]_vars, NEW r \in Requests, req'[r].pc = "sweep"
  PROVE  \/ req'[r] = req[r]
         \/ \E k \in rtRows : /\ req'[r].rt = k /\ req'[r].todo = Family(rt[k].family)
                              /\ req'[r].mark = nextPk - 1
                              /\ UNCHANGED <<rtRows, rt, nextPk>>
         \/ \E k \in req[r].todo : /\ SweepStep(r, k) /\ req[r].pc = "sweep"
                                   /\ req'[r].rt = req[r].rt /\ req'[r].mark = req[r].mark
                                   /\ req'[r].todo = req[r].todo \ {k}
<1> DEFINE Started == \E k \in rtRows : /\ req'[r].rt = k /\ req'[r].todo = Family(rt[k].family)
                                        /\ req'[r].mark = nextPk - 1
                                        /\ UNCHANGED <<rtRows, rt, nextPk>>
           Advanced == \E k \in req[r].todo :
                         /\ SweepStep(r, k) /\ req[r].pc = "sweep"
                         /\ req'[r].rt = req[r].rt /\ req'[r].mark = req[r].mark
                         /\ req'[r].todo = req[r].todo \ {k}
<1>1. ASSUME NEW s \in Requests, NEW answer, Finish(s, answer)
      PROVE  req'[r] = req[r]
  BY <1>1, FinishFacts
<1>2. ASSUME NEW s \in Requests, NEW t \in Pks, NEW same \in BOOLEAN,
             ValidateRefreshToken(s, t, same)
      PROVE  req'[r] = req[r] \/ Started
  <2>1. ASSUME NEW k \in FirstRow(t), Accept(s, k) PROVE req'[r] = req[r]
    BY <2>1, AcceptFacts DEF FirstRow, Rows, TypeOK
  <2>2. ASSUME NEW k \in FirstRow(t), StartSweep(s, k), UNCHANGED db
        PROVE  req'[r] = req[r] \/ Started
    <3>1. k \in rtRows /\ k \in Pks
      BY DEF FirstRow, Rows, TypeOK
    <3>2. CASE s = r
      <4>1. /\ req'[r].rt = k /\ req'[r].todo = Family(rt[k].family)
            /\ req'[r].mark = nextPk - 1
        BY <2>2, <3>1, <3>2, StartSweepFacts
      <4>2. QED
        BY <2>2, <3>1, <4>1 DEF db
    <3>3. CASE s # r
      BY <2>2, <3>1, <3>3, StartSweepFacts
    <3>4. QED
      BY <3>2, <3>3
  <2> HIDE DEF Started
  <2>3. QED
    BY <1>1, <1>2, <2>1, <2>2 DEF ValidateRefreshToken
<1>3. ASSUME NEW s \in Requests, NEW asked \in SUBSET Scopes, GetOriginalScopes(s, asked)
      PROVE  req'[r] = req[r]
  BY <1>1, <1>3 DEF GetOriginalScopes, TypeOK, Local
<1>4. ASSUME NEW s \in Requests,
             \/ ReuseAccessToken(s) \/ CreatePair(s) \/ ReturnExisting(s)
             \/ Deliver(s) \/ SweepDone(s) \/ Abort(s)
      PROVE  req'[r] = req[r]
  <2>1. ASSUME NEW a, NEW v, NEW t, Commit(s, a, v, t) PROVE req'[r] = req[r]
    BY <2>1, CommitFacts
  <2>2. CASE ReuseAccessToken(s) \/ CreatePair(s) \/ ReturnExisting(s)
    BY <1>1, <2>1, <2>2 DEF ReuseAccessToken, CreatePair, ReturnExisting
  <2>3. CASE Deliver(s) \/ SweepDone(s) \/ Abort(s)
    BY <1>1, <2>3 DEF Deliver, SweepDone, Abort
  <2>4. QED
    BY <1>4, <2>2, <2>3
<1>5. ASSUME NEW s \in Requests, LockInstance(s) PROVE req'[r] = req[r]
  BY <1>5 DEF LockInstance, TypeOK, Local
<1>6. ASSUME NEW s \in Requests, NEW k \in Pks, SweepStep(s, k)
      PROVE  req'[r] = req[r] \/ Advanced
  <2>1. CASE s = r
    <3>1. req[r] \in Local /\ k \in req[r].todo /\ req[r].pc = "sweep"
      BY <1>6, <2>1 DEF TypeOK, SweepStep
    <3>2. /\ req'[r].rt = req[r].rt /\ req'[r].mark = req[r].mark
          /\ req'[r].todo = req[r].todo \ {k}
      BY <1>6, <2>1, <3>1 DEF SweepStep, TypeOK, Local
    <3>3. QED
      BY <1>6, <2>1, <3>1, <3>2
  <2>2. CASE s # r
    BY <1>6, <2>2 DEF SweepStep, TypeOK
  <2>3. QED
    BY <2>1, <2>2
<1>7. ASSUME \/ Tick \/ UNCHANGED vars
             \/ \E scope \in SUBSET Scopes : IssueTokens(scope)
             \/ \E k \in Pks : RevokeRefreshToken(k)
             \/ \E a \in Pks : RevokeAccessToken(a)
      PROVE  req'[r] = req[r]
  BY <1>7 DEF Tick, vars, IssueTokens, RevokeRefreshToken, RevokeAccessToken
<1> HIDE DEF Started, Advanced
<1>8. req'[r] = req[r] \/ Started \/ Advanced
  BY <1>2, <1>3, <1>4, <1>5, <1>6, <1>7 DEF Next, Serve
<1>9. QED
  BY <1>8 DEF Started, Advanced

(* Only the end of a sweep writes the history of sweeps.                    *)
LEMMA EndedHistory ==
  ASSUME [Next]_vars
  PROVE  \/ ended' = ended
         \/ \E r \in Requests : SweepDone(r)
  BY DEF Next, Serve, Tick, vars, IssueTokens, RevokeRefreshToken, RevokeAccessToken,
         ValidateRefreshToken, GetOriginalScopes, ReuseAccessToken, LockInstance, CreatePair,
         ReturnExisting, SweepStep, Deliver, Abort

LEMMA SweepProgressStep ==
  TypeOK /\ InstanceExists /\ Links /\ SweepProgress /\ [Next]_vars => SweepProgress'
<1> SUFFICES ASSUME TypeOK, InstanceExists, Links, SweepProgress, [Next]_vars,
                    NEW r \in Requests, req'[r].pc = "sweep"
             PROVE  /\ req'[r].mark < nextPk'
                    /\ \A k \in rtRows' :
                         rt'[k].family = rt'[req'[r].rt].family /\ k =< req'[r].mark =>
                           k \in req'[r].todo \/ rt'[k].revoked # Null
  BY DEF SweepProgress, Live
<1>0. /\ nextPk \in Int /\ nextPk' \in Int /\ nextPk =< nextPk' /\ now # Null
      /\ req[r].mark \in Int
      /\ \A k \in rtRows' \ rtRows : k = nextPk
      /\ \A k \in rtRows : k \in Int /\ RowKept(k)
  <2>1. TypeOK' /\ \A k \in rtRows : RowKept(k)
    BY RowHistory, TypeStep
  <2>2. nextPk =< nextPk' /\ \A k \in rtRows' \ rtRows : k = nextPk
    BY Growth
  <2>3. /\ nextPk \in Int /\ nextPk' \in Int /\ now # Null /\ req[r].mark \in Int
        /\ \A k \in rtRows : k \in Int
    BY <2>1, ConstantsAssumption DEF TypeOK, Pks, Time, Local
  <2>4. QED
    BY <2>1, <2>2, <2>3
<1>1. ASSUME req[r].pc = "sweep", req'[r].rt = req[r].rt, req'[r].mark = req[r].mark,
             NEW k0, req[r].todo \ {k0} \subseteq req'[r].todo,
             k0 \in rtRows => rt'[k0].revoked # Null
      PROVE  /\ req'[r].mark < nextPk'
             /\ \A k \in rtRows' :
                  rt'[k].family = rt'[req'[r].rt].family /\ k =< req'[r].mark =>
                    k \in req'[r].todo \/ rt'[k].revoked # Null
  <2>1. req[r].mark < nextPk /\ req[r].rt \in rtRows
    BY <1>1 DEF SweepProgress, InstanceExists
  <2>2. ASSUME NEW k \in rtRows', rt'[k].family = rt'[req[r].rt].family, k =< req[r].mark
        PROVE  k \in req'[r].todo \/ rt'[k].revoked # Null
    <3>1. k \in rtRows
      BY <1>0, <2>1, <2>2
    <3>2. rt[k].family = rt[req[r].rt].family
      BY <1>0, <2>1, <2>2, <3>1 DEF RowKept
    <3>3. k \in req[r].todo \/ ~Live(k)
      BY <1>1, <2>2, <3>1, <3>2 DEF SweepProgress
    <3>4. ~Live(k) => rt'[k].revoked # Null
      BY <1>0, <3>1 DEF RowKept, Live
    <3>5. QED
      BY <1>1, <3>1, <3>3, <3>4
  <2>3. QED
    BY <1>0, <1>1, <2>1, <2>2
<1>2. CASE req'[r] = req[r]
  <2>1. Null \notin rtRows
    BY <1>0, ConstantsAssumption
  <2>2. QED
    BY <1>1, <1>2, <2>1
<1>3. ASSUME NEW k \in rtRows, req'[r].rt = k, req'[r].todo = Family(rt[k].family),
             req'[r].mark = nextPk - 1, UNCHANGED <<rtRows, rt, nextPk>>
      PROVE  /\ req'[r].mark < nextPk'
             /\ \A j \in rtRows' :
                  rt'[j].family = rt'[req'[r].rt].family /\ j =< req'[r].mark =>
                    j \in req'[r].todo \/ rt'[j].revoked # Null
  BY <1>0, <1>3 DEF Family
<1>4. ASSUME NEW k \in req[r].todo, SweepStep(r, k), req[r].pc = "sweep",
             req'[r].rt = req[r].rt, req'[r].mark = req[r].mark,
             req'[r].todo = req[r].todo \ {k}
      PROVE  k \in rtRows => rt'[k].revoked # Null
  <2>1. k \in Pks /\ {k} \in SUBSET Pks
    BY <1>4 DEF InstanceExists, TypeOK
  <2>2. rt'[k] = RevokedTable({k})[k]
    BY <1>4 DEF SweepStep
  <2>3. QED
    BY <1>0, <2>1, <2>2, RevokedTableFacts DEF Live
<1>5. QED
  BY <1>1, <1>2, <1>3, <1>4, SweepHistory

LEMMA SweepSawStep ==
  /\ TypeOK /\ InstanceExists /\ Links /\ SweepProgress /\ EndedBelow
  /\ SweepRevokesWhatItSaw /\ [Next]_vars
  => EndedBelow' /\ SweepRevokesWhatItSaw'
<1> SUFFICES ASSUME TypeOK, InstanceExists, Links, SweepProgress, EndedBelow,
                    SweepRevokesWhatItSaw, [Next]_vars
             PROVE  EndedBelow' /\ SweepRevokesWhatItSaw'
  OBVIOUS
<1>0. /\ nextPk \in Int /\ nextPk' \in Int /\ nextPk =< nextPk'
      /\ \A k \in rtRows' \ rtRows : k = nextPk
      /\ \A k \in rtRows : k \in Int /\ RowKept(k) /\ rt[k].family \in Pks
      /\ \A k \in rtRows' : rt'[k].family \in Pks
      /\ \A f \in Pks : ended[f] \in Int
  <2>1. TypeOK' /\ \A k \in rtRows : RowKept(k)
    BY RowHistory, TypeStep
  <2>2. nextPk =< nextPk' /\ \A k \in rtRows' \ rtRows : k = nextPk
    BY Growth
  <2>3. nextPk \in Int /\ nextPk' \in Int /\ \A k \in rtRows : k \in Int
    BY ConstantsAssumption, <2>1 DEF TypeOK, Pks
  <2>4. \A k \in rtRows : rt[k].family \in Pks
    BY DEF TypeOK, RefreshRow
  <2>5. \A k \in rtRows' : rt'[k].family \in Pks
    BY <2>1 DEF TypeOK, RefreshRow
  <2>6. \A f \in Pks : ended[f] \in Int
    BY ConstantsAssumption DEF TypeOK
  <2>7. QED
    BY <2>1, <2>2, <2>3, <2>4, <2>5, <2>6
<1>1. CASE ended' = ended
  <2>1. EndedBelow'
    BY <1>0, <1>1 DEF EndedBelow
  <2>2. ASSUME NEW k \in rtRows', k =< ended'[rt'[k].family]
        PROVE  rt'[k].revoked # Null
    <3>1. k \in rtRows
      BY <1>0, <1>1, <2>2 DEF EndedBelow
    <3>2. ~Live(k)
      BY <1>0, <1>1, <2>2, <3>1 DEF RowKept, SweepRevokesWhatItSaw
    <3>3. QED
      BY <1>0, <3>1, <3>2 DEF RowKept, Live
  <2>3. QED
    BY <2>1, <2>2 DEF SweepRevokesWhatItSaw, Live
<1>2. ASSUME NEW r \in Requests, SweepDone(r)
      PROVE  EndedBelow' /\ SweepRevokesWhatItSaw'
  <2> DEFINE f == rt[req[r].rt].family
  <2>1. /\ req[r].pc = "sweep" /\ req[r].todo = {} /\ req[r].mark < nextPk
        /\ UNCHANGED <<rtRows, rt, nextPk>>
    BY <1>2 DEF SweepDone, db, SweepProgress
  <2>2. \A g \in Pks : \/ ended'[g] = ended[g]
                       \/ g = f /\ ended'[g] = req[r].mark
    BY <1>2 DEF SweepDone, TypeOK
  <2> HIDE DEF f
  <2>3. EndedBelow'
    BY <2>1, <2>2 DEF EndedBelow
  <2>4. ASSUME NEW k \in rtRows, k =< ended'[rt[k].family]
        PROVE  ~Live(k)
    <3>1. CASE ended'[rt[k].family] = ended[rt[k].family]
      BY <2>4, <3>1 DEF SweepRevokesWhatItSaw
    <3>2. CASE rt[k].family = f /\ ended'[rt[k].family] = req[r].mark
      BY <2>1, <2>4, <3>2 DEF SweepProgress, f
    <3>3. QED
      BY <1>0, <2>2, <3>1, <3>2
  <2>5. QED
    BY <2>1, <2>3, <2>4 DEF SweepRevokesWhatItSaw, Live
<1>3. QED
  BY <1>1, <1>2, EndedHistory

LEMMA SweepInit == Init => SweepProgress /\ EndedBelow /\ SweepRevokesWhatItSaw
  BY DEF Init, SweepProgress, EndedBelow, SweepRevokesWhatItSaw, Idle

(* A sweep that has ended leaves none of the rows it saw live, whatever was *)
(* locked, rotated or revoked while it ran.                                 *)
THEOREM SweepTheorem == Spec => []SweepRevokesWhatItSaw
<1> DEFINE Inv == /\ TypeOK /\ InstanceExists /\ Links
                  /\ SweepProgress /\ EndedBelow /\ SweepRevokesWhatItSaw
<1>1. Init => Inv
  BY TypeInit, LinksInit, SweepInit
<1>2. Inv /\ [Next]_vars => Inv'
  BY TypeStep, InstanceStep, LinksStep, SweepProgressStep, SweepSawStep
<1>3. QED
  BY <1>1, <1>2, PTL DEF Spec

-----------------------------------------------------------------------------
(* The strengthening of ScopeNeverWidens: the family of a row is the key of *)
(* its first row, whose grant bounds the tables and the workers' copies.    *)
Families == \A k \in rtRows : rt[k].family \in rtRows

Bound(k) == granted[rt[k].family]

TablesWithin == \A a \in atRows : at[a].scope \subseteq Bound(a)

WorkersWithin ==
  \A r \in Requests : Validated(r) =>
    /\ req[r].access \in {Null, req[r].rt}
    /\ req[r].scopes \subseteq Bound(req[r].rt)

LEMMA FamiliesStep ==
  TypeOK /\ InstanceExists /\ Links /\ Families /\ [Next]_vars => Families'
<1> SUFFICES ASSUME TypeOK, InstanceExists, Links, Families, [Next]_vars, NEW k \in rtRows'
             PROVE  rt'[k].family \in rtRows'
  BY DEF Families
<1>1. \A j \in rtRows : j \in rtRows' /\ rt'[j].family = rt[j].family
  BY RowHistory DEF RowKept
<1>2. CASE k \in rtRows
  BY <1>1, <1>2 DEF Families
<1>3. CASE k \notin rtRows
  <2>1. \/ rt'[k].family = k
        \/ \E r \in Requests : Validated(r) /\ rt'[k].family = rt[req[r].rt].family
    BY <1>3, Growth
  <2>2. \A r \in Requests : Validated(r) => req[r].rt \in rtRows
    BY DEF Validated, InstanceExists
  <2>3. QED
    BY <1>1, <2>1, <2>2 DEF Families
<1>4. QED
  BY <1>2, <1>3

(* The grant of a session that has begun is never written again.            *)
LEMMA BoundKept ==
  ASSUME TypeOK, InstanceExists, Links, Families, [Next]_vars, NEW k \in rtRows
  PROVE  granted'[rt'[k].family] = granted[rt[k].family]
<1>1. rt'[k].family = rt[k].family
  BY RowHistory DEF RowKept
<1>2. rt[k].family \in Pks /\ rt[k].family # nextPk
  <2>1. rt[k].family \in rtRows /\ rt[k].family \in Pks
    BY DEF Families, TypeOK
  <2>2. rt[k].family < nextPk
    BY <2>1 DEF Links
  <2>3. QED
    BY <2>1, <2>2 DEF Pks
<1>3. CASE granted' = granted
  BY <1>1, <1>3
<1>4. ASSUME NEW scope \in SUBSET Scopes, IssueTokens(scope)
      PROVE  granted'[rt[k].family] = granted[rt[k].family]
  BY <1>2, <1>4 DEF IssueTokens, TypeOK
<1>5. granted' = granted \/ \E scope \in SUBSET Scopes : IssueTokens(scope)
  BY DEF Next, Serve, Tick, vars, db, RevokeRefreshToken, RevokeAccessToken,
         ValidateRefreshToken, GetOriginalScopes, ReuseAccessToken, LockInstance, CreatePair,
         ReturnExisting, SweepStep, SweepDone, Deliver, Abort
<1>6. QED
  BY <1>1, <1>3, <1>4, <1>5

(* What a worker copies when it accepts a token.                            *)
LEMMA AcceptCopies ==
  ASSUME TypeOK, NEW r \in Requests, NEW k \in Pks, Accept(r, k)
  PROVE  /\ req'[r].access = rt[k].access
         /\ req'[r].scopes = IF rt[k].access = Null THEN {} ELSE at[rt[k].access].scope
<1> DEFINE ss == IF rt[k].access = Null THEN {} ELSE at[rt[k].access].scope
           x  == [Idle EXCEPT !.pc = "scopes", !.rt = k, !.access = rt[k].access, !.scopes = ss]
<1>1. req' = [req EXCEPT ![r] = x]
  BY DEF Accept
<1> HIDE DEF ss
<1>2. x.access = rt[k].access /\ x.scopes = ss
  BY DEF Idle
<1> HIDE DEF x
<1>3. QED
  BY <1>1, <1>2 DEF TypeOK, ss

(* Where the scopes of a validated worker come from.                        *)
SameScopes(r) ==
  /\ Validated(r) /\ req'[r].rt = req[r].rt /\ req'[r].access = req[r].access
  /\ req'[r].scopes = req[r].scopes

CopiedScopes(r) ==
  LET k == req'[r].rt
  IN  /\ k \in rtRows /\ req'[r].access = rt[k].access
      /\ req'[r].scopes = IF rt[k].access = Null THEN {} ELSE at[rt[k].access].scope

GivenScopes(r) ==
  /\ req[r].pc = "scopes" /\ req'[r].rt = req[r].rt /\ req'[r].access = req[r].access
  /\ req'[r].scopes \subseteq OriginalScopes(r)

LEMMA ScopeHistory ==
  ASSUME TypeOK, InstanceExists, [Next]_vars, NEW r \in Requests, Validated(r)'
  PROVE  SameScopes(r) \/ CopiedScopes(r) \/ GivenScopes(r)
<1>1. CASE req'[r] = req[r]
  BY <1>1 DEF SameScopes, Validated
<1>2. ASSUME NEW s \in Requests, NEW answer, Finish(s, answer)
      PROVE  req'[r] = req[r]
  BY <1>2, FinishFacts DEF Validated
<1>3. ASSUME NEW s \in Requests, NEW t \in Pks, NEW same \in BOOLEAN,
             ValidateRefreshToken(s, t, same)
      PROVE  req'[r] = req[r] \/ CopiedScopes(r)
  <2>1. ASSUME NEW k \in FirstRow(t), StartSweep(s, k) PROVE req'[r] = req[r]
    BY <2>1, StartSweepFacts DEF FirstRow, Rows, TypeOK, Validated
  <2>2. ASSUME NEW k \in FirstRow(t), Accept(s, k)
        PROVE  req'[r] = req[r] \/ CopiedScopes(r)
    <3>1. k \in rtRows /\ k \in Pks
      BY DEF FirstRow, Rows, TypeOK
    <3>2. CASE s = r
      BY <2>2, <3>1, <3>2, AcceptFacts, AcceptCopies DEF CopiedScopes
    <3>3. CASE s # r
      BY <2>2, <3>1, <3>3, AcceptFacts
    <3>4. QED
      BY <3>2, <3>3
  <2>3. QED
    BY <1>2, <1>3, <2>1, <2>2 DEF ValidateRefreshToken
<1>4. ASSUME NEW s \in Requests, NEW asked \in SUBSET Scopes, GetOriginalScopes(s, asked)
      PROVE  req'[r] = req[r] \/ GivenScopes(r)
  <2>1. CASE Finish(s, Answer("refused"))
    BY <1>2, <2>1
  <2>2. CASE ~Finish(s, Answer("refused"))
    <3> DEFINE ss == IF asked = {} THEN OriginalScopes(s) ELSE asked
    <3>1. /\ ss \subseteq OriginalScopes(s) /\ req[s].pc = "scopes"
          /\ req' = [req EXCEPT ![s].pc = "save", ![s].scopes = ss]
      BY <1>4, <2>2 DEF GetOriginalScopes
    <3> HIDE DEF ss
    <3>2. CASE s = r
      <4>1. req[r] \in Local
        BY DEF TypeOK
      <4>2. /\ req'[r].rt = req[r].rt /\ req'[r].access = req[r].access
            /\ req'[r].scopes = ss
        BY <3>1, <3>2, <4>1 DEF TypeOK, Local
      <4>3. QED
        BY <3>1, <3>2, <4>2 DEF GivenScopes
    <3>3. CASE s # r
      BY <3>1, <3>3 DEF TypeOK
    <3>4. QED
      BY <3>2, <3>3
  <2>3. QED
    BY <2>1, <2>2
<1>5. ASSUME NEW s \in Requests,
             \/ ReuseAccessToken(s) \/ CreatePair(s) \/ ReturnExisting(s)
             \/ Deliver(s) \/ SweepDone(s) \/ Abort(s)
      PROVE  req'[r] = req[r]
  <2>1. ASSUME NEW a, NEW v, NEW t, Commit(s, a, v, t) PROVE req'[r] = req[r]
    BY <2>1, CommitFacts DEF Validated
  <2>2. CASE ReuseAccessToken(s) \/ CreatePair(s) \/ ReturnExisting(s)
    BY <1>2, <2>1, <2>2 DEF ReuseAccessToken, CreatePair, ReturnExisting
  <2>3. CASE Deliver(s) \/ SweepDone(s) \/ Abort(s)
    BY <1>2, <2>3 DEF Deliver, SweepDone, Abort
  <2>4. QED
    BY <1>5, <2>2, <2>3
<1>6. ASSUME NEW s \in Requests, LockInstance(s)
      PROVE  req'[r] = req[r] \/ SameScopes(r)
  <2> DEFINE p == PreviousAccess(req[s].rt)
             v == IF p = Null THEN 0 ELSE at[p].version
  <2>1. req' = [req EXCEPT ![s].pc = "locked", ![s].prev = p, ![s].version = v]
        /\ req[s].pc = "save"
    BY <1>6 DEF LockInstance
  <2> HIDE DEF p, v
  <2>2. req[s] \in Local
    BY DEF TypeOK
  <2>3. CASE s = r
    <3>1. /\ req'[r].rt = req[r].rt /\ req'[r].access = req[r].access
          /\ req'[r].scopes = req[r].scopes
      BY <2>1, <2>2, <2>3 DEF TypeOK, Local
    <3>2. QED
      BY <2>1, <2>3, <3>1 DEF SameScopes, Validated
  <2>4. CASE s # r
    BY <2>1, <2>4 DEF TypeOK
  <2>5. QED
    BY <2>3, <2>4
<1>7. ASSUME NEW s \in Requests, NEW k \in Pks, SweepStep(s, k) PROVE req'[r] = req[r]
  BY <1>7 DEF SweepStep, TypeOK, Local, Validated
<1>8. ASSUME \/ Tick \/ UNCHANGED vars
             \/ \E scope \in SUBSET Scopes : IssueTokens(scope)
             \/ \E k \in Pks : RevokeRefreshToken(k)
             \/ \E a \in Pks : RevokeAccessToken(a)
      PROVE  req'[r] = req[r]
  BY <1>8 DEF Tick, vars, IssueTokens, RevokeRefreshToken, RevokeAccessToken
<1>9. QED
  BY <1>1, <1>3, <1>4, <1>5, <1>6, <1>7, <1>8 DEF Next, Serve

(* Where the scope of an access token comes from.                           *)
OldScope(a) == a \in atRows /\ at'[a].scope = at[a].scope

WorkersScope(a) ==
  \E r \in Requests :
    /\ Validated(r) /\ at'[a].scope = req[r].scopes
    /\ \/ a \in atRows /\ a = req[r].access
       \/ a \in rtRows' /\ rt'[a].family = rt[req[r].rt].family

GrantedScope(a) == at'[a].scope = granted'[rt'[a].family]

LEMMA AccessScopes ==
  ASSUME TypeOK, InstanceExists, Links, [Next]_vars, NEW a \in atRows'
  PROVE  OldScope(a) \/ WorkersScope(a) \/ GrantedScope(a)
<1>0. a \in Pks
  BY TypeStep DEF TypeOK
<1>1. CASE atRows' \subseteq atRows /\ at' = at
  BY <1>1 DEF OldScope
<1>2. ASSUME NEW scope \in SUBSET Scopes, IssueTokens(scope)
      PROVE  OldScope(a) \/ GrantedScope(a)
  <2>1. CASE a = nextPk
    BY <1>0, <1>2, <2>1 DEF IssueTokens, TypeOK, GrantedScope
  <2>2. CASE a # nextPk
    BY <1>0, <1>2, <2>2 DEF IssueTokens, TypeOK, OldScope
  <2>3. QED
    BY <2>1, <2>2
<1>3. ASSUME NEW r \in Requests, CreatePair(r)
      PROVE  OldScope(a) \/ WorkersScope(a)
  <2>1. CASE a = nextPk
    <3>1. {req[r].rt} \in SUBSET Pks /\ Validated(r)
      BY <1>3 DEF TypeOK, InstanceExists, CreatePair, Validated
    <3>2. at'[a].scope = req[r].scopes /\ rt'[a].family = rt[req[r].rt].family /\ a \in rtRows'
      BY <1>0, <1>3, <2>1, <3>1, RevokedTableType DEF CreatePair, TypeOK
    <3>3. QED
      BY <3>1, <3>2 DEF WorkersScope
  <2>2. CASE a # nextPk
    BY <1>0, <1>3, <2>2 DEF CreatePair, TypeOK, AccessWithout, OldScope
  <2>3. QED
    BY <2>1, <2>2
<1>4. ASSUME NEW r \in Requests, ReuseAccessToken(r)
      PROVE  OldScope(a) \/ WorkersScope(a)
  <2>1. a \in atRows /\ at[a] \in AccessRow /\ Validated(r)
    BY <1>0, <1>4 DEF ReuseAccessToken, TypeOK, Validated
  <2>2. CASE at' = at
    BY <2>1, <2>2 DEF OldScope
  <2>3. CASE at' = [at EXCEPT ![req[r].access].scope = req[r].scopes,
                              ![req[r].access].version = @ + 1]
    <3>1. CASE a = req[r].access
      <4>1. at'[a].scope = req[r].scopes
        BY <1>0, <2>1, <2>3, <3>1 DEF TypeOK, AccessRow
      <4>2. QED
        BY <2>1, <3>1, <4>1 DEF WorkersScope
    <3>2. CASE a # req[r].access
      BY <1>0, <2>1, <2>3, <3>2 DEF TypeOK, OldScope
    <3>3. QED
      BY <3>1, <3>2
  <2>4. QED
    BY <1>4, <2>2, <2>3 DEF ReuseAccessToken
<1>5. ASSUME NEW r \in Requests,
             \/ \E t \in Pks, same \in BOOLEAN : ValidateRefreshToken(r, t, same)
             \/ \E asked \in SUBSET Scopes : GetOriginalScopes(r, asked)
             \/ LockInstance(r) \/ ReturnExisting(r) \/ \E k \in Pks : SweepStep(r, k)
             \/ Deliver(r) \/ SweepDone(r) \/ Abort(r)
      PROVE  atRows' \subseteq atRows /\ at' = at
  BY <1>5 DEF ValidateRefreshToken, GetOriginalScopes, LockInstance, ReturnExisting, SweepStep,
              Deliver, SweepDone, Abort, db, AccessWithout
<1>6. ASSUME \/ Tick \/ UNCHANGED vars
             \/ \E k \in Pks : RevokeRefreshToken(k)
             \/ \E k \in Pks : RevokeAccessToken(k)
      PROVE  atRows' \subseteq atRows /\ at' = at
  BY <1>6 DEF Tick, vars, RevokeRefreshToken, RevokeAccessToken, AccessWithout
<1>7. QED
  BY <1>1, <1>2, <1>3, <1>4, <1>5, <1>6 DEF Next, Serve

(* get_original_scopes stays within the grant, by either of its branches.   *)
LEMMA OriginalScopesWithin ==
  ASSUME TypeOK, InstanceExists, Links, SourceRevoked, TablesWithin, WorkersWithin,
         NEW r \in Requests, req[r].pc = "scopes"
  PROVE  OriginalScopes(r) \subseteq Bound(req[r].rt)
<1>1. CASE req[r].access # Null
  BY <1>1 DEF OriginalScopes, WorkersWithin, Validated
<1>2. CASE req[r].access = Null
  <2>1. req[r].rt \in rtRows /\ req[r].rt # Null
    BY KeysNotNull DEF InstanceExists, TypeOK
  <2>2. ASSUME NEW a \in Children(req[r].rt) PROVE at[a].scope \subseteq Bound(req[r].rt)
    BY <2>1, <2>2 DEF Children, SourceRevoked, TablesWithin, Bound
  <2>3. QED
    BY <1>2, <2>2 DEF OriginalScopes
<1>3. QED
  BY <1>1, <1>2

LEMMA WithinStep ==
  /\ TypeOK /\ InstanceExists /\ Links /\ SourceRevoked /\ Families
  /\ TablesWithin /\ WorkersWithin /\ [Next]_vars
  => TablesWithin' /\ WorkersWithin'
<1> SUFFICES ASSUME TypeOK, InstanceExists, Links, SourceRevoked, Families,
                    TablesWithin, WorkersWithin, [Next]_vars
             PROVE  TablesWithin' /\ WorkersWithin'
  OBVIOUS
<1>0. \A k \in rtRows : granted'[rt'[k].family] = Bound(k)
  BY BoundKept DEF Bound
<1>1. \A r \in Requests : Validated(r) => req[r].rt \in rtRows /\ req[r].rt # Null
  BY KeysNotNull DEF InstanceExists, Validated, TypeOK
<1>2. ASSUME NEW a \in atRows' PROVE at'[a].scope \subseteq granted'[rt'[a].family]
  <2>1. CASE OldScope(a)
    BY <1>0, <2>1 DEF OldScope, TablesWithin, Links
  <2>2. CASE WorkersScope(a)
    <3>1. PICK r \in Requests :
            /\ Validated(r) /\ at'[a].scope = req[r].scopes
            /\ \/ a \in atRows /\ a = req[r].access
               \/ a \in rtRows' /\ rt'[a].family = rt[req[r].rt].family
      BY <2>2 DEF WorkersScope
    <3>2. at'[a].scope \subseteq Bound(req[r].rt) /\ req[r].rt \in rtRows
          /\ req[r].access \in {Null, req[r].rt}
      BY <1>1, <3>1 DEF WorkersWithin
    <3>3. CASE a \in atRows /\ a = req[r].access
      <4>1. a # Null
        BY <3>3, KeysNotNull DEF TypeOK
      <4>2. QED
        BY <1>0, <3>2, <3>3, <4>1
    <3>4. CASE rt'[a].family = rt[req[r].rt].family
      <4>1. rt'[req[r].rt].family = rt[req[r].rt].family
        BY <3>2, RowHistory DEF RowKept
      <4>2. QED
        BY <1>0, <3>2, <3>4, <4>1
    <3>5. QED
      BY <3>1, <3>3, <3>4
  <2>3. CASE GrantedScope(a)
    BY <2>3 DEF GrantedScope
  <2>4. QED
    BY <2>1, <2>2, <2>3, AccessScopes
<1>3. ASSUME NEW r \in Requests, Validated(r)'
      PROVE  /\ req'[r].access \in {Null, req'[r].rt}
             /\ req'[r].scopes \subseteq granted'[rt'[req'[r].rt].family]
  <2>1. CASE SameScopes(r)
    BY <1>0, <1>1, <2>1 DEF SameScopes, WorkersWithin
  <2>2. CASE CopiedScopes(r)
    <3> DEFINE k == req'[r].rt
    <3>1. k \in rtRows /\ req'[r].access = rt[k].access
      BY <2>2 DEF CopiedScopes
    <3>2. rt[k].access # Null => rt[k].access = k /\ k \in atRows
      BY <3>1 DEF Links
    <3>3. req'[r].scopes \subseteq Bound(k)
      BY <2>2, <3>2 DEF CopiedScopes, TablesWithin
    <3>4. QED
      BY <1>0, <3>1, <3>2, <3>3
  <2>3. CASE GivenScopes(r)
    <3>1. req[r].pc = "scopes" /\ Validated(r)
      BY <2>3 DEF GivenScopes, Validated
    <3>2. req'[r].scopes \subseteq Bound(req[r].rt)
      BY <2>3, <3>1, OriginalScopesWithin DEF GivenScopes
    <3>3. QED
      BY <1>0, <1>1, <2>3, <3>1, <3>2 DEF GivenScopes, WorkersWithin
  <2>4. QED
    BY <1>3, <2>1, <2>2, <2>3, ScopeHistory
<1>4. QED
  BY <1>2, <1>3 DEF TablesWithin, WorkersWithin, Bound, Validated

LEMMA WithinInit == Init => Families /\ TablesWithin /\ WorkersWithin
  BY DEF Init, Families, TablesWithin, WorkersWithin, Validated, Idle

(* No refresh widens a session, whichever stale copy its scopes came from.  *)
THEOREM ScopeTheorem == Spec => []ScopeNeverWidens
<1> DEFINE Inv == /\ TypeOK /\ InstanceExists /\ Links /\ SourceRevoked
                  /\ Families /\ TablesWithin /\ WorkersWithin
<1>1. Init => Inv
  BY TypeInit, LinksInit, SourceInit, WithinInit
<1>2. Inv /\ [Next]_vars => Inv'
  BY TypeStep, InstanceStep, LinksStep, SourceStep, FamiliesStep, WithinStep
<1>3. Inv => ScopeNeverWidens
  <2> SUFFICES ASSUME Inv, NEW a \in atRows, NEW k \in BoundTo(a)
               PROVE  at[a].scope \subseteq granted[rt[k].family]
    BY DEF ScopeNeverWidens
  <2>1. k = a
    BY KeysNotNull DEF BoundTo, Links, TypeOK
  <2>2. QED
    BY <2>1 DEF TablesWithin, Bound
<1>4. QED
  BY <1>1, <1>2, <1>3, PTL DEF Spec

-----------------------------------------------------------------------------
(* The strengthening of ReplyIsUsable, with rotation on: each row has the   *)
(* string it was made with, and a worker that has committed carries the two *)
(* strings of one pair.                                                     *)
OwnStrings == \A k \in rtRows : rt[k].token = k

PairCarried == \A r \in Requests : req[r].pc = "deliver" => req[r].refresh = req[r].access

LEMMA CommitCarries ==
  ASSUME TypeOK, NEW r \in Requests, NEW a, NEW v, Commit(r, a, v, a), PairCarried
  PROVE  PairCarried'
<1> DEFINE x == [Idle EXCEPT !.pc = "deliver", !.rt = req[r].rt,
                             !.access = a, !.version = v, !.refresh = a]
<1>1. req' = [req EXCEPT ![r] = x]
  BY DEF Commit
<1>2. x.refresh = x.access
  BY DEF Idle
<1> HIDE DEF x
<1>3. QED
  BY <1>1, <1>2 DEF TypeOK, PairCarried

LEMMA OwnStringsStep ==
  TypeOK /\ InstanceExists /\ Links /\ OwnStrings /\ Rotate /\ [Next]_vars => OwnStrings'
<1> SUFFICES ASSUME TypeOK, InstanceExists, Links, OwnStrings, Rotate, [Next]_vars
             PROVE  OwnStrings'
  OBVIOUS
<1>1. ASSUME NEW K \in SUBSET Pks, rt' = RevokedTable(K), rtRows' = rtRows PROVE OwnStrings'
  BY <1>1, RevokedTableFacts DEF OwnStrings, TypeOK
<1>2. CASE UNCHANGED <<rtRows, rt>>
  BY <1>2 DEF OwnStrings
<1>3. ASSUME NEW scope \in SUBSET Scopes, IssueTokens(scope) PROVE OwnStrings'
  BY <1>3 DEF IssueTokens, OwnStrings, TypeOK
<1>4. ASSUME NEW r \in Requests, CreatePair(r) PROVE OwnStrings'
  <2> DEFINE K == {req[r].rt}
             row == [token |-> nextPk, family |-> rt[req[r].rt].family,
                     revoked |-> Null, access |-> nextPk]
  <2>1. K \in SUBSET Pks /\ nextPk \in Pks
    BY <1>4 DEF TypeOK, InstanceExists, CreatePair
  <2>2. rt' = [RevokedTable(K) EXCEPT ![nextPk] = row] /\ rtRows' = rtRows \union {nextPk}
    BY <1>4 DEF CreatePair
  <2>3. row.token = nextPk
    OBVIOUS
  <2> HIDE DEF K, row
  <2>4. rt'[nextPk] = row /\ \A k \in Pks \ {nextPk} : rt'[k] = RevokedTable(K)[k]
    BY <2>1, <2>2, RevokedTableType
  <2>5. \A k \in Pks : RevokedTable(K)[k].token = rt[k].token
    BY <2>1, RevokedTableFacts
  <2>6. QED
    BY <2>2, <2>3, <2>4, <2>5 DEF OwnStrings, TypeOK
<1>5. ASSUME NEW r \in Requests, ReturnExisting(r) PROVE OwnStrings'
  <2>1. {req[r].rt} \in SUBSET Pks
    BY <1>5 DEF TypeOK, InstanceExists, ReturnExisting
  <2>2. QED
    BY <1>1, <1>2, <1>5, <2>1 DEF ReturnExisting
<1>6. ASSUME NEW r \in Requests, NEW k \in Pks, SweepStep(r, k) PROVE OwnStrings'
  <2>1. {k} \in SUBSET Pks
    OBVIOUS
  <2>2. QED
    BY <1>1, <1>6, <2>1 DEF SweepStep
<1>7. ASSUME NEW k \in Pks, RevokeRefreshToken(k) PROVE OwnStrings'
  <2>1. {k} \in SUBSET Pks
    OBVIOUS
  <2>2. QED
    BY <1>1, <1>7, <2>1 DEF RevokeRefreshToken
<1>8. ASSUME NEW a \in Pks, RevokeAccessToken(a) PROVE OwnStrings'
  <2>1. \A k \in Pks : [rt[k] EXCEPT !.access = Null].token = rt[k].token
    BY DEF TypeOK, RefreshRow
  <2>2. \A k \in Pks : rt'[k].token = rt[k].token
    BY <1>8, <2>1 DEF RevokeAccessToken
  <2>3. QED
    BY <1>8, <2>2 DEF RevokeAccessToken, OwnStrings, TypeOK
<1>9. ASSUME NEW r \in Requests,
             \/ \E t \in Pks, same \in BOOLEAN : ValidateRefreshToken(r, t, same)
             \/ \E asked \in SUBSET Scopes : GetOriginalScopes(r, asked)
             \/ ReuseAccessToken(r) \/ LockInstance(r) \/ Deliver(r) \/ SweepDone(r) \/ Abort(r)
      PROVE  UNCHANGED <<rtRows, rt>>
  BY <1>9 DEF ValidateRefreshToken, GetOriginalScopes, ReuseAccessToken,
              LockInstance, Deliver, SweepDone, Abort, db
<1>10. ASSUME Tick \/ UNCHANGED vars PROVE UNCHANGED <<rtRows, rt>>
  BY <1>10 DEF Tick, vars
<1>11. QED
  BY <1>2, <1>3, <1>4, <1>5, <1>6, <1>7, <1>8, <1>9, <1>10 DEF Next, Serve

LEMMA CarriedStep ==
  /\ TypeOK /\ InstanceExists /\ Links /\ OwnStrings /\ PairCarried /\ Rotate /\ [Next]_vars
  => PairCarried'
<1> SUFFICES ASSUME TypeOK, InstanceExists, Links, OwnStrings, PairCarried, Rotate, [Next]_vars
             PROVE  PairCarried'
  OBVIOUS
<1>0. ASSUME NEW r \in Requests, \A s \in Requests \ {r} : req'[s] = req[s],
             req'[r].pc # "deliver"
      PROVE  PairCarried'
  BY <1>0 DEF PairCarried
<1>1. ASSUME NEW r \in Requests, NEW answer, Finish(r, answer) PROVE PairCarried'
  BY <1>0, <1>1, FinishFacts
<1>2. ASSUME NEW r \in Requests, NEW t \in Pks, NEW same \in BOOLEAN,
             ValidateRefreshToken(r, t, same)
      PROVE  PairCarried'
  <2>1. ASSUME NEW k \in FirstRow(t), StartSweep(r, k) \/ Accept(r, k) PROVE PairCarried'
    <3>1. k \in Pks
      BY DEF FirstRow, Rows, TypeOK
    <3>2. (\A s \in Requests \ {r} : req'[s] = req[s]) /\ req'[r].pc # "deliver"
      BY <2>1, <3>1, StartSweepFacts, AcceptFacts
    <3>3. QED
      BY <1>0, <3>2
  <2>2. QED
    BY <1>1, <1>2, <2>1 DEF ValidateRefreshToken
<1>3. ASSUME NEW r \in Requests, NEW asked \in SUBSET Scopes, GetOriginalScopes(r, asked)
      PROVE  PairCarried'
  <2>1. CASE Finish(r, Answer("refused"))
    BY <1>1, <2>1
  <2>2. CASE ~Finish(r, Answer("refused"))
    <3>1. (\A s \in Requests \ {r} : req'[s] = req[s]) /\ req'[r].pc = "save"
      BY <1>3, <2>2 DEF GetOriginalScopes, TypeOK, Local
    <3>2. QED
      BY <1>0, <3>1
  <2>3. QED
    BY <2>1, <2>2
<1>4. ASSUME NEW r \in Requests, ReuseAccessToken(r) PROVE FALSE
  BY <1>4 DEF ReuseAccessToken
<1>5. ASSUME NEW r \in Requests, LockInstance(r) PROVE PairCarried'
  <2>1. \A s \in Requests \ {r} : req'[s] = req[s]
    BY <1>5 DEF LockInstance, TypeOK
  <2>2. req'[r].pc = "locked"
    BY <1>5, LockFacts
  <2>3. QED
    BY <1>0, <2>1, <2>2
<1>6. ASSUME NEW r \in Requests, CreatePair(r) PROVE PairCarried'
  <2>1. Commit(r, nextPk, 0, nextPk)
    BY <1>6 DEF CreatePair
  <2>2. QED
    BY <2>1, CommitCarries
<1>7. ASSUME NEW r \in Requests, ReturnExisting(r) PROVE PairCarried'
  <2>1. ASSUME NEW j \in PairOf(r), Commit(r, req[r].prev, req[r].version, rt[j].token)
        PROVE  PairCarried'
    <3>1. j \in rtRows /\ rt[j].access = req[r].prev /\ req[r].prev # Null
      BY <1>7 DEF PairOf, BoundTo, ReturnExisting
    <3>2. rt[j].token = req[r].prev
      BY <3>1 DEF Links, OwnStrings
    <3>3. QED
      BY <2>1, <3>2, CommitCarries
  <2>2. QED
    BY <1>1, <1>7, <2>1 DEF ReturnExisting
<1>8. ASSUME NEW r \in Requests, Deliver(r) \/ SweepDone(r) \/ Abort(r) PROVE PairCarried'
  BY <1>1, <1>8 DEF Deliver, SweepDone, Abort
<1>9. ASSUME NEW r \in Requests, NEW k \in Pks, SweepStep(r, k) PROVE PairCarried'
  <2>1. (\A s \in Requests \ {r} : req'[s] = req[s]) /\ req'[r].pc = "sweep"
    BY <1>9 DEF SweepStep, TypeOK, Local
  <2>2. QED
    BY <1>0, <2>1
<1>10. ASSUME \/ Tick \/ UNCHANGED vars
              \/ \E scope \in SUBSET Scopes : IssueTokens(scope)
              \/ \E k \in Pks : RevokeRefreshToken(k)
              \/ \E a \in Pks : RevokeAccessToken(a)
       PROVE  req' = req
  BY <1>10 DEF Tick, vars, IssueTokens, RevokeRefreshToken, RevokeAccessToken
<1>11. CASE req' = req
  BY <1>11 DEF PairCarried
<1>12. QED
  BY <1>2, <1>3, <1>4, <1>5, <1>6, <1>7, <1>8, <1>9, <1>10, <1>11 DEF Next, Serve

(* The step that answers finds its access token, whose refresh token is     *)
(* then live and bound to it.                                               *)
LEMMA DeliverUsable ==
  ASSUME TypeOK, InstanceExists, Links, OwnStrings, PairCarried,
         NEW r \in Requests, Deliver(r), reply'.status = "ok"
  PROVE  ReplyIsUsable'
<1> DEFINE a == req[r].access
<1>1. /\ a \in atRows /\ reply' = Tokens(a, req[r].refresh) /\ req[r].refresh = a
      /\ UNCHANGED <<rtRows, rt, atRows>>
  BY DEF Deliver, Finish, Answer, db, PairCarried
<1>2. reply'.access = a /\ reply'.refresh = a
  BY <1>1 DEF Tokens
<1>3. a \in rtRows /\ rt[a].access = a /\ Live(a)
  BY <1>1, KeysNotNull DEF Links, TypeOK
<1>4. a \in FirstRow(a)
  <2>1. \A j \in rtRows : rt[j].token = j
    BY DEF OwnStrings
  <2>2. a \in Rows(a) /\ \A j \in Rows(a) : j = a
    BY <1>3, <2>1 DEF Rows
  <2>3. a \in Int
    BY <1>3, KeysNotNull DEF TypeOK
  <2>4. QED
    BY <2>2, <2>3 DEF FirstRow
<1>5. Usable(a, a)
  BY <1>1, <1>3, <1>4 DEF Usable
<1>6. QED
  BY <1>1, <1>2, <1>5 DEF ReplyIsUsable, Usable, FirstRow, Rows, Live

LEMMA ReplyStep ==
  /\ TypeOK /\ InstanceExists /\ Links /\ OwnStrings /\ PairCarried
  /\ ReplyIsUsable /\ [Next]_vars
  => ReplyIsUsable'
<1> SUFFICES ASSUME TypeOK, InstanceExists, Links, OwnStrings, PairCarried,
                    ReplyIsUsable, [Next]_vars, reply'.status = "ok"
             PROVE  ReplyIsUsable'
  BY DEF ReplyIsUsable
<1>1. CASE UNCHANGED vars
  BY <1>1 DEF vars, ReplyIsUsable, Usable, FirstRow, Rows, Live
<1>2. ASSUME NEW r \in Requests, Deliver(r) PROVE ReplyIsUsable'
  BY <1>2, DeliverUsable
<1>3. ~Silent
  BY DEF Silent, NoAnswer, Answer
<1>4. ASSUME NEW r \in Requests, NEW status \in {"none", "refused", "error"},
             Finish(r, Answer(status))
      PROVE  FALSE
  BY <1>4 DEF Finish, Answer
<1>5. ASSUME NEW r \in Requests,
             \/ \E t \in Pks, same \in BOOLEAN : ValidateRefreshToken(r, t, same)
             \/ \E asked \in SUBSET Scopes : GetOriginalScopes(r, asked)
             \/ ReuseAccessToken(r) \/ LockInstance(r) \/ CreatePair(r) \/ ReturnExisting(r)
             \/ \E k \in Pks : SweepStep(r, k)
             \/ SweepDone(r) \/ Abort(r)
      PROVE  FALSE
  BY <1>3, <1>4, <1>5 DEF ValidateRefreshToken, StartSweep, Accept, GetOriginalScopes,
                          ReuseAccessToken, LockInstance, CreatePair, ReturnExisting, SweepStep,
                          SweepDone, Abort, Commit, NoAnswer
<1>6. ASSUME \/ Tick
             \/ \E scope \in SUBSET Scopes : IssueTokens(scope)
             \/ \E k \in Pks : RevokeRefreshToken(k)
             \/ \E a \in Pks : RevokeAccessToken(a)
      PROVE  FALSE
  BY <1>3, <1>6 DEF Tick, IssueTokens, RevokeRefreshToken, RevokeAccessToken
<1>7. QED
  BY <1>1, <1>2, <1>5, <1>6 DEF Next, Serve

LEMMA ReplyInit == Init => OwnStrings /\ PairCarried /\ ReplyIsUsable
  BY DEF Init, OwnStrings, PairCarried, ReplyIsUsable, Idle, NoAnswer, Answer

(* With rotation on, both tokens of an answer work when it is sent.         *)
THEOREM ReplyTheorem ==
  ASSUME Rotate
  PROVE  Spec => []ReplyIsUsable
<1> DEFINE Inv == /\ TypeOK /\ InstanceExists /\ Links
                  /\ OwnStrings /\ PairCarried /\ ReplyIsUsable
<1>1. Init => Inv
  BY TypeInit, LinksInit, ReplyInit
<1>2. Inv /\ [Next]_vars => Inv'
  BY TypeStep, InstanceStep, LinksStep, OwnStringsStep, CarriedStep, ReplyStep
<1>3. QED
  BY <1>1, <1>2, PTL DEF Spec
=============================================================================
