-------------------------- MODULE SessionEndProofs --------------------------
(***************************************************************************)
(* Machine-checked theorems about SessionEnd, for any number of token      *)
(* responses, accounts, tabs, any lifetimes and any batch size.            *)
(*                                                                         *)
(* Every step is first shown to do to each row what Effects allows; the    *)
(* invariants of the tables, of the cleaner and of logout follow from that *)
(* without looking at the actions again.                                   *)
(***************************************************************************)
EXTENDS SessionEnd, TLAPS

(* The shape of the tables, and the foreign keys between them.  Rows of    *)
(* one response have one key, and nothing refers to a row not made yet.    *)
RowTypes ==
  /\ now \in 0..MaxTime
  /\ rotate \in BOOLEAN
  /\ at  \in [Keys -> AccessRows \union {Unused, Gone}]
  /\ rt  \in [Keys -> RefreshRows \union {Unused, Gone}]
  /\ idt \in [Keys -> IdRows \union {Unused, Gone}]

ForeignKeys ==
  \A k \in Keys :
    /\ Row(rt, k) /\ rt[k].access # NULL =>
         rt[k].access = k /\ Row(at, k) /\ at[k].account = rt[k].account
    /\ Linked(k) => Row(idt, k) /\ idt[k].user = at[k].account.user
    /\ at[k] = Unused => rt[k] = Unused

Tables == RowTypes /\ ForeignKeys

-----------------------------------------------------------------------------
(* What a step may do to an access token, a refresh token and an ID token. *)
AccessEffect(k) ==
  \/ at'[k] = at[k]
  \/ at'[k] = Gone
  \/ /\ at[k] = Unused
     /\ at'[k] \in AccessRows
     /\ at'[k].expires >= now
     /\ at'[k].idToken => Row(idt', k) /\ idt'[k].user = at'[k].account.user
     /\ at'[k].refreshable => /\ rt'[k] \in RefreshRows
                              /\ rt'[k].access = k /\ rt'[k].revoked = NULL
  \/ /\ ~rotate
     /\ Row(at, k)
     /\ at'[k] \in AccessRows
     /\ at'[k].account = at[k].account
     /\ at'[k].idToken = at[k].idToken
     /\ at'[k].expires >= now

Detached(k, time) == [account |-> rt[k].account, access |-> NULL, revoked |-> time]

RefreshEffect(k) ==
  \/ rt'[k] = rt[k] /\ (Row(rt, k) /\ rt[k].access = k => at'[k] # Gone)
  \/ at[k] = Unused /\ at'[k] # Unused /\ rt'[k] = Gone
  \/ /\ at[k] = Unused
     /\ at'[k] \in AccessRows
     /\ rt'[k] = [account |-> at'[k].account, access |-> k, revoked |-> NULL]
  \/ stage \in {1, 2} /\ k \in batch /\ rt[k] # Unused /\ at'[k] = at[k] /\ rt'[k] = Gone
  \/ /\ Row(rt, k)
     /\ rt[k].access = k => at'[k] = Gone
     /\ \/ rt'[k] = Detached(k, rt[k].revoked)
        \/ rt[k].revoked = NULL /\ rt'[k] = Detached(k, now)

IdEffect(k) ==
  \/ idt'[k] = idt[k]
  \/ /\ idt[k] = Unused /\ at[k] = Unused /\ at'[k] = Unused
     /\ idt'[k] \in IdRows /\ idt'[k].expires >= now
  \/ idt'[k] = Gone /\ (at'[k] \in AccessRows => ~at'[k].idToken)

Effects ==
  /\ now' \in 0..MaxTime /\ now' >= now
  /\ rotate' = rotate
  /\ at'  \in [Keys -> AccessRows \union {Unused, Gone}]
  /\ rt'  \in [Keys -> RefreshRows \union {Unused, Gone}]
  /\ idt' \in [Keys -> IdRows \union {Unused, Gone}]
  /\ \A k \in Keys : AccessEffect(k) /\ RefreshEffect(k) /\ IdEffect(k)

LEMMA RowOf ==
  /\ \A k \in Keys : at  \in [Keys -> AccessRows \union {Unused, Gone}]
                       => (Row(at, k) <=> at[k] \in AccessRows)
  /\ \A k \in Keys : rt  \in [Keys -> RefreshRows \union {Unused, Gone}]
                       => (Row(rt, k) <=> rt[k] \in RefreshRows)
  /\ \A k \in Keys : idt \in [Keys -> IdRows \union {Unused, Gone}]
                       => (Row(idt, k) <=> idt[k] \in IdRows)
BY TagsAssumption DEF Row

LEMMA RowOfNext ==
  /\ \A k \in Keys : at'  \in [Keys -> AccessRows \union {Unused, Gone}]
                       => (Row(at', k) <=> at'[k] \in AccessRows)
  /\ \A k \in Keys : rt'  \in [Keys -> RefreshRows \union {Unused, Gone}]
                       => (Row(rt', k) <=> rt'[k] \in RefreshRows)
  /\ \A k \in Keys : idt' \in [Keys -> IdRows \union {Unused, Gone}]
                       => (Row(idt', k) <=> idt'[k] \in IdRows)
BY TagsAssumption DEF Row

(* The tables stay sound under any step with those effects.                *)
LEMMA EffectsKeepTables == ASSUME Tables, Effects PROVE Tables'
<1>1. RowTypes'
  BY DEF Effects, Tables, RowTypes
<1>2. ForeignKeys'
  <2> SUFFICES ASSUME NEW k \in Keys
               PROVE  /\ Row(rt', k) /\ rt'[k].access # NULL =>
                           rt'[k].access = k /\ Row(at', k) /\ at'[k].account = rt'[k].account
                      /\ Row(at', k) /\ at'[k].idToken =>
                           Row(idt', k) /\ idt'[k].user = at'[k].account.user
                      /\ at'[k] = Unused => rt'[k] = Unused
    BY DEF ForeignKeys, Linked
  <2>1. /\ Row(at, k) <=> at[k] \in AccessRows
        /\ Row(rt, k) <=> rt[k] \in RefreshRows
        /\ Row(idt, k) <=> idt[k] \in IdRows
        /\ Row(at', k) <=> at'[k] \in AccessRows
        /\ Row(rt', k) <=> rt'[k] \in RefreshRows
        /\ Row(idt', k) <=> idt'[k] \in IdRows
    BY RowOf, RowOfNext DEF Tables, RowTypes, Effects
  <2>2. /\ Row(rt, k) /\ rt[k].access # NULL =>
             rt[k].access = k /\ Row(at, k) /\ at[k].account = rt[k].account
        /\ Row(at, k) /\ at[k].idToken => Row(idt, k) /\ idt[k].user = at[k].account.user
        /\ at[k] = Unused => rt[k] = Unused
    BY DEF Tables, ForeignKeys, Linked
  <2>3. AccessEffect(k) /\ RefreshEffect(k) /\ IdEffect(k)
    BY DEF Effects
  <2>4. /\ at'[k] \in AccessRows \union {Unused, Gone}
        /\ rt'[k] \in RefreshRows \union {Unused, Gone}
        /\ \A tag \in {Unused, Gone} :
             tag \notin AccessRows /\ tag \notin RefreshRows /\ tag \notin IdRows
        /\ Unused # Gone
    BY TagsAssumption DEF Effects
  <2>5. Row(rt', k) /\ rt'[k].access # NULL =>
          rt'[k].access = k /\ Row(at', k) /\ at'[k].account = rt'[k].account
    <3> SUFFICES ASSUME Row(rt', k), rt'[k].access # NULL
                 PROVE  rt'[k].access = k /\ Row(at', k) /\ at'[k].account = rt'[k].account
      OBVIOUS
    <3>1. CASE rt'[k] = rt[k] /\ (Row(rt, k) /\ rt[k].access = k => at'[k] # Gone)
      <4>1. /\ Row(rt, k) /\ rt[k].access = k /\ at'[k] # Gone
            /\ Row(at, k) /\ at[k].account = rt[k].account
        BY <2>1, <2>2, <3>1
      <4>2. Row(at', k) /\ at'[k].account = at[k].account
        BY <2>1, <2>3, <2>4, <4>1 DEF AccessEffect
      <4>3. QED
        BY <3>1, <4>1, <4>2
    <3>2. CASE /\ at[k] = Unused
               /\ at'[k] \in AccessRows
               /\ rt'[k] = [account |-> at'[k].account, access |-> k, revoked |-> NULL]
      BY <2>1, <3>2
    <3>3. CASE rt'[k] = Gone
      BY <2>1, <2>4, <3>3
    <3>4. CASE rt'[k] = Detached(k, rt[k].revoked) \/ rt'[k] = Detached(k, now)
      BY <3>4 DEF Detached
    <3>5. QED
      BY <2>3, <3>1, <3>2, <3>3, <3>4 DEF RefreshEffect
  <2>6. Row(at', k) /\ at'[k].idToken => Row(idt', k) /\ idt'[k].user = at'[k].account.user
    BY <2>1, <2>2, <2>3, <2>4 DEF AccessEffect, IdEffect
  <2>7. at'[k] = Unused => rt'[k] = Unused
    BY <2>1, <2>2, <2>3, <2>4 DEF AccessEffect, RefreshEffect
  <2>8. QED
    BY <2>5, <2>6, <2>7
<1>3. QED
  BY <1>1, <1>2 DEF Tables

-----------------------------------------------------------------------------
(* What the operations are made of.                                        *)
LEMMA DetachedRow ==
  ASSUME NEW row \in RefreshRows
  PROVE  [row EXCEPT !.access = NULL] =
           [account |-> row.account, access |-> NULL, revoked |-> row.revoked]
BY DEF RefreshRows

LEMMA DetachedType ==
  ASSUME RowTypes, NEW k \in Keys, Row(rt, k)
  PROVE  /\ rt[k] \in RefreshRows
         /\ Detached(k, rt[k].revoked) \in RefreshRows
         /\ Detached(k, now) \in RefreshRows
<1>1. rt[k] \in RefreshRows /\ now \in Nat
  BY RowOf, LivesAssumption DEF RowTypes
<1>2. QED
  BY <1>1 DEF Detached, RefreshRows

(* Access tokens taken away by themselves.                                 *)
LEMMA UnpairEffects ==
  ASSUME Tables, NEW keys \in SUBSET Keys, at' = Remove(at, keys), rt' = Unpair(rt, keys)
  PROVE  /\ at' \in [Keys -> AccessRows \union {Unused, Gone}]
         /\ rt' \in [Keys -> RefreshRows \union {Unused, Gone}]
         /\ \A k \in Keys : AccessEffect(k) /\ RefreshEffect(k)
         /\ \A k \in keys : at'[k] = Gone
<1>1. at' \in [Keys -> AccessRows \union {Unused, Gone}]
  BY DEF Remove, Tables, RowTypes
<1>2. \A k \in Keys : at'[k] = IF k \in keys THEN Gone ELSE at[k]
  BY DEF Remove
<1>3. \A k \in Keys : rt'[k] = IF Row(rt, k) /\ rt[k].access \in keys
                               THEN Detached(k, rt[k].revoked) ELSE rt[k]
  <2> TAKE k \in Keys
  <2>1. CASE Row(rt, k) /\ rt[k].access \in keys
    BY <2>1, DetachedRow, DetachedType DEF Unpair, Detached, Tables
  <2>2. CASE ~(Row(rt, k) /\ rt[k].access \in keys)
    BY <2>2 DEF Unpair
  <2>3. QED
    BY <2>1, <2>2
<1>4. rt' \in [Keys -> RefreshRows \union {Unused, Gone}]
  <2>1. \A k \in Keys : rt'[k] \in RefreshRows \union {Unused, Gone}
    BY <1>3, DetachedType DEF Tables, RowTypes
  <2>2. QED
    BY <2>1 DEF Unpair
<1>5. \A k \in Keys : Row(rt, k) /\ rt[k].access \in keys => rt[k].access = k
  BY TagsAssumption, KeysAssumption DEF Tables, ForeignKeys
<1>6. ASSUME NEW k \in Keys PROVE AccessEffect(k) /\ RefreshEffect(k)
  <2>1. AccessEffect(k)
    BY <1>2 DEF AccessEffect
  <2>2. CASE Row(rt, k) /\ rt[k].access \in keys
    BY <1>2, <1>3, <1>5, <2>1, <2>2 DEF RefreshEffect
  <2>3. CASE ~(Row(rt, k) /\ rt[k].access \in keys)
    <3>1. rt'[k] = rt[k]
      BY <1>3, <2>3
    <3>2. Row(rt, k) /\ rt[k].access = k => at'[k] = at[k] /\ at[k] # Gone
      BY <1>2, <2>3, TagsAssumption, KeysAssumption DEF Tables, ForeignKeys, Row
    <3>3. QED
      BY <2>1, <3>1, <3>2 DEF RefreshEffect
  <2>4. QED
    BY <2>2, <2>3
<1>7. QED
  BY <1>1, <1>2, <1>4, <1>6

(* A live refresh token revoked, and its access token with it.             *)
LEMMA RevokedFacts ==
  ASSUME Tables, NEW k \in Keys, Live(k)
  PROVE  /\ Revoked(k) = [rt EXCEPT ![k] = Detached(k, now)]
         /\ Detached(k, now) \in RefreshRows
         /\ rt[k] \in RefreshRows /\ rt[k].revoked = NULL
         /\ at[k] # Unused
         /\ WithoutAccess(k) = [at EXCEPT ![k] = IF rt[k].access = k THEN Gone ELSE at[k]]
<1>1. Row(rt, k) /\ rt[k] \in RefreshRows /\ rt[k].revoked = NULL
  BY DetachedType DEF Live, Tables
<1>2. Revoked(k) = [rt EXCEPT ![k] = Detached(k, now)]
  BY DEF Revoked, Detached
<1>3. at[k] # Unused
  BY <1>1 DEF Tables, ForeignKeys, Row
<1>4. rt[k].access = k \/ rt[k].access \notin Keys
  <2>1. NULL \notin Keys
    BY TagsAssumption
  <2>2. QED
    BY <1>1, <2>1 DEF Tables, ForeignKeys
<1>5. WithoutAccess(k) = [at EXCEPT ![k] = IF rt[k].access = k THEN Gone ELSE at[k]]
  BY <1>4 DEF WithoutAccess, Remove, Tables, RowTypes
<1>6. QED
  BY <1>1, <1>2, <1>3, <1>5, DetachedType DEF Tables

LEMMA RevokeEffects ==
  ASSUME Tables, NEW k \in Keys, Live(k),
         rt' = Revoked(k), at' = WithoutAccess(k), UNCHANGED <<now, rotate, idt>>
  PROVE  Effects
<1>1. /\ rt' = [rt EXCEPT ![k] = Detached(k, now)]
      /\ at' = [at EXCEPT ![k] = IF rt[k].access = k THEN Gone ELSE at[k]]
      /\ Detached(k, now) \in RefreshRows
      /\ rt[k] \in RefreshRows /\ rt[k].revoked = NULL
  BY RevokedFacts
<1>2. /\ at' \in [Keys -> AccessRows \union {Unused, Gone}]
      /\ rt' \in [Keys -> RefreshRows \union {Unused, Gone}]
  BY <1>1 DEF Tables, RowTypes
<1>3. ASSUME NEW j \in Keys PROVE AccessEffect(j) /\ RefreshEffect(j) /\ IdEffect(j)
  <2>1. CASE j = k
    <3>1. /\ at'[j] = IF rt[j].access = j THEN Gone ELSE at[j]
          /\ rt'[j] = Detached(j, now)
          /\ Row(rt, j)
      BY <1>1, <2>1 DEF Tables, RowTypes, Live
    <3>2. QED
      BY <1>1, <2>1, <3>1 DEF AccessEffect, RefreshEffect, IdEffect
  <2>2. CASE j # k
    <3>1. at'[j] = at[j] /\ rt'[j] = rt[j] /\ idt'[j] = idt[j]
      BY <1>1, <2>2 DEF Tables, RowTypes
    <3>2. Row(rt, j) /\ rt[j].access = j => at[j] # Gone
      BY TagsAssumption, KeysAssumption DEF Tables, ForeignKeys, Row
    <3>3. QED
      BY <3>1, <3>2 DEF AccessEffect, RefreshEffect, IdEffect
  <2>3. QED
    BY <2>1, <2>2
<1>4. QED
  BY <1>2, <1>3 DEF Effects, Tables, RowTypes

-----------------------------------------------------------------------------
(* The effects of each operation on the tables.                            *)
LEMMA UntouchedRow ==
  ASSUME Tables, NEW k \in Keys
  PROVE  /\ at'[k] = at[k] => AccessEffect(k)
         /\ at'[k] = at[k] /\ rt'[k] = rt[k] => RefreshEffect(k)
         /\ idt'[k] = idt[k] => IdEffect(k)
<1>1. Row(rt, k) /\ rt[k].access = k => at[k] # Gone
  BY TagsAssumption DEF Tables, ForeignKeys, Row
<1>2. QED
  BY <1>1 DEF AccessEffect, RefreshEffect, IdEffect

LEMMA QuietEffects ==
  ASSUME Tables, UNCHANGED <<rotate, at, rt, idt>>, now' \in 0..MaxTime, now' >= now
  PROVE  Effects
BY UntouchedRow DEF Effects, Tables, RowTypes

LEMMA TickEffects == ASSUME Tables, Tick PROVE Effects
BY QuietEffects, LivesAssumption DEF Tick, Tables, RowTypes

LEMMA FinalizeIdTokenEffects ==
  ASSUME Tables, NEW k \in Keys, NEW account \in Accounts, FinalizeIdToken(k, account)
  PROVE  Effects
<1> DEFINE row == [user |-> account.user, expires |-> now + IdLife]
<1>1. idt' = [idt EXCEPT ![k] = row] /\ idt[k] = Unused /\ at[k] = Unused
      /\ UNCHANGED <<now, rotate, at, rt>>
  BY DEF FinalizeIdToken, Fresh
<1>2. row \in IdRows /\ row.expires >= now
  BY LivesAssumption DEF IdRows, Tables, RowTypes
<1> HIDE DEF row
<1>3. idt' \in [Keys -> IdRows \union {Unused, Gone}]
  BY <1>1, <1>2 DEF Tables, RowTypes
<1>4. \A j \in Keys : IdEffect(j)
  BY <1>1, <1>2 DEF IdEffect, Tables, RowTypes
<1>5. QED
  BY <1>1, <1>3, <1>4, UntouchedRow, LivesAssumption DEF Effects, Tables, RowTypes

LEMMA AbandonEffects == ASSUME Tables, NEW k \in Keys, Abandon(k) PROVE Effects
<1>1. /\ at' = [at EXCEPT ![k] = Gone] /\ rt' = [rt EXCEPT ![k] = Gone]
      /\ at[k] = Unused /\ UNCHANGED <<now, rotate, idt>>
  BY DEF Abandon, Remove, Tables, RowTypes
<1>2. /\ at' \in [Keys -> AccessRows \union {Unused, Gone}]
      /\ rt' \in [Keys -> RefreshRows \union {Unused, Gone}]
  BY <1>1 DEF Tables, RowTypes
<1>3. ASSUME NEW j \in Keys PROVE AccessEffect(j) /\ RefreshEffect(j)
  <2>1. CASE j = k
    BY <1>1, <2>1, TagsAssumption DEF AccessEffect, RefreshEffect, Tables, RowTypes
  <2>2. CASE j # k
    BY <1>1, <2>2, UntouchedRow DEF Tables, RowTypes
  <2>3. QED
    BY <2>1, <2>2
<1>4. QED
  BY <1>1, <1>2, <1>3, UntouchedRow DEF Effects, Tables, RowTypes

(* The row of a new access token.                                          *)
LEMMA AccessRowFacts ==
  ASSUME Tables, NEW k \in Keys, NEW account \in Accounts, NEW refreshable \in BOOLEAN,
         OwnIdToken(k, account)
  PROVE  /\ AccessRow(k, account, refreshable) \in AccessRows
         /\ AccessRow(k, account, refreshable).account = account
         /\ AccessRow(k, account, refreshable).expires >= now
         /\ AccessRow(k, account, refreshable).idToken =>
              Row(idt, k) /\ idt[k].user = account.user
         /\ AccessRow(k, account, refreshable).refreshable = refreshable
<1>1. Loads(k) \in BOOLEAN /\ (Loads(k) => Row(idt, k))
  BY DEF Loads, Row
<1>2. now + AccessLife \in Nat /\ now + AccessLife >= now
  BY LivesAssumption DEF Tables, RowTypes
<1>3. QED
  BY <1>1, <1>2 DEF AccessRow, AccessRows, OwnIdToken

LEMMA IssueEffects ==
  ASSUME Tables, NEW k \in Keys, NEW account \in Accounts, NEW refreshable \in BOOLEAN,
         Issue(k, account, refreshable)
  PROVE  Effects
<1> DEFINE access  == AccessRow(k, account, refreshable)
           pair    == [account |-> account, access |-> k, revoked |-> NULL]
           refresh == IF refreshable THEN pair ELSE Gone
<1>1. /\ at' = [at EXCEPT ![k] = access] /\ rt' = [rt EXCEPT ![k] = refresh]
      /\ at[k] = Unused /\ UNCHANGED <<now, rotate, idt>>
  BY DEF Issue, Fresh
<1>2. /\ access \in AccessRows /\ access.account = account /\ access.expires >= now
      /\ access.idToken => Row(idt, k) /\ idt[k].user = account.user
      /\ access.refreshable = refreshable
  BY AccessRowFacts DEF Issue
<1>3. pair \in RefreshRows
  BY DEF RefreshRows
<1>4. /\ access # Unused
      /\ refreshable => refresh = [account |-> access.account, access |-> k, revoked |-> NULL]
      /\ ~refreshable => refresh = Gone
      /\ refreshable => refresh \in RefreshRows /\ refresh.access = k /\ refresh.revoked = NULL
      /\ refresh \in RefreshRows \union {Unused, Gone}
  BY <1>2, <1>3, TagsAssumption
<1> HIDE DEF access, pair, refresh
<1>5. /\ at' \in [Keys -> AccessRows \union {Unused, Gone}]
      /\ rt' \in [Keys -> RefreshRows \union {Unused, Gone}]
  BY <1>1, <1>2, <1>4 DEF Tables, RowTypes
<1>6. ASSUME NEW j \in Keys PROVE AccessEffect(j) /\ RefreshEffect(j)
  <2>1. CASE j = k
    <3>1. at'[j] = access /\ rt'[j] = refresh /\ at[j] = Unused /\ idt' = idt
      BY <1>1, <2>1 DEF Tables, RowTypes
    <3>2. AccessEffect(j)
      BY <1>2, <1>4, <2>1, <3>1 DEF AccessEffect
    <3>3. RefreshEffect(j)
      BY <1>2, <1>4, <2>1, <3>1 DEF RefreshEffect
    <3>4. QED
      BY <3>2, <3>3
  <2>2. CASE j # k
    BY <1>1, <2>2, UntouchedRow DEF Tables, RowTypes
  <2>3. QED
    BY <2>1, <2>2
<1>7. QED
  BY <1>1, <1>5, <1>6, UntouchedRow DEF Effects, Tables, RowTypes

LEMMA RevokeRefreshEffects == ASSUME Tables, NEW k \in Keys, RevokeRefresh(k) PROVE Effects
BY RevokeEffects DEF RevokeRefresh

LEMMA RotateEffects ==
  ASSUME Tables, NEW k \in Keys, NEW j \in Keys, Rotate(k, j) PROVE Effects
<1> DEFINE account == rt[k].account
           access  == AccessRow(j, account, TRUE)
           pair    == [account |-> account, access |-> j, revoked |-> NULL]
           old     == IF rt[k].access = k THEN Gone ELSE at[k]
           spent   == Detached(k, now)
<1>1. /\ Live(k) /\ at[j] = Unused /\ OwnIdToken(j, account)
      /\ UNCHANGED <<now, rotate, idt>>
  BY DEF Rotate, Fresh
<1>2. /\ Revoked(k) = [rt EXCEPT ![k] = spent]
      /\ WithoutAccess(k) = [at EXCEPT ![k] = old]
      /\ spent \in RefreshRows /\ rt[k] \in RefreshRows /\ rt[k].revoked = NULL
      /\ at[k] # Unused
  BY <1>1, RevokedFacts
<1>3. account \in Accounts /\ pair \in RefreshRows
  BY <1>2 DEF RefreshRows
<1>4. /\ access \in AccessRows /\ access.account = account /\ access.expires >= now
      /\ access.idToken => Row(idt, j) /\ idt[j].user = account.user
  BY <1>1, <1>3, AccessRowFacts
<1>5. j # k /\ access # Unused /\ old \in AccessRows \union {Unused, Gone}
  BY <1>1, <1>2, <1>4, TagsAssumption DEF Tables, RowTypes
<1>6. /\ at' = [[at EXCEPT ![k] = old] EXCEPT ![j] = access]
      /\ rt' = [[rt EXCEPT ![k] = spent] EXCEPT ![j] = pair]
  BY <1>2 DEF Rotate
<1>7. /\ pair = [account |-> access.account, access |-> j, revoked |-> NULL]
      /\ pair.access = j /\ pair.revoked = NULL
  BY <1>4
<1> HIDE DEF account, access, pair, old, spent
<1>8. /\ at' \in [Keys -> AccessRows \union {Unused, Gone}]
      /\ rt' \in [Keys -> RefreshRows \union {Unused, Gone}]
      /\ at'[k] = old /\ rt'[k] = spent /\ at'[j] = access /\ rt'[j] = pair
      /\ \A i \in Keys \ {j, k} : at'[i] = at[i] /\ rt'[i] = rt[i]
  BY <1>2, <1>3, <1>4, <1>5, <1>6 DEF Tables, RowTypes
<1>9. ASSUME NEW i \in Keys PROVE AccessEffect(i) /\ RefreshEffect(i)
  <2>1. CASE i = j
    <3>1. AccessEffect(j)
      BY <1>1, <1>3, <1>4, <1>7, <1>8 DEF AccessEffect
    <3>2. RefreshEffect(j)
      BY <1>1, <1>4, <1>7, <1>8 DEF RefreshEffect
    <3>3. QED
      BY <2>1, <3>1, <3>2
  <2>2. CASE i = k
    <3>1. AccessEffect(k)
      BY <1>8 DEF AccessEffect, old
    <3>2. RefreshEffect(k)
      BY <1>1, <1>2, <1>8 DEF RefreshEffect, old, spent, Live
    <3>3. QED
      BY <2>2, <3>1, <3>2
  <2>3. CASE i \notin {j, k}
    BY <1>8, <2>3, UntouchedRow
  <2>4. QED
    BY <2>1, <2>2, <2>3
<1>10. QED
  BY <1>1, <1>8, <1>9, UntouchedRow DEF Effects, Tables, RowTypes

LEMMA RenewInPlaceEffects == ASSUME Tables, NEW k \in Keys, RenewInPlace(k) PROVE Effects
<1> DEFINE renewed == [at[k] EXCEPT !.expires = now + AccessLife]
<1>1. rt[k].access = k /\ Row(at, k) /\ ~rotate
  BY DEF RenewInPlace, Live, Tables, ForeignKeys
<1>2. at[k] \in AccessRows /\ now + AccessLife \in Nat /\ now + AccessLife >= now
  BY <1>1, RowOf, LivesAssumption DEF Tables, RowTypes
<1>3. at' = [at EXCEPT ![k] = renewed] /\ UNCHANGED <<now, rotate, rt, idt>>
  BY <1>1 DEF RenewInPlace
<1>4. /\ renewed \in AccessRows /\ renewed.account = at[k].account
      /\ renewed.idToken = at[k].idToken /\ renewed.expires >= now
      /\ renewed # Gone
  BY <1>2, TagsAssumption DEF AccessRows
<1> HIDE DEF renewed
<1>5. /\ at' \in [Keys -> AccessRows \union {Unused, Gone}]
      /\ at'[k] = renewed /\ \A j \in Keys \ {k} : at'[j] = at[j]
  BY <1>3, <1>4 DEF Tables, RowTypes
<1>6. AccessEffect(k) /\ RefreshEffect(k)
  BY <1>1, <1>3, <1>4, <1>5 DEF AccessEffect, RefreshEffect
<1>7. QED
  BY <1>3, <1>5, <1>6, UntouchedRow DEF Effects, Tables, RowTypes

LEMMA RevokeAccessEffects == ASSUME Tables, NEW k \in Keys, RevokeAccess(k) PROVE Effects
<1>1. /\ at' = Remove(at, {k}) /\ rt' = Unpair(rt, {k})
      /\ UNCHANGED <<now, rotate, idt>> /\ {k} \in SUBSET Keys
  BY DEF RevokeAccess
<1>2. /\ at' \in [Keys -> AccessRows \union {Unused, Gone}]
      /\ rt' \in [Keys -> RefreshRows \union {Unused, Gone}]
      /\ \A j \in Keys : AccessEffect(j) /\ RefreshEffect(j)
  BY <1>1, UnpairEffects
<1>3. \A j \in Keys : IdEffect(j)
  BY <1>1, UntouchedRow
<1>4. QED
  BY <1>1, <1>2, <1>3 DEF Effects, Tables, RowTypes

LEMMA TokenEndpointEffects == ASSUME Tables, TokenEndpoint PROVE Effects
<1>1. ASSUME NEW k \in Keys, NEW account \in Accounts, FinalizeIdToken(k, account)
      PROVE  Effects
  BY <1>1, FinalizeIdTokenEffects
<1>2. ASSUME NEW k \in Keys, NEW account \in Accounts, NEW refreshable \in BOOLEAN,
             Issue(k, account, refreshable)
      PROVE  Effects
  BY <1>2, IssueEffects
<1>3. ASSUME NEW k \in Keys, Abandon(k) PROVE Effects
  BY <1>3, AbandonEffects
<1>4. ASSUME NEW k \in Keys, RevokeRefresh(k) PROVE Effects
  BY <1>4, RevokeRefreshEffects
<1>5. ASSUME NEW k \in Keys, RenewInPlace(k) PROVE Effects
  BY <1>5, RenewInPlaceEffects
<1>6. ASSUME NEW k \in Keys, RevokeAccess(k) PROVE Effects
  BY <1>6, RevokeAccessEffects
<1>7. ASSUME NEW k \in Keys, NEW j \in Keys, Rotate(k, j) PROVE Effects
  BY <1>7, RotateEffects
<1>8. QED
  BY <1>1, <1>2, <1>3, <1>4, <1>5, <1>6, <1>7 DEF TokenEndpoint

-----------------------------------------------------------------------------
(* What the cleaner has read still holds of the rows when it deletes them. *)
CleanerReads ==
  /\ stage \in 0..4 /\ started \in 0..now /\ batch \subseteq Keys
  /\ stage = 0 => batch = {}
  /\ stage = 1 => \A k \in batch : rt[k] # Unused /\ ~Live(k)
  /\ stage = 2 => \A k \in batch :
       rt[k] # Unused /\ (rotate /\ Row(at, k) => at[k].expires < RefreshExpireAt)

LEMMA DeleteBatchEffects == ASSUME Tables, CleanerReads, DeleteBatch PROVE Effects
<1>1. stage \in 1..4 /\ batch \in SUBSET Keys /\ UNCHANGED <<now, rotate>>
  BY DEF DeleteBatch, CleanerReads
<1>2. CASE stage \in {1, 2}
  <2>1. rt' = Remove(rt, batch) /\ UNCHANGED <<at, idt>>
    <3>1. (stage \in {1, 2}) = TRUE /\ (stage = 3) = FALSE /\ (stage = 4) = FALSE
      BY <1>2
    <3>2. QED
      BY <3>1, Zenon DEF DeleteBatch
  <2>2. rt' \in [Keys -> RefreshRows \union {Unused, Gone}]
    BY <2>1 DEF Remove, Tables, RowTypes
  <2>3. ASSUME NEW k \in Keys PROVE AccessEffect(k) /\ RefreshEffect(k) /\ IdEffect(k)
    <3>1. rt'[k] = IF k \in batch THEN Gone ELSE rt[k]
      BY <2>1 DEF Remove
    <3>2. k \in batch => rt[k] # Unused
      BY <1>2 DEF CleanerReads
    <3>3. RefreshEffect(k)
      BY <1>2, <2>1, <3>1, <3>2, UntouchedRow DEF RefreshEffect
    <3>4. QED
      BY <2>1, <3>3, UntouchedRow
  <2>4. QED
    BY <1>1, <2>1, <2>2, <2>3 DEF Effects, Tables, RowTypes
<1>3. CASE stage = 3
  <2>1. at' = Remove(at, batch) /\ rt' = Unpair(rt, batch) /\ UNCHANGED idt
    BY <1>3 DEF DeleteBatch
  <2>2. QED
    BY <1>1, <2>1, UnpairEffects, UntouchedRow DEF Effects, Tables, RowTypes
<1>4. CASE stage = 4
  <2> DEFINE linked == Cascade(batch)
  <2>1. idt' = Remove(idt, batch) /\ at' = Remove(at, linked) /\ rt' = Unpair(rt, linked)
    BY <1>4 DEF DeleteBatch
  <2>2. linked \in SUBSET Keys
    BY <1>1 DEF Cascade
  <2>3. \A k \in Keys : at'[k] = IF k \in linked THEN Gone ELSE at[k]
    BY <2>1 DEF Remove
  <2>4. \A k \in batch : at'[k] \in AccessRows => ~at'[k].idToken
    BY <1>1, <2>3, TagsAssumption DEF Cascade, Linked, Row, Tables, RowTypes
  <2> HIDE DEF linked
  <2>5. /\ idt' \in [Keys -> IdRows \union {Unused, Gone}]
        /\ \A k \in Keys : idt'[k] = IF k \in batch THEN Gone ELSE idt[k]
    BY <2>1 DEF Remove, Tables, RowTypes
  <2>6. \A k \in Keys : IdEffect(k)
    BY <2>4, <2>5 DEF IdEffect
  <2>7. /\ at' \in [Keys -> AccessRows \union {Unused, Gone}]
        /\ rt' \in [Keys -> RefreshRows \union {Unused, Gone}]
        /\ \A k \in Keys : AccessEffect(k) /\ RefreshEffect(k)
    BY <2>1, <2>2, UnpairEffects
  <2>8. QED
    BY <1>1, <2>5, <2>6, <2>7 DEF Effects, Tables, RowTypes
<1>5. QED
  BY <1>1, <1>2, <1>3, <1>4

(* What the rows keep under any step.                                      *)
LEMMA RowsKeep ==
  ASSUME Tables, Effects, NEW k \in Keys
  PROVE  /\ at[k] # Unused => /\ at'[k] # Unused
                              /\ Row(at', k) => Row(at, k) /\ at'[k].account = at[k].account
         /\ rt[k] # Unused => /\ rt'[k] # Unused
                              /\ Row(at', k) => Row(at, k) /\ at'[k].account = at[k].account
                              /\ Row(rt', k) /\ rt'[k].revoked = NULL => Live(k)
         /\ rotate /\ Row(at, k) /\ Row(at', k) => at'[k] = at[k]
<1>1. /\ Row(at, k) <=> at[k] \in AccessRows
      /\ Row(rt, k) <=> rt[k] \in RefreshRows
      /\ Row(at', k) <=> at'[k] \in AccessRows
      /\ Row(rt', k) <=> rt'[k] \in RefreshRows
  BY RowOf, RowOfNext DEF Tables, RowTypes, Effects
<1>2. AccessEffect(k) /\ RefreshEffect(k)
  BY DEF Effects
<1>3. rt[k] # Unused => at[k] # Unused
  BY DEF Tables, ForeignKeys
<1>4. /\ rt[k] \in RefreshRows => Detached(k, rt[k].revoked) \in RefreshRows
      /\ rt[k] \in RefreshRows => Detached(k, now) \in RefreshRows
      /\ Detached(k, rt[k].revoked).revoked = rt[k].revoked
      /\ Detached(k, now).revoked = now
      /\ now # NULL
  BY <1>1, DetachedType, TagsAssumption DEF Detached, Tables, RowTypes
<1>5. at[k] # Unused => /\ at'[k] # Unused
                        /\ Row(at', k) => Row(at, k) /\ at'[k].account = at[k].account
  BY <1>1, <1>2, TagsAssumption DEF AccessEffect
<1>6. rt[k] # Unused => /\ rt'[k] # Unused
                        /\ Row(rt', k) /\ rt'[k].revoked = NULL => Live(k)
  BY <1>1, <1>2, <1>3, <1>4, TagsAssumption DEF RefreshEffect, Live
<1>7. rotate /\ Row(at, k) /\ Row(at', k) => at'[k] = at[k]
  BY <1>1, <1>2, TagsAssumption DEF AccessEffect
<1>8. QED
  BY <1>3, <1>5, <1>6, <1>7

LEMMA ReadsKept ==
  ASSUME Tables, Effects, CleanerReads, UNCHANGED cleaner PROVE CleanerReads'
<1>1. UNCHANGED <<stage, started, batch>> /\ now' \in 0..MaxTime /\ now' >= now /\ rotate' = rotate
  BY DEF cleaner, Effects
<1>2. stage' \in 0..4 /\ started' \in 0..now' /\ batch' \subseteq Keys
  BY <1>1, LivesAssumption DEF CleanerReads, Tables, RowTypes
<1>3. stage' = 0 => batch' = {}
  BY <1>1 DEF CleanerReads
<1>4. \A k \in batch : k \in Keys
  BY DEF CleanerReads
<1>5. stage' = 1 => \A k \in batch' : rt'[k] # Unused /\ ~(Row(rt', k) /\ rt'[k].revoked = NULL)
  BY <1>1, <1>4, RowsKeep DEF CleanerReads
<1>6. stage' = 2 => \A k \in batch' :
        rt'[k] # Unused /\ (rotate' /\ Row(at', k) => at'[k].expires < RefreshExpireAt')
  <2> SUFFICES ASSUME stage = 2, NEW k \in batch
               PROVE  rt'[k] # Unused /\ (rotate /\ Row(at', k) => at'[k].expires < RefreshExpireAt)
    BY <1>1 DEF RefreshExpireAt
  <2>1. k \in Keys /\ rt[k] # Unused /\ (rotate /\ Row(at, k) => at[k].expires < RefreshExpireAt)
    BY <1>4 DEF CleanerReads
  <2>2. QED
    BY <2>1, RowsKeep
<1>7. QED
  BY <1>2, <1>3, <1>5, <1>6 DEF CleanerReads, Live

(* With rotation on, no refresh token leaves a usable access token behind. *)
LEMMA OrphansKept ==
  ASSUME Tables, Effects, CleanerReads, NoOrphanBearer PROVE NoOrphanBearer'
<1> SUFFICES ASSUME rotate, NEW k \in Keys,
                    Row(at', k), at'[k].refreshable, now' < at'[k].expires
             PROVE  (Row(rt', k) /\ rt'[k].revoked = NULL) /\ rt'[k].access = k
  BY DEF NoOrphanBearer, Live, Effects
<1>1. /\ Row(at, k) <=> at[k] \in AccessRows
      /\ Row(at', k) <=> at'[k] \in AccessRows
      /\ Row(rt', k) <=> rt'[k] \in RefreshRows
  BY RowOf, RowOfNext DEF Tables, RowTypes, Effects
<1>2. AccessEffect(k) /\ RefreshEffect(k)
  BY DEF Effects
<1>3. at'[k] # Gone /\ at'[k] # Unused
  BY DEF Row
<1>4. CASE at[k] = Unused
  BY <1>1, <1>2, <1>3, <1>4, TagsAssumption DEF AccessEffect, Row
<1>5. CASE at[k] # Unused
  <2>1. at'[k] = at[k] /\ Row(at, k)
    BY <1>1, <1>2, <1>3, <1>5, TagsAssumption DEF AccessEffect
  <2>2. now < at[k].expires
    <3>1. now' \in Nat /\ now \in Nat /\ now' >= now
      BY LivesAssumption DEF Effects, Tables, RowTypes
    <3>2. at[k].expires \in Nat
      BY <1>1, <2>1 DEF AccessRows
    <3>3. QED
      BY <2>1, <3>1, <3>2
  <2>3. Live(k) /\ rt[k].access = k
    BY <2>1, <2>2 DEF NoOrphanBearer
  <2>4. ~(stage \in {1, 2} /\ k \in batch)
    <3>1. ~(stage = 1 /\ k \in batch)
      BY <2>3 DEF CleanerReads
    <3>2. ~(stage = 2 /\ k \in batch)
      <4>1. stage = 2 /\ k \in batch => at[k].expires < RefreshExpireAt
        BY <2>1 DEF CleanerReads
      <4>2. RefreshExpireAt \in Int /\ RefreshExpireAt <= now /\ now \in Int
        BY LivesAssumption, BatchAssumption DEF RefreshExpireAt, CleanerReads, Tables, RowTypes
      <4>3. at[k].expires \in Nat
        BY <1>1, <2>1 DEF AccessRows
      <4>4. QED
        BY <2>2, <4>1, <4>2, <4>3
    <3>3. QED
      BY <3>1, <3>2
  <2>5. rt'[k] = rt[k]
    BY <1>2, <1>3, <1>5, <2>3, <2>4 DEF RefreshEffect, Live
  <2>6. QED
    BY <2>3, <2>5 DEF Live, Row
<1>6. QED
  BY <1>4, <1>5

-----------------------------------------------------------------------------
(* A query that finds nothing finds nothing later in the same run.         *)
NothingRevoked == \A k \in Keys : Row(rt, k) /\ rt[k].revoked # NULL => rt[k].revoked >= RefreshExpireAt
NothingExpired ==
  \A k \in Keys : Row(rt, k) /\ rt[k].access # NULL => at[rt[k].access].expires >= RefreshExpireAt
NothingLeft == \A k \in Keys : Row(at, k) /\ ~Paired(k) => at[k].expires >= started

LEMMA Times ==
  ASSUME Tables, CleanerReads
  PROVE  /\ now \in Nat /\ started \in Nat /\ started <= now
         /\ RefreshExpireAt \in Int /\ RefreshExpireAt <= now
BY LivesAssumption, BatchAssumption DEF Tables, RowTypes, CleanerReads, RefreshExpireAt

LEMMA NothingMatches ==
  ASSUME Tables, CleanerReads
  PROVE  /\ Matching(1) = {} <=> NothingRevoked
         /\ Matching(2) = {} <=> NothingExpired
         /\ Matching(3) = {} <=> NothingLeft
<1>1. /\ \A k \in Keys : Row(rt, k) => rt[k] \in RefreshRows
      /\ \A k \in Keys : Row(at, k) => at[k] \in AccessRows
  BY RowOf DEF Tables, RowTypes
<1>2. /\ Matching(1) = RevokedRefresh(RefreshExpireAt)
      /\ Matching(2) = ExpiredRefresh(RefreshExpireAt)
      /\ Matching(3) = ExpiredAccess(started)
  BY DEF Matching
<1>3. Matching(1) = {} <=> NothingRevoked
  <2>1. \A k \in Keys : Row(rt, k) /\ rt[k].revoked # NULL => rt[k].revoked \in Nat
    BY <1>1 DEF RefreshRows
  <2>2. \A k \in Keys : Row(rt, k) /\ rt[k].revoked # NULL =>
          (rt[k].revoked < RefreshExpireAt <=> ~(rt[k].revoked >= RefreshExpireAt))
    BY <2>1, Times
  <2>3. QED
    BY <1>2, <2>2 DEF RevokedRefresh, NothingRevoked
<1>4. Matching(2) = {} <=> NothingExpired
  <2>1. \A k \in Keys : Row(rt, k) /\ rt[k].access # NULL => at[rt[k].access].expires \in Nat
    BY <1>1 DEF Tables, ForeignKeys, AccessRows
  <2>2. \A k \in Keys : Row(rt, k) /\ rt[k].access # NULL =>
          (at[rt[k].access].expires < RefreshExpireAt
             <=> ~(at[rt[k].access].expires >= RefreshExpireAt))
    BY <2>1, Times
  <2>3. QED
    BY <1>2, <2>2 DEF ExpiredRefresh, NothingExpired
<1>5. Matching(3) = {} <=> NothingLeft
  <2>1. \A k \in Keys : Row(at, k) => at[k].expires \in Nat
    BY <1>1 DEF AccessRows
  <2>2. \A k \in Keys : Row(at, k) => (at[k].expires < started <=> ~(at[k].expires >= started))
    BY <2>1, Times
  <2>3. QED
    BY <1>2, <2>2 DEF ExpiredAccess, NothingLeft
<1>6. QED
  BY <1>3, <1>4, <1>5

Found ==
  /\ stage > 1 => NothingRevoked
  /\ stage > 2 => NothingExpired
  /\ stage > 3 => NothingLeft

LEMMA FoundMeans == ASSUME Tables, CleanerReads PROVE StagesComplete <=> Found
<1>1. stage \in 0..4
  BY DEF CleanerReads
<1>2. StagesComplete <=> \A query \in 1..3 : query < stage => Matching(query) = {}
  BY <1>1 DEF StagesComplete
<1>3. (\A query \in 1..3 : query < stage => Matching(query) = {}) <=>
        /\ stage > 1 => Matching(1) = {}
        /\ stage > 2 => Matching(2) = {}
        /\ stage > 3 => Matching(3) = {}
  BY <1>1
<1>4. QED
  BY <1>2, <1>3, NothingMatches DEF Found

LEMMA NothingStays ==
  ASSUME Tables, Effects, CleanerReads, started' = started
  PROVE  /\ NothingRevoked => NothingRevoked'
         /\ NothingExpired => NothingExpired'
         /\ NothingLeft /\ stage \notin {1, 2} => NothingLeft'
<1>1. \A k \in Keys : /\ Row(at, k) <=> at[k] \in AccessRows
                      /\ Row(rt, k) <=> rt[k] \in RefreshRows
                      /\ Row(at', k) <=> at'[k] \in AccessRows
                      /\ Row(rt', k) <=> rt'[k] \in RefreshRows
  BY RowOf, RowOfNext DEF Tables, RowTypes, Effects
<1>2. \A k \in Keys : AccessEffect(k) /\ RefreshEffect(k)
  BY DEF Effects
<1>3. RefreshExpireAt' = RefreshExpireAt
  BY DEF RefreshExpireAt
<1>4. Tables'
  BY EffectsKeepTables
<1>5. \A k \in Keys : /\ Detached(k, rt[k].revoked).revoked = rt[k].revoked
                      /\ Detached(k, now).revoked = now
                      /\ Detached(k, rt[k].revoked).access = NULL
                      /\ Detached(k, now).access = NULL
  BY DEF Detached
<1>6. NothingRevoked => NothingRevoked'
  <2> SUFFICES ASSUME NothingRevoked, NEW k \in Keys, Row(rt', k), rt'[k].revoked # NULL
               PROVE  rt'[k].revoked >= RefreshExpireAt
    BY <1>3 DEF NothingRevoked
  <2>1. rt'[k] # Gone
    BY DEF Row
  <2>2. rt'[k].revoked = now \/ (Row(rt, k) /\ rt'[k].revoked = rt[k].revoked)
    <3>1. CASE rt'[k] = rt[k]
      BY <1>1, <3>1
    <3>2. rt'[k] # [account |-> at'[k].account, access |-> k, revoked |-> NULL]
      OBVIOUS
    <3>3. CASE Row(rt, k) /\ (rt'[k] = Detached(k, rt[k].revoked) \/ rt'[k] = Detached(k, now))
      BY <1>5, <3>3
    <3>4. QED
      BY <1>2, <2>1, <3>1, <3>2, <3>3 DEF RefreshEffect
  <2>3. QED
    BY <2>2, Times DEF NothingRevoked
<1>7. NothingExpired => NothingExpired'
  <2> SUFFICES ASSUME NothingExpired, NEW k \in Keys, Row(rt', k), rt'[k].access # NULL
               PROVE  at'[rt'[k].access].expires >= RefreshExpireAt
    BY <1>3 DEF NothingExpired
  <2>1. rt'[k].access = k /\ Row(at', k) /\ at'[k] # Gone /\ rt'[k] # Gone
    BY <1>4 DEF Tables, ForeignKeys, Row
  <2>2. CASE rt'[k] = rt[k] /\ at'[k] = at[k]
    BY <1>1, <2>1, <2>2 DEF NothingExpired
  <2>3. CASE at'[k].expires >= now /\ at'[k] \in AccessRows
    <3>1. at'[k].expires \in Nat
      BY <2>3 DEF AccessRows
    <3>2. QED
      BY <2>1, <2>3, <3>1, Times
  <2>4. at[k] = Unused => rt[k] = Unused /\ at'[k] # Unused
    BY <2>1 DEF Tables, ForeignKeys, Row
  <2>5. at'[k] = at[k] \/ (at'[k].expires >= now /\ at'[k] \in AccessRows)
    BY <1>2, <2>1 DEF AccessEffect
  <2>6. at'[k] = at[k] => rt'[k] = rt[k]
    BY <1>2, <1>5, <2>1, <2>4 DEF RefreshEffect
  <2>7. QED
    BY <2>2, <2>3, <2>5, <2>6
<1>8. NothingLeft /\ stage \notin {1, 2} => NothingLeft'
  <2> SUFFICES ASSUME NothingLeft, stage \notin {1, 2}, NEW k \in Keys,
                      Row(at', k), ~Paired(k)'
               PROVE  at'[k].expires >= started
    BY DEF NothingLeft
  <2>1. at'[k] # Gone /\ at'[k] # Unused
    BY DEF Row
  <2>2. CASE at'[k] = at[k]
    <3>1. Row(at, k)
      BY <1>1, <2>2
    <3>2. ~Paired(k)
      <4> SUFFICES ASSUME NEW r \in Keys, Row(rt, r), rt[r].access = k PROVE FALSE
        BY DEF Paired
      <4>1. r = k
        BY TagsAssumption DEF Tables, ForeignKeys
      <4>2. rt'[k] = rt[k]
        BY <1>2, <2>1, <2>2, <4>1 DEF RefreshEffect, Row
      <4>3. Row(rt', k) /\ rt'[k].access = k
        BY <1>1, <4>1, <4>2
      <4>4. QED
        BY <4>3 DEF Paired
    <3>3. QED
      BY <2>2, <3>1, <3>2 DEF NothingLeft
  <2>3. CASE at'[k].expires >= now /\ at'[k] \in AccessRows
    <3>1. at'[k].expires \in Nat
      BY <2>3 DEF AccessRows
    <3>2. QED
      BY <2>3, <3>1, Times
  <2>4. QED
    BY <1>2, <2>1, <2>2, <2>3 DEF AccessEffect
<1>9. QED
  BY <1>6, <1>7, <1>8

-----------------------------------------------------------------------------
(* What a tab still has to do for the pairs its user had when do_logout    *)
(* began: every access token that is left is on its way to being deleted,  *)
(* every refresh token that is live to being revoked.                      *)
Request ==
  [pc : {"idle", "form", "refresh", "access", "delete"}, hint : Keys \union {NULL},
   user : Users \union {account.user : account \in Accounts} \union {NULL},
   refresh : SUBSET Keys, access : SUBSET Keys, idTokens : SUBSET Keys,
   listed : SUBSET Keys]

Debt(b) ==
  \A k \in owed[b] :
    /\ tab[b].pc \in {"access", "delete"} => rt[k] # Unused /\ (Live(k) => k \in tab[b].refresh)
    /\ tab[b].pc = "access" /\ Row(at, k) => /\ at[k].account.user = tab[b].user
                                             /\ at[k].account.app \in Deletable
    /\ tab[b].pc = "delete" /\ Row(at, k) => k \in tab[b].access

(* What is left of the access tokens it has listed is still to be deleted. *)
Listed(b) ==
  tab[b].pc = "delete" =>
    \A k \in tab[b].listed : at[k] # Unused /\ (Row(at, k) => k \in tab[b].access)

Requests ==
  /\ tab \in [Tabs -> Request]
  /\ owed \in [Tabs -> SUBSET Keys]
  /\ \A b \in Tabs : Debt(b) /\ Listed(b)

LEMMA ListedKept ==
  ASSUME Tables, Effects, Requests, NEW b \in Tabs, tab'[b] = tab[b]
  PROVE  Listed(b)'
<1>1. tab[b].listed \subseteq Keys /\ Listed(b)
  BY DEF Requests, Request
<1>2. QED
  BY <1>1, RowsKeep DEF Listed

LEMMA DebtKept ==
  ASSUME Tables, Effects, Requests, NEW b \in Tabs, tab'[b] = tab[b], owed'[b] = owed[b]
  PROVE  Debt(b)'
<1>1. owed[b] \subseteq Keys /\ Debt(b)
  BY DEF Requests
<1>2. SUFFICES ASSUME NEW k \in owed[b]
      PROVE  /\ tab[b].pc \in {"access", "delete"} =>
                  /\ rt'[k] # Unused
                  /\ Row(rt', k) /\ rt'[k].revoked = NULL => k \in tab[b].refresh
             /\ tab[b].pc = "access" /\ Row(at', k) => /\ at'[k].account.user = tab[b].user
                                                       /\ at'[k].account.app \in Deletable
             /\ tab[b].pc = "delete" /\ Row(at', k) => k \in tab[b].access
  BY DEF Debt, Live
<1>3. QED
  BY <1>1, <1>2, RowsKeep DEF Debt

(* The effects of the browser's steps.                                     *)
LEMMA TablesQuiet == ASSUME Tables, UNCHANGED tables PROVE Effects
<1>1. UNCHANGED <<rotate, at, rt, idt>> /\ now' = now /\ now \in 0..MaxTime
  BY DEF tables, Tables, RowTypes
<1>2. now' >= now
  BY <1>1, LivesAssumption
<1>3. QED
  BY <1>1, <1>2, QuietEffects

LEMMA DeleteAccessEffects ==
  ASSUME Tables, Requests, NEW b \in Tabs, NEW k \in Keys, DeleteAccess(b, k) PROVE Effects
<1>1. CASE k \in tab[b].idTokens /\ ~Row(idt, k)
  <2>1. UNCHANGED tables
    BY <1>1 DEF DeleteAccess
  <2>2. QED
    BY <2>1, TablesQuiet
<1>2. CASE ~(k \in tab[b].idTokens /\ ~Row(idt, k))
  <2>1. /\ at' = Remove(at, {k}) /\ rt' = Unpair(rt, {k}) /\ UNCHANGED <<now, rotate>>
        /\ idt' = IF k \in tab[b].idTokens THEN Remove(idt, {k}) ELSE idt
    BY <1>2 DEF DeleteAccess
  <2>2. /\ at' \in [Keys -> AccessRows \union {Unused, Gone}]
        /\ rt' \in [Keys -> RefreshRows \union {Unused, Gone}]
        /\ \A j \in Keys : AccessEffect(j) /\ RefreshEffect(j)
        /\ at'[k] = Gone
    BY <2>1, UnpairEffects
  <2>3. /\ idt' \in [Keys -> IdRows \union {Unused, Gone}]
        /\ \A j \in Keys : idt'[j] = idt[j] \/ (j = k /\ idt'[j] = Gone)
    <3>1. idt \in [Keys -> IdRows \union {Unused, Gone}]
      BY DEF Tables, RowTypes
    <3>2. QED
      BY <2>1, <3>1 DEF Remove
  <2>4. \A j \in Keys : IdEffect(j)
    BY <2>2, <2>3, TagsAssumption DEF IdEffect
  <2>5. now \in 0..MaxTime /\ now' \in 0..MaxTime /\ now' >= now /\ rotate \in BOOLEAN
    BY <2>1, LivesAssumption DEF Tables, RowTypes
  <2>6. QED
    BY <2>1, <2>2, <2>3, <2>4, <2>5 DEF Effects
<1>3. QED
  BY <1>1, <1>2

LEMMA BrowserEffects == ASSUME Tables, Requests, Browser PROVE Effects
<1>1. ASSUME NEW b \in Tabs, NEW k \in Keys, DeleteAccess(b, k) PROVE Effects
  BY <1>1, DeleteAccessEffects
<1>2. ASSUME NEW b \in Tabs, NEW k \in Keys, RevokeListed(b, k) PROVE Effects
  <2>1. CASE Live(k)
    BY <1>2, <2>1, RevokeEffects DEF RevokeListed
  <2>2. CASE ~Live(k)
    BY <1>2, <2>2, TablesQuiet DEF RevokeListed
  <2>3. QED
    BY <2>1, <2>2
<1>3. ASSUME NEW b \in Tabs, NEW login \in Users \union {NULL},
             NEW hint \in Keys \union {NULL}, Get(b, hint, login)
      PROVE  Effects
  BY <1>3, TablesQuiet DEF Get
<1>4. ASSUME NEW b \in Tabs, NEW login \in Users \union {NULL},
             NEW allow \in BOOLEAN, Post(b, allow, login)
      PROVE  Effects
  BY <1>4, TablesQuiet DEF Post
<1>5. ASSUME NEW b \in Tabs, ListRefresh(b) \/ ListAccess(b) \/ EndSession(b) PROVE Effects
  BY <1>5, TablesQuiet DEF ListRefresh, ListAccess, EndSession
<1>6. QED
  BY <1>1, <1>2, <1>3, <1>4, <1>5 DEF Browser

(* A step of one tab keeps the invariant if the tab still has to do what   *)
(* is left of what it owes.                                                *)
LEMMA DebtStep ==
  ASSUME Tables, Effects, Requests, NEW b \in Tabs, NEW row \in Request,
         tab' = [tab EXCEPT ![b] = row],
         owed' \in [Tabs -> SUBSET Keys],
         \A c \in Tabs \ {b} : owed'[c] = owed[c],
         Debt(b)', Listed(b)'
  PROVE  Requests'
<1>1. tab' \in [Tabs -> Request] /\ \A c \in Tabs \ {b} : tab'[c] = tab[c]
  BY DEF Requests
<1>2. \A c \in Tabs \ {b} : Debt(c)' /\ Listed(c)'
  BY <1>1, DebtKept, ListedKept
<1>3. QED
  BY <1>1, <1>2 DEF Requests

LEMMA TabStep ==
  ASSUME Tables, Effects, Requests, NEW b \in Tabs, NEW row \in Request,
         tab' = [tab EXCEPT ![b] = row],
         owed' \in [Tabs -> SUBSET Keys],
         \A c \in Tabs \ {b} : owed'[c] = owed[c],
         \A k \in owed'[b] :
           /\ row.pc \in {"access", "delete"} =>
                /\ rt'[k] # Unused
                /\ Row(rt', k) /\ rt'[k].revoked = NULL => k \in row.refresh
           /\ row.pc = "access" /\ Row(at', k) => /\ at'[k].account.user = row.user
                                                  /\ at'[k].account.app \in Deletable
           /\ row.pc = "delete" /\ Row(at', k) => k \in row.access,
         row.pc = "delete" =>
           \A k \in row.listed : at'[k] # Unused /\ (Row(at', k) => k \in row.access)
  PROVE  Requests'
<1>1. tab'[b] = row
  BY DEF Requests
<1>2. Debt(b)' /\ Listed(b)'
  BY <1>1 DEF Debt, Listed, Live
<1>3. QED
  BY <1>2, DebtStep

LEMMA NoRequestType ==
  /\ NoRequest \in Request /\ NoRequest.pc = "idle"
  /\ \A user \in Users \union {account.user : account \in Accounts} :
       /\ [NoRequest EXCEPT !.pc = "refresh", !.user = user] \in Request
       /\ [NoRequest EXCEPT !.pc = "refresh", !.user = user].pc = "refresh"
BY DEF NoRequest, Request

LEMMA BeginStep ==
  ASSUME Tables, Requests, NEW b \in Tabs, NEW login \in Users \union {NULL},
         NEW hint \in Keys \union {NULL}, HintAccepted(hint), Begin(b, hint, login),
         UNCHANGED <<owed, tables>>
  PROVE  Requests'
<1> DEFINE user == IF hint = NULL THEN login ELSE HintUser(hint)
           row  == IF user = NULL THEN NoRequest
                   ELSE [NoRequest EXCEPT !.pc = "refresh", !.user = user]
<1>1. tab' = [tab EXCEPT ![b] = row]
  BY DEF Begin
<1>2. hint # NULL => HintUser(hint) \in {account.user : account \in Accounts}
  BY RowOf DEF HintAccepted, HintUser, IdRows, Tables, RowTypes
<1>3. user # NULL => user \in Users \union {account.user : account \in Accounts}
  BY <1>2
<1> HIDE DEF user
<1>4. row \in Request /\ row.pc \in {"idle", "refresh"}
  BY <1>3, NoRequestType
<1> HIDE DEF row
<1>5. Effects
  BY TablesQuiet
<1>6. QED
  BY <1>1, <1>4, <1>5, TabStep DEF Requests

LEMMA FormStep ==
  ASSUME Tables, Requests, NEW b \in Tabs, NEW login \in Users \union {NULL},
         \/ \E hint \in Keys \union {NULL} : Get(b, hint, login)
         \/ \E allow \in BOOLEAN : Post(b, allow, login)
  PROVE  Requests'
<1>1. ASSUME NEW hint \in Keys \union {NULL}, Get(b, hint, login) PROVE Requests'
  <2>1. CASE MustPrompt(HintUser(hint), login)
    <3> DEFINE row == [tab[b] EXCEPT !.pc = "form", !.hint = hint]
    <3>1. tab' = [tab EXCEPT ![b] = row] /\ UNCHANGED <<owed, tables>>
      BY <1>1, <2>1 DEF Get
    <3>2. row \in Request /\ row.pc = "form"
      BY DEF Requests, Request
    <3> HIDE DEF row
    <3>3. QED
      BY <3>1, <3>2, TablesQuiet, TabStep DEF Requests
  <2>2. CASE ~MustPrompt(HintUser(hint), login)
    BY <1>1, <2>2, BeginStep DEF Get
  <2>3. QED
    BY <2>1, <2>2
<1>2. ASSUME NEW allow \in BOOLEAN, Post(b, allow, login) PROVE Requests'
  <2> DEFINE hint == tab[b].hint
             go   == HintAccepted(hint) /\ (allow \/ ~MustPrompt(HintUser(hint), login))
  <2>1. hint \in Keys \union {NULL} /\ UNCHANGED <<owed, tables>>
    BY <1>2 DEF Requests, Request, Post
  <2>2. CASE go
    <3>1. Begin(b, hint, login) /\ HintAccepted(hint)
      BY <1>2, <2>2 DEF Post
    <3> HIDE DEF hint
    <3>2. QED
      BY <2>1, <3>1, BeginStep
  <2>3. CASE ~go
    <3>1. tab' = [tab EXCEPT ![b] = NoRequest]
      BY <1>2, <2>3 DEF Post
    <3>2. QED
      BY <2>1, <3>1, NoRequestType, TablesQuiet, TabStep DEF Requests
  <2>4. QED
    BY <2>2, <2>3
<1>3. QED
  BY <1>1, <1>2

LEMMA ListRefreshStep == ASSUME Tables, Requests, NEW b \in Tabs, ListRefresh(b) PROVE Requests'
<1> DEFINE row == [tab[b] EXCEPT !.pc = "access", !.refresh = RefreshTokensToDelete(b)]
<1>1. /\ tab' = [tab EXCEPT ![b] = row]
      /\ owed' = [owed EXCEPT ![b] =
                    {k \in Keys : Live(k) /\ rt[k].access \in AccessTokensToDelete(b)}]
      /\ UNCHANGED tables
  BY DEF ListRefresh
<1>2. RefreshTokensToDelete(b) \in SUBSET Keys
  BY DEF RefreshTokensToDelete
<1>3. /\ row \in Request /\ row.pc = "access" /\ row.user = tab[b].user
      /\ row.refresh = RefreshTokensToDelete(b)
  BY <1>2 DEF Requests, Request
<1> HIDE DEF row
<1>4. /\ owed' \in [Tabs -> SUBSET Keys]
      /\ owed'[b] = {k \in Keys : Live(k) /\ rt[k].access \in AccessTokensToDelete(b)}
      /\ \A c \in Tabs \ {b} : owed'[c] = owed[c]
  BY <1>1 DEF Requests
<1>5. \A k \in owed'[b] : /\ rt[k] # Unused /\ k \in row.refresh
                          /\ Row(at, k) => /\ at[k].account.user = row.user
                                           /\ at[k].account.app \in Deletable
  <2> TAKE k \in owed'[b]
  <2>1. k \in Keys /\ Live(k) /\ rt[k].access \in AccessTokensToDelete(b)
    BY <1>4
  <2>2. rt[k].access = k
    BY <2>1, TagsAssumption DEF AccessTokensToDelete, Live, Tables, ForeignKeys
  <2>3. QED
    BY <1>3, <2>1, <2>2 DEF RefreshTokensToDelete, AccessTokensToDelete, Live, Row
<1>6. at' = at /\ rt' = rt /\ Effects
  BY <1>1, TablesQuiet DEF tables
<1>7. \A k \in owed'[b] :
        /\ rt'[k] # Unused
        /\ Row(rt', k) /\ rt'[k].revoked = NULL => k \in row.refresh
        /\ Row(at', k) => at'[k].account.user = row.user /\ at'[k].account.app \in Deletable
  BY <1>5, <1>6
<1>8. tab'[b] = row
  BY <1>1 DEF Requests
<1>9. Debt(b)' /\ Listed(b)'
  BY <1>3, <1>7, <1>8 DEF Debt, Listed, Live
<1>10. QED
  BY <1>1, <1>3, <1>4, <1>6, <1>9, DebtStep

LEMMA ListAccessStep == ASSUME Tables, Requests, NEW b \in Tabs, ListAccess(b) PROVE Requests'
<1> DEFINE ids == {k \in AccessTokensToDelete(b) : at[k].idToken}
           row == [tab[b] EXCEPT !.pc = "delete", !.access = AccessTokensToDelete(b),
                                 !.listed = AccessTokensToDelete(b), !.idTokens = ids]
<1>1. tab' = [tab EXCEPT ![b] = row] /\ UNCHANGED <<owed, tables>> /\ tab[b].pc = "access"
  BY DEF ListAccess
<1>2. AccessTokensToDelete(b) \in SUBSET Keys /\ ids \in SUBSET Keys
  BY DEF AccessTokensToDelete
<1> HIDE DEF ids
<1>3. /\ row \in Request /\ row.pc = "delete" /\ row.refresh = tab[b].refresh
      /\ row.access = AccessTokensToDelete(b) /\ row.listed = AccessTokensToDelete(b)
  BY <1>2 DEF Requests, Request
<1> HIDE DEF row
<1>4. at' = at /\ rt' = rt /\ owed' = owed /\ Effects
  BY <1>1, TablesQuiet DEF tables
<1>5. \A k \in owed[b] : /\ rt[k] # Unused /\ (Live(k) => k \in row.refresh)
                         /\ Row(at, k) => k \in row.access
  BY <1>1, <1>3 DEF Requests, Debt, AccessTokensToDelete
<1>6. \A k \in row.listed : at[k] # Unused /\ k \in row.access
  BY <1>3 DEF AccessTokensToDelete, Row
<1>7. QED
  BY <1>1, <1>3, <1>4, <1>5, <1>6, TabStep DEF Live, Requests

LEMMA ClosedStep ==
  ASSUME Tables, Effects, Requests, NEW b \in Tabs,
         tab' = [tab EXCEPT ![b] = NoRequest], owed' = [owed EXCEPT ![b] = {}]
  PROVE  Requests'
<1>1. owed' \in [Tabs -> SUBSET Keys] /\ owed'[b] = {} /\ \A c \in Tabs \ {b} : owed'[c] = owed[c]
  BY DEF Requests
<1>2. QED
  BY <1>1, NoRequestType, TabStep

LEMMA DeleteAccessStep ==
  ASSUME Tables, Requests, NEW b \in Tabs, NEW k \in Keys, DeleteAccess(b, k) PROVE Requests'
<1>1. Effects
  BY DeleteAccessEffects
<1>2. CASE k \in tab[b].idTokens /\ ~Row(idt, k)
  BY <1>1, <1>2, ClosedStep DEF DeleteAccess
<1>3. CASE ~(k \in tab[b].idTokens /\ ~Row(idt, k))
  <2> DEFINE row == [tab[b] EXCEPT !.access = tab[b].access \ {k}]
  <2>1. /\ tab' = [tab EXCEPT ![b] = row] /\ owed' = owed /\ tab[b].pc = "delete"
        /\ at' = Remove(at, {k})
    BY <1>3 DEF DeleteAccess
  <2>2. /\ row \in Request /\ row.pc = "delete" /\ row.refresh = tab[b].refresh
        /\ row.access = tab[b].access \ {k} /\ row.listed = tab[b].listed
    BY <2>1 DEF Requests, Request
  <2> HIDE DEF row
  <2>3. ~Row(at', k)
    BY <2>1 DEF Remove, Row
  <2>4. \A j \in owed[b] : /\ j \in Keys /\ rt[j] # Unused /\ (Live(j) => j \in row.refresh)
                           /\ Row(at, j) => j \in tab[b].access
    BY <2>1, <2>2 DEF Requests, Debt
  <2>5. \A j \in owed[b] : /\ rt'[j] # Unused
                           /\ Row(rt', j) /\ rt'[j].revoked = NULL => j \in row.refresh
                           /\ Row(at', j) => j \in row.access
    BY <1>1, <2>2, <2>3, <2>4, RowsKeep
  <2>6. \A j \in row.listed : /\ j \in Keys /\ at[j] # Unused
                              /\ Row(at, j) => j \in tab[b].access
    BY <2>1, <2>2 DEF Requests, Request, Listed
  <2>7. \A j \in row.listed : at'[j] # Unused /\ (Row(at', j) => j \in row.access)
    BY <1>1, <2>2, <2>3, <2>6, RowsKeep
  <2>8. QED
    BY <1>1, <2>1, <2>2, <2>5, <2>7, TabStep DEF Requests
<1>4. QED
  BY <1>2, <1>3

LEMMA RevokeListedStep ==
  ASSUME Tables, Requests, NEW b \in Tabs, NEW k \in Keys, RevokeListed(b, k), Effects
  PROVE  Requests'
<1> DEFINE row == [tab[b] EXCEPT !.refresh = tab[b].refresh \ {k}]
<1>1. /\ tab' = [tab EXCEPT ![b] = row] /\ owed' = owed /\ tab[b].pc = "delete"
  BY DEF RevokeListed
<1>2. /\ row \in Request /\ row.pc = "delete" /\ row.refresh = tab[b].refresh \ {k}
      /\ row.access = tab[b].access /\ row.listed = tab[b].listed
  BY <1>1 DEF Requests, Request
<1> HIDE DEF row
<1>3. ~(Row(rt', k) /\ rt'[k].revoked = NULL)
  <2>1. CASE Live(k)
    <3>1. rt' = [rt EXCEPT ![k] = Detached(k, now)]
      BY <2>1, RevokedFacts DEF RevokeListed
    <3>2. rt'[k].revoked = now /\ now # NULL
      BY <3>1, TagsAssumption DEF Detached, Tables, RowTypes
    <3>3. QED
      BY <3>2
  <2>2. CASE ~Live(k)
    BY <2>2 DEF RevokeListed, tables, Live
  <2>3. QED
    BY <2>1, <2>2
<1>4. \A j \in owed[b] : /\ j \in Keys /\ rt[j] # Unused /\ (Live(j) => j \in tab[b].refresh)
                         /\ Row(at, j) => j \in row.access
  BY <1>1, <1>2 DEF Requests, Debt
<1>5. \A j \in owed[b] : /\ rt'[j] # Unused
                         /\ Row(rt', j) /\ rt'[j].revoked = NULL => j \in row.refresh
                         /\ Row(at', j) => j \in row.access
  BY <1>2, <1>3, <1>4, RowsKeep
<1>6. \A j \in row.listed : at'[j] # Unused /\ (Row(at', j) => j \in row.access)
  <2>1. \A j \in row.listed : j \in Keys /\ at[j] # Unused /\ (Row(at, j) => j \in row.access)
    BY <1>1, <1>2 DEF Requests, Request, Listed
  <2>2. QED
    BY <2>1, RowsKeep
<1>7. QED
  BY <1>1, <1>2, <1>5, <1>6, TabStep DEF Requests

LEMMA BrowserStep == ASSUME Tables, Requests, Browser PROVE Requests'
<1>1. Effects
  BY BrowserEffects
<1>2. ASSUME NEW b \in Tabs, NEW login \in Users \union {NULL},
             \/ \E hint \in Keys \union {NULL} : Get(b, hint, login)
             \/ \E allow \in BOOLEAN : Post(b, allow, login)
      PROVE  Requests'
  BY <1>2, FormStep
<1>3. ASSUME NEW b \in Tabs, ListRefresh(b) PROVE Requests'
  BY <1>3, ListRefreshStep
<1>4. ASSUME NEW b \in Tabs, ListAccess(b) PROVE Requests'
  BY <1>4, ListAccessStep
<1>5. ASSUME NEW b \in Tabs, NEW k \in Keys, DeleteAccess(b, k) PROVE Requests'
  BY <1>5, DeleteAccessStep
<1>6. ASSUME NEW b \in Tabs, NEW k \in Keys, RevokeListed(b, k) PROVE Requests'
  BY <1>1, <1>6, RevokeListedStep
<1>7. ASSUME NEW b \in Tabs, EndSession(b) PROVE Requests'
  BY <1>1, <1>7, ClosedStep DEF EndSession
<1>8. QED
  BY <1>2, <1>3, <1>4, <1>5, <1>6, <1>7 DEF Browser

-----------------------------------------------------------------------------
(* The inductive invariant, and the steps of the cleaner.                  *)
IInv == Tables /\ CleanerReads /\ NoOrphanBearer /\ Found /\ Requests

LEMMA InvInit == Init => IInv
<1> SUFFICES ASSUME Init PROVE IInv
  OBVIOUS
<1>1. \A k \in Keys : ~Row(at, k) /\ ~Row(rt, k) /\ ~Row(idt, k)
  BY DEF Init, InitTables, Row
<1>2. Tables
  BY <1>1, LivesAssumption DEF Init, InitTables, Tables, RowTypes, ForeignKeys, Linked
<1>3. CleanerReads
  BY DEF Init, InitTables, InitCleaner, CleanerReads
<1>4. NoOrphanBearer /\ Found
  BY <1>1 DEF Init, InitCleaner, NoOrphanBearer, Found
<1>5. Requests
  <2>1. tab \in [Tabs -> Request] /\ owed = [b \in Tabs |-> {}]
    BY NoRequestType DEF Init, InitBrowser
  <2>2. \A b \in Tabs : owed[b] = {} /\ tab[b].pc = "idle"
    BY <2>1, NoRequestType DEF Init, InitBrowser
  <2>3. QED
    BY <2>1, <2>2 DEF Requests, Debt, Listed
<1>6. QED
  BY <1>2, <1>3, <1>4, <1>5 DEF IInv

(* A step with those effects that leaves the cleaner alone.                *)
LEMMA OthersKeep ==
  ASSUME IInv, Effects, UNCHANGED cleaner
  PROVE  Tables' /\ CleanerReads' /\ NoOrphanBearer' /\ Found'
<1>1. Tables' /\ CleanerReads' /\ NoOrphanBearer'
  BY EffectsKeepTables, ReadsKept, OrphansKept DEF IInv
<1>2. stage' = stage /\ started' = started
  BY DEF cleaner
<1>3. /\ stage > 1 => NothingRevoked'
      /\ stage > 2 => NothingExpired'
      /\ stage > 3 => NothingLeft'
  BY NothingStays, <1>2 DEF IInv, Found
<1>4. Found'
  BY <1>2, <1>3 DEF Found
<1>5. QED
  BY <1>1, <1>4

LEMMA RequestsKept ==
  ASSUME Tables, Effects, Requests, UNCHANGED browser PROVE Requests'
<1>1. tab' = tab /\ owed' = owed
  BY DEF browser
<1>2. \A b \in Tabs : Debt(b)' /\ Listed(b)'
  BY <1>1, DebtKept, ListedKept DEF Requests
<1>3. QED
  BY <1>1, <1>2 DEF Requests

(* A step of the cleaner that only reads.                                  *)
LEMMA ReaderKeeps ==
  ASSUME IInv, UNCHANGED tables, UNCHANGED browser, CleanerReads', Found' PROVE IInv'
<1>1. Effects
  BY TablesQuiet DEF IInv
<1>2. Tables' /\ NoOrphanBearer' /\ Requests'
  BY <1>1, EffectsKeepTables, OrphansKept, RequestsKept DEF IInv
<1>3. QED
  BY <1>2 DEF IInv

LEMMA StartCleaningStep == ASSUME IInv, StartCleaning, UNCHANGED browser PROVE IInv'
<1>1. stage' = 1 /\ started' = now /\ batch = {} /\ batch' = {} /\ UNCHANGED tables
  BY DEF StartCleaning, IInv, CleanerReads
<1>2. now' = now /\ now \in Nat
  BY <1>1, Times DEF tables, IInv
<1>3. CleanerReads' /\ Found'
  BY <1>1, <1>2 DEF CleanerReads, Found
<1>4. QED
  BY <1>1, <1>3, ReaderKeeps

LEMMA ReadBatchStep == ASSUME IInv, ReadBatch, UNCHANGED browser PROVE IInv'
<1>1. /\ stage \in 1..4 /\ UNCHANGED <<stage, started>> /\ UNCHANGED tables
      /\ batch' \in SUBSET Matching(stage)
  BY DEF ReadBatch, Slice, kSubset, IInv, CleanerReads
<1>2. UNCHANGED <<now, rotate, at, rt, idt>>
  BY <1>1 DEF tables
<1>3. stage = 1 => \A k \in batch' : k \in Keys /\ rt[k] # Unused /\ ~Live(k)
  BY <1>1 DEF Matching, RevokedRefresh, Row, Live
<1>4. stage = 2 => \A k \in batch' :
        k \in Keys /\ rt[k] # Unused /\ at[k].expires < RefreshExpireAt
  <2> SUFFICES ASSUME stage = 2, NEW k \in batch'
               PROVE  k \in Keys /\ rt[k] # Unused /\ at[k].expires < RefreshExpireAt
    OBVIOUS
  <2>1. /\ k \in Keys /\ Row(rt, k) /\ rt[k].access # NULL
        /\ at[rt[k].access].expires < RefreshExpireAt
    BY <1>1 DEF Matching, ExpiredRefresh
  <2>2. QED
    BY <2>1 DEF IInv, Tables, ForeignKeys, Row
<1>5. batch' \subseteq Keys
  BY <1>1, <1>3, <1>4 DEF Matching, ExpiredAccess, ExpiredId
<1>6. CleanerReads'
  BY <1>1, <1>2, <1>3, <1>4, <1>5 DEF IInv, CleanerReads, Live, Row, RefreshExpireAt
<1>7. Found'
  BY <1>1, <1>2 DEF IInv, Found, NothingRevoked, NothingExpired, NothingLeft, Paired, Row,
                    RefreshExpireAt
<1>8. QED
  BY <1>1, <1>6, <1>7, ReaderKeeps

LEMMA NextQueryStep == ASSUME IInv, NextQuery, UNCHANGED browser PROVE IInv'
<1>1. /\ stage \in 1..4 /\ stage' = (stage + 1) % 5 /\ batch = {} /\ batch' = {}
      /\ Matching(stage) = {} /\ started' = IF stage = 4 THEN 0 ELSE started
      /\ UNCHANGED tables
  BY DEF NextQuery, IInv, CleanerReads
<1>2. UNCHANGED <<now, rotate, at, rt, idt>> /\ now \in Nat /\ started \in 0..now
  BY <1>1, Times DEF tables, IInv, CleanerReads
<1>3. CleanerReads'
  BY <1>1, <1>2 DEF CleanerReads
<1>4. CASE stage = 4
  BY <1>1, <1>3, <1>4, ReaderKeeps DEF Found
<1>5. CASE stage \in 1..3
  <2>1. stage' = stage + 1 /\ started' = started
    BY <1>1, <1>5
  <2>2. /\ stage = 1 => NothingRevoked
        /\ stage = 2 => NothingExpired
        /\ stage = 3 => NothingLeft
    BY <1>1, NothingMatches DEF IInv
  <2>3. /\ stage' > 1 => NothingRevoked
        /\ stage' > 2 => NothingExpired
        /\ stage' > 3 => NothingLeft
    BY <1>5, <2>1, <2>2 DEF IInv, Found
  <2>4. Found'
    BY <1>2, <2>1, <2>3 DEF Found, NothingRevoked, NothingExpired, NothingLeft, Paired, Row,
                            RefreshExpireAt
  <2>5. QED
    BY <1>1, <1>3, <2>4, ReaderKeeps
<1>6. QED
  BY <1>1, <1>4, <1>5

LEMMA DeleteBatchStep == ASSUME IInv, DeleteBatch, UNCHANGED browser PROVE IInv'
<1>1. batch' = {} /\ UNCHANGED <<stage, started, now>>
  BY DEF DeleteBatch
<1>2. Effects
  BY DeleteBatchEffects DEF IInv
<1>3. Tables' /\ NoOrphanBearer' /\ Requests'
  BY <1>2, EffectsKeepTables, OrphansKept, RequestsKept DEF IInv
<1>4. CleanerReads'
  BY <1>1 DEF IInv, CleanerReads
<1>5. /\ stage > 1 => NothingRevoked'
      /\ stage > 2 => NothingExpired'
      /\ stage > 3 => NothingLeft'
  BY <1>1, <1>2, NothingStays DEF IInv, Found
<1>6. Found'
  BY <1>1, <1>5 DEF Found
<1>7. QED
  BY <1>3, <1>4, <1>6 DEF IInv

LEMMA InvNext == IInv /\ [Next]_vars => IInv'
<1> SUFFICES ASSUME IInv, [Next]_vars PROVE IInv'
  OBVIOUS
<1>1. CASE TokenEndpoint /\ UNCHANGED <<cleaner, browser>>
  <2>1. Effects
    BY <1>1, TokenEndpointEffects DEF IInv
  <2>2. QED
    BY <1>1, <2>1, OthersKeep, RequestsKept DEF IInv
<1>2. CASE Tick /\ UNCHANGED <<cleaner, browser>>
  <2>1. Effects
    BY <1>2, TickEffects DEF IInv
  <2>2. QED
    BY <1>2, <2>1, OthersKeep, RequestsKept DEF IInv
<1>3. CASE StartCleaning /\ UNCHANGED browser
  BY <1>3, StartCleaningStep
<1>4. CASE Clean /\ UNCHANGED browser
  BY <1>4, ReadBatchStep, DeleteBatchStep, NextQueryStep DEF Clean
<1>5. CASE Browser /\ UNCHANGED cleaner
  <2>1. Effects
    BY <1>5, BrowserEffects DEF IInv
  <2>2. QED
    BY <1>5, <2>1, OthersKeep, BrowserStep DEF IInv
<1>6. CASE UNCHANGED vars
  <2>1. UNCHANGED tables /\ UNCHANGED cleaner /\ UNCHANGED browser
    BY <1>6 DEF vars
  <2>2. Effects
    BY <2>1, TablesQuiet DEF IInv
  <2>3. QED
    BY <2>1, <2>2, OthersKeep, RequestsKept DEF IInv
<1>7. QED
  BY <1>1, <1>2, <1>3, <1>4, <1>5, <1>6 DEF Next

(* The invariant of the tables, the cleaner and the logout requests.       *)
THEOREM Invariant == Spec => []IInv
BY InvInit, InvNext, PTL DEF Spec

-----------------------------------------------------------------------------
(* The foreign keys hold, whatever order rows are made, renewed, revoked,  *)
(* cleared and deleted in (on_delete, _save_bearer_token, clear_expired,   *)
(* do_logout).                                                             *)
THEOREM SessionTypes == Spec => []TypeOK
<1>1. IInv => TypeOK
  <2> SUFFICES ASSUME IInv PROVE TypeOK
    OBVIOUS
  <2>1. now \in 0..MaxTime /\ stage \in 0..4 /\ started \in 0..now /\ batch \subseteq Keys
    BY DEF IInv, Tables, RowTypes, CleanerReads
  <2>2. \A k \in Keys :
          /\ Row(rt, k) /\ rt[k].access # NULL =>
               Row(at, rt[k].access) /\ at[rt[k].access].account = rt[k].account
          /\ Linked(k) => Row(idt, k) /\ idt[k].user = at[k].account.user
    BY DEF IInv, Tables, ForeignKeys
  <2>3. \A b \in Tabs : tab[b].pc \in {"idle", "form", "refresh", "access", "delete"}
    BY DEF IInv, Requests, Request
  <2>4. QED
    BY <2>1, <2>2, <2>3 DEF TypeOK
<1>2. QED
  BY Invariant, <1>1, PTL

(* With rotation on, no usable access token outlives the refresh token it  *)
(* came with (AbstractRefreshToken.revoke, clear_expired, do_logout).      *)
THEOREM NoOrphanBearerAlways == Spec => []NoOrphanBearer
BY Invariant, PTL DEF IInv

(* What a query of clear_expired has cleared stays clear until the command *)
(* ends.                                                                   *)
THEOREM StagesCompleteAlways == Spec => []StagesComplete
<1>1. IInv => StagesComplete
  BY FoundMeans DEF IInv
<1>2. QED
  BY Invariant, <1>1, PTL

(* A logout that has gone through a list has left no access token of it,   *)
(* and one that has gone through both none of the pairs its user had when  *)
(* do_logout began.                                                        *)
THEOREM LogoutRevokesWhatItSawAlways == Spec => []LogoutRevokesWhatItSaw
<1>1. IInv => LogoutRevokesWhatItSaw
  BY DEF IInv, Requests, Debt, Listed, LogoutRevokesWhatItSaw
<1>2. QED
  BY Invariant, <1>1, PTL

(* With rotation on, clear_expired takes away no live refresh token whose  *)
(* time is not over, even by keys it read before the token was used.       *)
THEOREM CleanerSparesSessionsAlways == Spec => CleanerSparesSessions
<1> DEFINE Spares ==
      rotate /\ batch # {} /\ batch' = {} =>
        \A k \in Keys : Live(k) /\ rt'[k] = Gone /\ rt[k].access # NULL =>
          at[rt[k].access].expires < now - RefreshExpiry
<1>1. IInv /\ [Next]_vars => [Spares]_vars
  <2> SUFFICES ASSUME IInv, Next, rotate, batch # {}, batch' = {},
                      NEW k \in Keys, Live(k), rt'[k] = Gone, rt[k].access # NULL
               PROVE  at[rt[k].access].expires < now - RefreshExpiry
    OBVIOUS
  <2>1. DeleteBatch
    BY DEF Next, StartCleaning, Clean, ReadBatch, NextQuery, cleaner
  <2>2. Effects
    BY <2>1, DeleteBatchEffects DEF IInv
  <2>3. rt[k] \in RefreshRows /\ rt[k].access = k /\ Row(at, k) /\ at[k] # Unused
    BY RowOf DEF IInv, Tables, RowTypes, ForeignKeys, Live, Row
  <2>4. rt[k] # Gone /\ Gone \notin RefreshRows
    BY TagsAssumption DEF Live, Row
  <2>5. Detached(k, rt[k].revoked) # Gone /\ Detached(k, now) # Gone
    BY <2>4, DetachedType DEF IInv, Tables, Live
  <2>6. stage \in {1, 2} /\ k \in batch
    BY <2>2, <2>3, <2>4, <2>5 DEF Effects, RefreshEffect
  <2>7. at[k].expires < RefreshExpireAt
    BY <2>3, <2>6 DEF IInv, CleanerReads
  <2>8. at[k].expires \in Nat
    BY <2>3, RowOf DEF IInv, Tables, RowTypes, AccessRows
  <2>9. QED
    BY <2>3, <2>7, <2>8, Times, BatchAssumption DEF IInv, RefreshExpireAt
<1>2. QED
  BY Invariant, <1>1, PTL DEF Spec, CleanerSparesSessions

-----------------------------------------------------------------------------
(* The progress of the command.                                            *)
LEMMA BacklogOf ==
  /\ stage = 1 => Backlog = RevokedRefresh(RefreshExpireAt)
  /\ stage = 2 => Backlog = ExpiredRefresh(RefreshExpireAt)
  /\ stage = 3 => Backlog = ExpiredAccess(started)
  /\ stage = 4 => Backlog = {k \in Keys : Row(idt, k) /\ idt[k].expires < started}
  BY DEF Backlog, Matching

LEMMA BacklogOfNext ==
  /\ stage' = 1 => Backlog' = RevokedRefresh(RefreshExpireAt)'
  /\ stage' = 2 => Backlog' = ExpiredRefresh(RefreshExpireAt)'
  /\ stage' = 3 => Backlog' = ExpiredAccess(started)'
  /\ stage' = 4 => Backlog' = {k \in Keys : Row(idt', k) /\ idt'[k].expires < started'}
  BY DEF Backlog, Matching, Row

(* A stamp, a new access token and a new ID token are of now, which is not *)
(* before any of the limits: no step adds a row to a query's.              *)
LEMMA RevokedShrinks ==
  ASSUME Tables, Effects, CleanerReads, started' = started
  PROVE  RevokedRefresh(RefreshExpireAt)' \subseteq RevokedRefresh(RefreshExpireAt)
<1> SUFFICES ASSUME NEW k \in Keys, Row(rt', k), rt'[k].revoked # NULL,
                    rt'[k].revoked < RefreshExpireAt
             PROVE  Row(rt, k) /\ rt'[k].revoked = rt[k].revoked
  BY DEF RevokedRefresh, Row, RefreshExpireAt
<1>1. RefreshEffect(k) /\ rt'[k] # Gone
  BY DEF Effects, Row
<1>2. Row(rt', k) => rt'[k] \in RefreshRows
  BY RowOfNext DEF Effects
<1>3. /\ Detached(k, rt[k].revoked).revoked = rt[k].revoked
      /\ Detached(k, now).revoked = now
  BY DEF Detached
<1>4. rt'[k] # Detached(k, now)
  BY <1>3, Times
<1>5. rt'[k] # [account |-> at'[k].account, access |-> k, revoked |-> NULL]
  OBVIOUS
<1>6. rt'[k] = rt[k] \/ (Row(rt, k) /\ rt'[k] = Detached(k, rt[k].revoked))
  BY <1>1, <1>4, <1>5 DEF RefreshEffect
<1>7. QED
  BY <1>3, <1>6 DEF Row

(* An access token that is not new and not renewed was there before.       *)
LEMMA OldAccess ==
  ASSUME Tables, Effects, CleanerReads, NEW k \in Keys, Row(at', k),
         ~(at'[k].expires >= now)
  PROVE  at'[k] = at[k] /\ Row(at, k)
<1>1. AccessEffect(k) /\ at'[k] # Gone /\ at'[k] # Unused
  BY DEF Effects, Row
<1>2. at'[k] = at[k]
  BY <1>1 DEF AccessEffect
<1>3. QED
  BY <1>1, <1>2 DEF Row

LEMMA ExpiredShrinks ==
  ASSUME Tables, Effects, CleanerReads, started' = started
  PROVE  ExpiredRefresh(RefreshExpireAt)' \subseteq ExpiredRefresh(RefreshExpireAt)
<1> SUFFICES ASSUME NEW k \in Keys, Row(rt', k), rt'[k].access # NULL,
                    at'[rt'[k].access].expires < RefreshExpireAt
             PROVE  /\ Row(rt, k) /\ rt'[k].access = rt[k].access
                    /\ at'[rt'[k].access] = at[rt[k].access]
  BY DEF ExpiredRefresh, Row, RefreshExpireAt
<1>1. Tables'
  BY EffectsKeepTables
<1>2. rt'[k].access = k /\ Row(at', k)
  BY <1>1 DEF Tables, ForeignKeys, Row
<1>3. at'[k] \in AccessRows /\ at'[k].expires \in Nat
  BY <1>2, RowOfNext DEF Effects, AccessRows
<1>4. at'[k] = at[k] /\ Row(at, k)
  BY <1>2, <1>3, OldAccess, Times
<1>5. RefreshEffect(k) /\ rt'[k] # Gone /\ at[k] # Unused
  BY <1>4 DEF Effects, Row
<1>6. Detached(k, rt[k].revoked).access = NULL /\ Detached(k, now).access = NULL
  BY DEF Detached
<1>7. rt'[k] = rt[k]
  BY <1>5, <1>6 DEF RefreshEffect
<1>8. QED
  BY <1>2, <1>4, <1>7 DEF Row

LEMMA UnpairedShrinks ==
  ASSUME Tables, Effects, CleanerReads, started' = started, stage = 3
  PROVE  ExpiredAccess(started)' \subseteq ExpiredAccess(started)
<1> SUFFICES ASSUME NEW k \in Keys, Row(at', k), ~Paired(k)', at'[k].expires < started
             PROVE  Row(at, k) /\ ~Paired(k) /\ at'[k] = at[k]
  BY DEF ExpiredAccess, Row
<1>1. at'[k] \in AccessRows /\ at'[k].expires \in Nat
  BY RowOfNext DEF Effects, AccessRows
<1>2. at'[k] = at[k] /\ Row(at, k)
  BY <1>1, OldAccess, Times
<1>3. ~Paired(k)
  <2> SUFFICES ASSUME NEW r \in Keys, Row(rt, r), rt[r].access = k PROVE FALSE
    BY DEF Paired
  <2>1. r = k
    BY TagsAssumption DEF Tables, ForeignKeys
  <2>2. at'[k] # Gone /\ at[k] # Unused
    BY <1>2 DEF Row
  <2>3. rt'[k] = rt[k]
    BY <2>1, <2>2 DEF Effects, RefreshEffect
  <2>4. Row(rt', k) /\ rt'[k].access = k
    BY <2>1, <2>3 DEF Row
  <2>5. QED
    BY <2>4 DEF Paired, Row
<1>4. QED
  BY <1>2, <1>3

LEMMA IdsShrink ==
  ASSUME Tables, Effects, CleanerReads, NEW k \in Keys, Row(idt', k), idt'[k].expires < started
  PROVE  idt'[k] = idt[k] /\ Row(idt, k)
<1>1. IdEffect(k) /\ idt'[k] # Gone
  BY DEF Effects, Row
<1>2. idt'[k] \in IdRows /\ idt'[k].expires \in Nat
  BY RowOfNext DEF Effects, IdRows
<1>3. idt'[k] = idt[k]
  BY <1>1, <1>2, Times DEF IdEffect
<1>4. QED
  BY <1>3 DEF Row

LEMMA BacklogShrinks ==
  ASSUME Tables, Effects, CleanerReads, stage' = stage, started' = started, stage # 0
  PROVE  Backlog' \subseteq Backlog
<1>1. stage \in 1..4
  BY DEF CleanerReads
<1>2. CASE stage = 1
  BY <1>2, BacklogOf, BacklogOfNext, RevokedShrinks
<1>3. CASE stage = 2
  BY <1>3, BacklogOf, BacklogOfNext, ExpiredShrinks
<1>4. CASE stage = 3
  BY <1>4, BacklogOf, BacklogOfNext, UnpairedShrinks
<1>5. CASE stage = 4
  <2>1. \A k \in Keys : Row(idt', k) /\ idt'[k].expires < started =>
          Row(idt, k) /\ idt[k].expires < started
    BY IdsShrink
  <2>2. QED
    BY <1>5, <2>1, BacklogOf, BacklogOfNext
<1>6. QED
  BY <1>1, <1>2, <1>3, <1>4, <1>5

LEMMA BatchOfBacklog ==
  ASSUME CleanerReads, ReadBatch PROVE batch' \subseteq Backlog
<1>1. stage \in 1..4 /\ batch' \in SUBSET Matching(stage)
  BY DEF ReadBatch, Slice, kSubset, CleanerReads
<1>2. stage = 4 => Matching(stage) \subseteq Backlog
  BY BacklogOf DEF Matching, ExpiredId
<1>3. stage \in 1..3 => Matching(stage) = Backlog
  BY DEF Backlog
<1>4. QED
  BY <1>1, <1>2, <1>3

LEMMA BatchDeleted ==
  ASSUME CleanerReads, DeleteBatch PROVE batch \intersect Backlog' = {}
<1>1. stage \in 1..4 /\ stage' = stage /\ batch \subseteq Keys
  BY DEF DeleteBatch, CleanerReads
<1> SUFFICES ASSUME NEW k \in batch PROVE k \notin Backlog'
  OBVIOUS
<1>2. \A table : Remove(table, batch)[k] = Gone
  BY <1>1 DEF Remove
<1>3. CASE stage \in {1, 2}
  <2>1. rt' = Remove(rt, batch)
    <3>1. (stage \in {1, 2}) = TRUE /\ (stage = 3) = FALSE /\ (stage = 4) = FALSE
      BY <1>3
    <3>2. QED
      BY <3>1, Zenon DEF DeleteBatch
  <2>2. ~Row(rt', k)
    BY <1>2, <2>1 DEF Row
  <2>3. QED
    BY <1>1, <1>3, <2>2, BacklogOfNext DEF RevokedRefresh, ExpiredRefresh, Row
<1>4. CASE stage = 3
  <2>1. at' = Remove(at, batch)
    BY <1>4 DEF DeleteBatch
  <2>2. ~Row(at', k)
    BY <1>2, <2>1 DEF Row
  <2>3. QED
    BY <1>1, <1>4, <2>2, BacklogOfNext DEF ExpiredAccess, Row
<1>5. CASE stage = 4
  <2>1. idt' = Remove(idt, batch)
    BY <1>5 DEF DeleteBatch
  <2>2. ~Row(idt', k)
    BY <1>2, <2>1 DEF Row
  <2>3. QED
    BY <1>1, <1>5, <2>2, BacklogOfNext
<1>6. QED
  BY <1>1, <1>3, <1>4, <1>5

(* Every step does to the rows what Effects allows.                        *)
LEMMA NextEffects ==
  ASSUME IInv, [Next]_vars
  PROVE  /\ Effects
         /\ UNCHANGED cleaner \/ StartCleaning \/ Clean
<1>1. CASE TokenEndpoint /\ UNCHANGED <<cleaner, browser>>
  BY <1>1, TokenEndpointEffects DEF IInv
<1>2. CASE Tick /\ UNCHANGED <<cleaner, browser>>
  BY <1>2, TickEffects DEF IInv
<1>3. CASE StartCleaning /\ UNCHANGED browser
  BY <1>3, TablesQuiet DEF IInv, StartCleaning
<1>4. CASE Clean /\ UNCHANGED browser
  <2>1. CASE ReadBatch \/ NextQuery
    BY <2>1, TablesQuiet DEF IInv, ReadBatch, NextQuery, Clean
  <2>2. CASE DeleteBatch
    BY <2>2, DeleteBatchEffects DEF IInv, Clean
  <2>3. QED
    BY <1>4, <2>1, <2>2 DEF Clean
<1>5. CASE Browser /\ UNCHANGED cleaner
  BY <1>5, BrowserEffects DEF IInv
<1>6. CASE UNCHANGED vars
  BY <1>6, TablesQuiet DEF IInv, vars
<1>7. QED
  BY <1>1, <1>2, <1>3, <1>4, <1>5, <1>6 DEF Next

(* While a query of clear_expired is at work nothing joins its rows, a     *)
(* batch is taken from them and is gone once it is deleted: so it needs    *)
(* no more batches than it had rows, whatever the other parties do, for    *)
(* any batch size and any number of rows.                                  *)
THEOREM CleaningProgressesAlways == Spec => CleaningProgresses
<1> DEFINE Progress ==
      /\ stage # 0 /\ stage' = stage => Backlog' \subseteq Backlog
      /\ batch = {} /\ batch' # {} => batch' \subseteq Backlog
      /\ batch # {} /\ batch' = {} => batch \intersect Backlog' = {}
<1>1. IInv /\ [Next]_vars => Progress
  <2> SUFFICES ASSUME IInv, [Next]_vars PROVE Progress
    OBVIOUS
  <2>1. Tables /\ CleanerReads /\ Effects
    BY NextEffects DEF IInv
  <2>2. CASE UNCHANGED cleaner
    <3>1. UNCHANGED <<stage, started, batch>>
      BY <2>2 DEF cleaner
    <3>2. QED
      BY <2>1, <3>1, BacklogShrinks
  <2>3. CASE StartCleaning
    BY <2>3 DEF StartCleaning
  <2>4. CASE ReadBatch
    <3>1. UNCHANGED <<stage, started>> /\ batch = {}
      BY <2>4 DEF ReadBatch
    <3>2. QED
      BY <2>1, <2>4, <3>1, BacklogShrinks, BatchOfBacklog
  <2>5. CASE DeleteBatch
    <3>1. UNCHANGED <<stage, started>> /\ batch' = {}
      BY <2>5 DEF DeleteBatch
    <3>2. QED
      BY <2>1, <2>5, <3>1, BacklogShrinks, BatchDeleted
  <2>6. CASE NextQuery
    <3>1. stage \in 1..4 /\ stage' = (stage + 1) % 5 /\ UNCHANGED batch
      BY <2>1, <2>6 DEF NextQuery, CleanerReads
    <3>2. stage' # stage
      BY <3>1
    <3>3. QED
      BY <3>1, <3>2
  <2>7. QED
    BY <2>2, <2>3, <2>4, <2>5, <2>6, NextEffects DEF Clean
<1>2. QED
  BY Invariant, <1>1, PTL DEF Spec, CleaningProgresses
=============================================================================
