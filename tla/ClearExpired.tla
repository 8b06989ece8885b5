---------------------------- MODULE ClearExpired ----------------------------
(***************************************************************************)
(* clear_expired (the command cleartokens): four queries, one after the    *)
(* other, whose rows are deleted batch by batch.  The keys of a batch are  *)
(* read first and deleted afterwards, whatever became of the rows.  The    *)
(* fifth query, on expired grants, touches none of these tables.           *)
(***************************************************************************)
EXTENDS TokenTables, FiniteSetsExt

CONSTANTS
  RefreshExpiry,  \* REFRESH_TOKEN_EXPIRE_SECONDS, set
  Batch           \* CLEAR_EXPIRED_TOKENS_BATCH_SIZE

ASSUME BatchAssumption == Batch \in Nat \ {0} /\ RefreshExpiry \in Nat

VARIABLES
  stage,   \* 0, not running; otherwise the number of the query
  started, \* timezone.now() when it began
  batch    \* keys read and not deleted yet

cleaner == <<stage, started, batch>>

InitCleaner == stage = 0 /\ started = 0 /\ batch = {}

RevokedRefresh(time) == {k \in Keys : Row(rt, k) /\ rt[k].revoked # NULL /\ rt[k].revoked < time}
ExpiredRefresh(time) ==
  {k \in Keys : Row(rt, k) /\ rt[k].access # NULL /\ at[rt[k].access].expires < time}
ExpiredAccess(time)  == {k \in Keys : Row(at, k) /\ ~Paired(k) /\ at[k].expires < time}
ExpiredId(time)      == {k \in Keys : Row(idt, k) /\ ~Linked(k) /\ idt[k].expires < time}

RefreshExpireAt == started - RefreshExpiry

FaultyMatching(query) == \* the clock is read again for every query
  CASE query = 1 -> RevokedRefresh(now - RefreshExpiry)
    [] query = 2 -> ExpiredRefresh(now - RefreshExpiry)
    [] query = 3 -> ExpiredAccess(now)
    [] query = 4 -> ExpiredId(now)
FaultyCutoff(query) == \* the lifetime of refresh tokens forgotten
  CASE query = 1 -> RevokedRefresh(started)
    [] query = 2 -> ExpiredRefresh(started)
    [] query = 3 -> ExpiredAccess(started)
    [] query = 4 -> ExpiredId(started)
Matching(query) ==
  CASE query = 1 -> RevokedRefresh(RefreshExpireAt)
    [] query = 2 -> ExpiredRefresh(RefreshExpireAt)
    [] query = 3 -> ExpiredAccess(started)
    [] query = 4 -> ExpiredId(started)

StartCleaning ==
  /\ stage = 0
  /\ stage' = 1
  /\ started' = now
  /\ UNCHANGED <<batch, tables>>

(* The slice [:CLEAR_EXPIRED_TOKENS_BATCH_SIZE] of an unordered query.     *)
FaultySlice(keys) == {{}}  \* a batch size of 0
Slice(keys) == kSubset(Min({Batch, Cardinality(keys)}), keys)

ReadBatch ==
  /\ stage # 0
  /\ batch = {}
  /\ Matching(stage) # {}
  /\ batch' \in Slice(Matching(stage))
  /\ UNCHANGED <<stage, started, tables>>

(* AccessToken.id_token cascades: what links to a deleted ID token by now.  *)
FaultyCascade(keys) == {}  \* the batch had no access token when it was read
Cascade(keys) == {k \in keys : Linked(k)}

DeleteBatch ==
  /\ batch # {}
  /\ batch' = {}
  /\ CASE stage \in {1, 2} -> rt' = Remove(rt, batch) /\ UNCHANGED <<at, idt>>
       [] stage = 3 -> at' = Remove(at, batch) /\ rt' = Unpair(rt, batch) /\ UNCHANGED idt
       [] stage = 4 -> LET linked == Cascade(batch)
                       IN  /\ idt' = Remove(idt, batch)
                           /\ at'  = Remove(at, linked)
                           /\ rt'  = Unpair(rt, linked)
  /\ UNCHANGED <<stage, started, now, rotate>>

NextQuery ==
  /\ stage # 0
  /\ batch = {}
  /\ Matching(stage) = {}
  /\ stage' = (stage + 1) % 5
  /\ started' = IF stage = 4 THEN 0 ELSE started
  /\ UNCHANGED <<batch, tables>>

Clean == ReadBatch \/ DeleteBatch \/ NextQuery
=============================================================================
