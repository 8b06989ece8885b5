----------------------------- MODULE SessionEnd -----------------------------
(***************************************************************************)
(* The end of a session, when several parties take it apart at once: the   *)
(* token endpoint, clear_expired and RP-initiated logout on the same       *)
(* tables.                                                                 *)
(***************************************************************************)
EXTENDS ClearExpired, Logout

vars == <<tables, cleaner, browser>>

Init == InitTables /\ InitCleaner /\ InitBrowser

Next ==
  \/ TokenEndpoint /\ UNCHANGED <<cleaner, browser>>
  \/ Tick /\ UNCHANGED <<cleaner, browser>>
  \/ StartCleaning /\ UNCHANGED browser
  \/ Clean /\ UNCHANGED browser
  \/ Browser /\ UNCHANGED cleaner

(* cron runs the command to its end; nobody else need ever move.           *)
Fairness == WF_vars(Clean /\ UNCHANGED browser)

Spec == Init /\ [][Next]_vars /\ Fairness

-----------------------------------------------------------------------------
(* The foreign keys hold: a refresh token's access token exists and names  *)
(* the same account, an access token's ID token exists and is its user's.  *)
TypeOK ==
  /\ now \in 0..MaxTime
  /\ stage \in 0..4 /\ started \in 0..now /\ batch \subseteq Keys
  /\ \A k \in Keys :
       /\ Row(rt, k) /\ rt[k].access # NULL =>
            Row(at, rt[k].access) /\ at[rt[k].access].account = rt[k].account
       /\ Linked(k) => Row(idt, k) /\ idt[k].user = at[k].account.user
  /\ \A b \in Tabs :
       tab[b].pc \in {"idle", "form", "refresh", "access", "delete"}

(* With rotation on, an access token that came with a refresh token never  *)
(* outlives it: revocation, rotation, logout and clean-up, in whatever     *)
(* order their queries fall, leave none that still opens views and that    *)
(* revoking its refresh token could not reach any more.                    *)
NoOrphanBearer ==
  rotate => \A k \in Keys :
    Row(at, k) /\ at[k].refreshable /\ now < at[k].expires => Live(k) /\ rt[k].access = k

(* With rotation on, clear_expired takes no live refresh token away before *)
(* its lifetime, counted from its access token's expiry, is over, even by  *)
(* keys it read before somebody used the token.                            *)
CleanerSparesSessions ==
  [][rotate /\ batch # {} /\ batch' = {} =>
       \A k \in Keys : Live(k) /\ rt'[k] = Gone /\ rt[k].access # NULL =>
         at[rt[k].access].expires < now - RefreshExpiry]_vars

(* What a query has cleared stays clear until the command ends: the later  *)
(* queries and the other parties leave nothing behind that it matches.     *)
StagesComplete ==
  stage # 0 => \A query \in 1 .. stage - 1 : Matching(query) = {}

(* While a query is at work its rows only become fewer, whatever the token *)
(* endpoint and logout do: nothing joins them, a batch is taken from them, *)
(* and none of it is left once it is deleted.  For ID tokens the rows to   *)
(* count are the expired ones, as deleting an access token unlinks more.   *)
Backlog ==
  CASE stage \in 1..3 -> Matching(stage)
    [] stage = 4 -> {k \in Keys : Row(idt, k) /\ idt[k].expires < started}
    [] OTHER -> {}

CleaningProgresses ==
  [][/\ stage # 0 /\ stage' = stage => Backlog' \subseteq Backlog
     /\ batch = {} /\ batch' # {} => batch' \subseteq Backlog
     /\ batch # {} /\ batch' = {} => batch \intersect Backlog' = {}]_vars

(* However the tables change between two batches, the command ends.        *)
CleaningEnds == []<>(stage = 0)

(* When logout has gone through its lists, none of the pairs that its user *)
(* had when do_logout began is left, whoever else revoked, renewed or      *)
(* deleted in between, and none of the access tokens it found at its       *)
(* second read.  That of a rotation between the two reads is among these;  *)
(* the new refresh token of that rotation is on neither list and stays.    *)
LogoutRevokesWhatItSaw ==
  \A b \in Tabs : tab[b].pc = "delete" /\ tab[b].access = {} =>
    /\ \A k \in tab[b].listed : ~Row(at, k)
    /\ tab[b].refresh = {} => \A k \in owed[b] : ~Live(k) /\ ~Row(at, k)
=============================================================================
