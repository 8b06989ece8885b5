------------------------------- MODULE Logout -------------------------------
(***************************************************************************)
(* RP-initiated logout (RPInitiatedLogoutView): a GET with or without an   *)
(* id_token_hint, the form that asks the user when it must, and do_logout, *)
(* which reads the refresh tokens, then reads the access tokens, deletes   *)
(* these one by one with their ID tokens, revokes the former one by one    *)
(* and ends the session.  No transaction spans two of these steps.         *)
(***************************************************************************)
EXTENDS TokenTables

CONSTANTS
  Users,
  Tabs,           \* requests of one browser
  Deletable,      \* applications of token_deletion_client_types and _grant_types
  AlwaysPrompt,   \* OIDC_RP_INITIATED_LOGOUT_ALWAYS_PROMPT
  AcceptExpired   \* OIDC_RP_INITIATED_LOGOUT_ACCEPT_EXPIRED_TOKENS

VARIABLES
  tab,   \* the logout request of each tab; listed is history: the access
         \* tokens it read, whatever it has deleted since
  owed   \* history: the pairs each tab's user had when do_logout began

browser == <<tab, owed>>

NoRequest == [pc |-> "idle", hint |-> NULL, user |-> NULL,
              refresh |-> {}, access |-> {}, idTokens |-> {}, listed |-> {}]

InitBrowser ==
  /\ tab = [b \in Tabs |-> NoRequest]
  /\ owed = [b \in Tabs |-> {}]

(* validate_logout_request_user accepts the hint (or there is none).       *)
HintAccepted(hint) ==
  hint # NULL => Row(idt, hint) /\ (AcceptExpired \/ Loads(hint))

HintUser(hint) == IF hint = NULL THEN NULL ELSE idt[hint].user

(* login is the user the request's session belongs to, or NULL.  Sessions  *)
(* are Django's: that of the POST need not be that of the GET.             *)
MustPrompt(tokenUser, login) ==
  login # NULL /\ (AlwaysPrompt \/ tokenUser = NULL \/ tokenUser # login)

(* do_logout begins: the user is the hint's, or else the session's.  An    *)
(* anonymous one has no tokens to delete.                                  *)
Begin(b, hint, login) ==
  LET user == IF hint = NULL THEN login ELSE HintUser(hint)
  IN  tab' = [tab EXCEPT ![b] = IF user = NULL THEN NoRequest
                                ELSE [NoRequest EXCEPT !.pc = "refresh", !.user = user]]

Get(b, hint, login) ==
  /\ tab[b].pc = "idle"
  /\ HintAccepted(hint)
  /\ IF MustPrompt(HintUser(hint), login)
     THEN tab' = [tab EXCEPT ![b] = [@ EXCEPT !.pc = "form", !.hint = hint]]
     ELSE Begin(b, hint, login)
  /\ UNCHANGED <<owed, tables>>

Post(b, allow, login) ==
  /\ tab[b].pc = "form"
  /\ LET hint == tab[b].hint
     IN  IF HintAccepted(hint) /\ (allow \/ ~MustPrompt(HintUser(hint), login))
         THEN Begin(b, hint, login)
         ELSE tab' = [tab EXCEPT ![b] = NoRequest]
  /\ UNCHANGED <<owed, tables>>

-----------------------------------------------------------------------------
AccessTokensToDelete(b) ==
  {k \in Keys : Row(at, k) /\ at[k].account.user = tab[b].user /\ at[k].account.app \in Deletable}

FaultyRefreshTokensToDelete(b) == {}  \* evaluated once the access tokens are gone
RefreshTokensToDelete(b) ==
  {k \in Keys : Row(rt, k) /\ rt[k].access \in AccessTokensToDelete(b)}

ListRefresh(b) ==
  /\ tab[b].pc = "refresh"
  /\ tab' = [tab EXCEPT ![b] = [@ EXCEPT !.pc = "access", !.refresh = RefreshTokensToDelete(b)]]
  /\ owed' = [owed EXCEPT ![b] = {k \in Keys : Live(k) /\ rt[k].access \in AccessTokensToDelete(b)}]
  /\ UNCHANGED tables

ListAccess(b) ==
  /\ tab[b].pc = "access"
  /\ tab' = [tab EXCEPT ![b] =
               [@ EXCEPT !.pc = "delete", !.access = AccessTokensToDelete(b),
                         !.listed = AccessTokensToDelete(b),
                         !.idTokens = {k \in AccessTokensToDelete(b) : at[k].idToken}]]
  /\ UNCHANGED <<owed, tables>>

(* token.id_token is fetched now: a row that is gone raises DoesNotExist   *)
(* and the request ends with a server error.                               *)
DeleteAccess(b, k) ==
  /\ tab[b].pc = "delete"
  /\ k \in tab[b].access
  /\ IF k \in tab[b].idTokens /\ ~Row(idt, k)
     THEN /\ tab' = [tab EXCEPT ![b] = NoRequest]
          /\ owed' = [owed EXCEPT ![b] = {}]
          /\ UNCHANGED tables
     ELSE /\ tab' = [tab EXCEPT ![b] = [@ EXCEPT !.access = tab[b].access \ {k}]]
          /\ idt' = IF k \in tab[b].idTokens THEN Remove(idt, {k}) ELSE idt
          /\ at' = Remove(at, {k})
          /\ rt' = Unpair(rt, {k})
          /\ UNCHANGED <<now, rotate, owed>>

RevokeListed(b, k) ==
  /\ tab[b].pc = "delete"
  /\ tab[b].access = {}
  /\ k \in tab[b].refresh
  /\ tab' = [tab EXCEPT ![b] = [@ EXCEPT !.refresh = tab[b].refresh \ {k}]]
  /\ IF Live(k) THEN rt' = Revoked(k) /\ at' = WithoutAccess(k) /\ UNCHANGED <<now, rotate, idt>>
                ELSE UNCHANGED tables
  /\ UNCHANGED owed

(* logout(request) ends the session.                                       *)
EndSession(b) ==
  /\ tab[b].pc = "delete"
  /\ tab[b].access = {}
  /\ tab[b].refresh = {}
  /\ tab' = [tab EXCEPT ![b] = NoRequest]
  /\ owed' = [owed EXCEPT ![b] = {}]
  /\ UNCHANGED tables

Browser ==
  \E b \in Tabs :
    \/ \E login \in Users \union {NULL} :
         \/ \E hint \in Keys \union {NULL} : Get(b, hint, login)
         \/ \E allow \in BOOLEAN : Post(b, allow, login)
    \/ ListRefresh(b)
    \/ ListAccess(b)
    \/ \E k \in Keys : DeleteAccess(b, k) \/ RevokeListed(b, k)
    \/ EndSession(b)
=============================================================================
