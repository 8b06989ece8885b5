----------------------------- MODULE DeviceFlow -----------------------------
(***************************************************************************)
(* The device authorization grant: a device obtains a device code and a    *)
(* user code, users enter the user code and accept or deny in a browser,   *)
(* and the device polls the token endpoint meanwhile.                      *)
(*                                                                         *)
(* No view opens a transaction: each reads the row of the device grant,    *)
(* decides on that copy and saves single columns of it, so every read and  *)
(* every save is an action and views overlap at will.  The client is left  *)
(* out: every request presents the one the device belongs to.              *)
(*                                                                         *)
(* Operators named Faulty are definitions with a plausible bug, which the  *)
(* specification does not use.                                             *)
(***************************************************************************)
EXTENDS Integers, FiniteSets

CONSTANTS
  Devices,   \* device codes; they are unique
  UserCodes, \* user codes; two devices may get the same
  Users,
  Browsers,  \* requests to the user-code form and the confirm form
  Pollers,   \* requests of devices to the token endpoint
  Lifetime,  \* expires_in of the device authorization response
  MaxTime,   \* bound: the clock stops here
  Null       \* SQL NULL

ASSUME DeviceAssumption ==
  /\ Lifetime \in Nat /\ MaxTime \in Nat
  /\ Null \notin Users \union Devices \union UserCodes

Time == 0 .. MaxTime

VARIABLES
  rows,    \* the devices that have a device grant
  grant,   \* its columns
  now,     \* datetime.now
  browser, \* the device grant each form request holds a copy of
  poller,  \* what each poll remembers
  tokens,  \* the token pairs that were issued
  entered  \* history: by device, the users whose form was accepted

vars  == <<rows, grant, now, browser, poller, tokens, entered>>
views == <<browser, poller>>

Status == {"authorization-pending", "authorized", "denied", "expired"}

Grant == [status : Status, user : Users \union {Null}, code : UserCodes \union {Null},
          expires : 0 .. MaxTime + Lifetime]

(* The copy a browser's request read: its user is request.user.            *)
Browser == [pc : {"idle", "clean", "link", "confirm"}, device : Devices \union {Null},
            user : Users \union {Null}, status : Status]

(* polled is history: when the poll came.                                  *)
Poller == [pc : {"idle", "user", "save"}, device : Devices \union {Null},
           user : Users \union {Null}, polled : Time]

Token == [device : Devices, user : Users, polled : Time]

NoGrant  == [status |-> "authorization-pending", user |-> Null, code |-> Null, expires |-> 0]
NoForm   == [pc |-> "idle", device |-> Null, user |-> Null, status |-> "authorization-pending"]
NoPoll   == [pc |-> "idle", device |-> Null, user |-> Null, polled |-> 0]

-----------------------------------------------------------------------------
Init ==
  /\ rows = {} /\ grant = [d \in Devices |-> NoGrant]
  /\ now = 0
  /\ browser = [b \in Browsers |-> NoForm]
  /\ poller = [p \in Pollers |-> NoPoll]
  /\ tokens = {}
  /\ entered = [d \in Devices |-> {}]

Tick ==
  /\ now < MaxTime
  /\ now' = now + 1
  /\ UNCHANGED <<rows, grant, views, tokens, entered>>

(* DeviceAuthorizationView and create_device_grant.  The user code is      *)
(* random and its column is not unique.                                    *)
CreateDeviceGrant(d, code) ==
  /\ d \notin rows
  /\ rows' = rows \union {d}
  /\ grant' = [grant EXCEPT ![d] = [status |-> "authorization-pending", user |-> Null,
                                    code |-> code, expires |-> now + Lifetime]]
  /\ UNCHANGED <<now, views, tokens, entered>>

CloseForm(b) == browser' = [browser EXCEPT ![b] = NoForm]

(* DeviceGrantForm.clean_user_code: .get raises if two rows have the code. *)
ReadUserCode(b, user, code) ==
  /\ browser[b].pc = "idle"
  /\ \E d \in rows :
       /\ {x \in rows : grant[x].code = code} = {d}
       /\ browser' = [browser EXCEPT ![b] = [pc |-> "clean", device |-> d, user |-> user,
                                             status |-> grant[d].status]]
  /\ UNCHANGED <<rows, grant, now, poller, tokens, entered>>

PastDeadline(d) == now >= grant[d].expires

(* is_expired, on the copy: it saves the status it computes from it.       *)
ExpireForm(b) ==
  LET f == browser[b] IN
  /\ f.pc = "clean"
  /\ PastDeadline(f.device) \/ f.status = "expired"
  /\ grant' = IF f.status = "expired" THEN grant
              ELSE [grant EXCEPT ![f.device].status = "expired"]
  /\ CloseForm(b)
  /\ UNCHANGED <<rows, now, poller, tokens, entered>>

(* The rest of clean_user_code.                                            *)
CleanUserCode(b) ==
  LET f == browser[b] IN
  /\ f.pc = "clean"
  /\ ~PastDeadline(f.device) /\ f.status # "expired"
  /\ \/ f.status = "authorization-pending" /\ browser' = [browser EXCEPT ![b].pc = "link"]
     \/ f.status # "authorization-pending" /\ CloseForm(b)
  /\ UNCHANGED <<rows, grant, now, poller, tokens, entered>>

(* DeviceUserCodeView.form_valid saves the user column alone.              *)
FaultyLinkUser(b) ==
  LET f == browser[b] IN
  /\ f.pc = "link"
  /\ grant' = [d \in Devices |-> IF grant[d].code = grant[f.device].code
                                  THEN [grant[d] EXCEPT !.user = f.user] ELSE grant[d]]
  /\ entered' = [entered EXCEPT ![f.device] = @ \union {f.user}]
  /\ CloseForm(b)
  /\ UNCHANGED <<rows, now, poller, tokens>>
FaultySaveWholeRow(b) ==  \* save() without update_fields
  LET f == browser[b] IN
  /\ f.pc = "link"
  /\ grant' = [grant EXCEPT ![f.device].user = f.user, ![f.device].status = f.status]
  /\ entered' = [entered EXCEPT ![f.device] = @ \union {f.user}]
  /\ CloseForm(b)
  /\ UNCHANGED <<rows, now, poller, tokens>>
LinkUser(b) ==
  LET f == browser[b] IN
  /\ f.pc = "link"
  /\ grant' = [grant EXCEPT ![f.device].user = f.user]
  /\ entered' = [entered EXCEPT ![f.device] = @ \union {f.user}]
  /\ CloseForm(b)
  /\ UNCHANGED <<rows, now, poller, tokens>>

(* DeviceConfirmView.get_object; more than one row raises.                 *)
FaultyConfirmable(code) == {d \in rows : grant[d].code = code}
Confirmable(code) ==
  {d \in rows : grant[d].code = code /\ grant[d].status = "authorization-pending"}

GetObject(b, code) ==
  /\ browser[b].pc = "idle"
  /\ \E d \in rows :
       /\ Confirmable(code) = {d}
       /\ browser' = [browser EXCEPT ![b] = [NoForm EXCEPT !.pc = "confirm", !.device = d]]
  /\ UNCHANGED <<rows, grant, now, poller, tokens, entered>>

(* DeviceConfirmView.form_valid saves the status column alone.             *)
Accept(b) ==
  LET f == browser[b] IN
  /\ f.pc = "confirm"
  /\ grant' = [grant EXCEPT ![f.device].status = "authorized"]
  /\ CloseForm(b)
  /\ UNCHANGED <<rows, now, poller, tokens, entered>>

Deny(b) ==
  LET f == browser[b] IN
  /\ f.pc = "confirm"
  /\ grant' = [grant EXCEPT ![f.device].status = "denied"]
  /\ CloseForm(b)
  /\ UNCHANGED <<rows, now, poller, tokens, entered>>

EndPoll(p) == poller' = [poller EXCEPT ![p] = NoPoll]

(* device_flow_token_response: the status alone decides whether the poll   *)
(* is answered with an error or goes on.                                   *)
MayPoll(d) == grant[d].status = "authorized"

Poll(p, d) ==
  /\ poller[p].pc = "idle"
  /\ d \in rows /\ MayPoll(d)
  /\ poller' = [poller EXCEPT ![p] = [pc |-> "user", device |-> d, user |-> Null,
                                      polled |-> now]]
  /\ UNCHANGED <<rows, grant, now, browser, tokens, entered>>

(* set_oauthlib_user_to_device_request_user reads the row again.           *)
FaultyReadUser(p) ==
  /\ poller[p].pc = "user"
  /\ poller' = [poller EXCEPT ![p].pc = "save"]
  /\ UNCHANGED <<rows, grant, now, browser, tokens, entered>>
ReadUser(p) ==
  /\ poller[p].pc = "user"
  /\ poller' = [poller EXCEPT ![p].pc = "save", ![p].user = grant[poller[p].device].user]
  /\ UNCHANGED <<rows, grant, now, browser, tokens, entered>>

(* save_bearer_token; a refresh token without a user violates NOT NULL and *)
(* the transaction rolls back.  The device grant stays as it is.           *)
FaultySaveBearerToken(p) ==
  LET q == poller[p] IN
  /\ q.pc = "save"
  /\ tokens' = tokens \union {[device |-> q.device, user |-> q.user, polled |-> q.polled]}
  /\ EndPoll(p)
  /\ UNCHANGED <<rows, grant, now, browser, entered>>
SaveBearerToken(p) ==
  LET q == poller[p] IN
  /\ q.pc = "save"
  /\ tokens' = IF q.user = Null THEN tokens
               ELSE tokens \union {[device |-> q.device, user |-> q.user, polled |-> q.polled]}
  /\ EndPoll(p)
  /\ UNCHANGED <<rows, grant, now, browser, entered>>

Browse(b) ==
  \/ \E user \in Users, code \in UserCodes : ReadUserCode(b, user, code)
  \/ ExpireForm(b) \/ CleanUserCode(b) \/ LinkUser(b)
  \/ \E code \in UserCodes : GetObject(b, code)
  \/ Accept(b) \/ Deny(b)

Next ==
  \/ Tick
  \/ \E d \in Devices, code \in UserCodes : CreateDeviceGrant(d, code)
  \/ \E b \in Browsers : Browse(b)
  \/ \E p \in Pollers : (\E d \in Devices : Poll(p, d)) \/ ReadUser(p) \/ SaveBearerToken(p)

(* A device polls until it has its answer, and a poll runs to its end; no  *)
(* browser has to do anything.                                             *)
Fairness ==
  /\ \A d \in Devices : SF_vars(\E p \in Pollers : Poll(p, d))
  /\ \A p \in Pollers : WF_vars(ReadUser(p)) /\ WF_vars(SaveBearerToken(p))

Spec == Init /\ [][Next]_vars
FairSpec == Spec /\ Fairness

-----------------------------------------------------------------------------
TypeOK ==
  /\ rows \subseteq Devices
  /\ grant \in [Devices -> Grant]
  /\ now \in Time
  /\ browser \in [Browsers -> Browser]
  /\ poller \in [Pollers -> Poller]
  /\ tokens \subseteq Token
  /\ entered \in [Devices -> SUBSET Users]

(* Tokens belong to a user who entered the code of that device in time and *)
(* before it was decided, whoever else races through the forms.            *)
TokenUserEnteredCode == \A t \in tokens : t.user \in entered[t.device]

TokensOf(d) == {t \in tokens : t.device = d}

(* A grant is closed when it is denied or expired, no confirm form that    *)
(* saw it pending has still to be saved, and no poll that saw it           *)
(* authorized is under way.                                                *)
Closed(d) ==
  /\ d \in rows
  /\ grant[d].status \in {"denied", "expired"}
  /\ \A b \in Browsers : browser[b].device = d => browser[b].pc # "confirm"
  /\ \A p \in Pollers : poller[p].device # d

(* A closed grant is never reopened, by a stale copy of its row or a poll  *)
(* that should have been refused, and buys no tokens.                      *)
ClosedStaysClosed ==
  [][\A d \in Devices : Closed(d) => Closed(d)' /\ TokensOf(d)' = TokensOf(d)]_vars

(* Once a grant is decided, only the confirm forms that had read it before *)
(* may decide again, each of them once, and nobody joins them; apart from  *)
(* them a stale copy of the row may at most expire it, and only when its   *)
(* deadline has passed.                                                    *)
Deciding(d) == {b \in Browsers : browser[b].pc = "confirm" /\ browser[b].device = d}

DecisionStands ==
  [][\A d \in rows : grant[d].status # "authorization-pending" =>
       /\ Deciding(d)' \subseteq Deciding(d)
       /\ \/ grant'[d].status = grant[d].status
          \/ Deciding(d)' # Deciding(d)
          \/ grant'[d].status = "expired" /\ PastDeadline(d)]_vars

(* docs/tutorial/tutorial_06.rst: once the user approves, polling succeeds *)
(* (until the deadline has passed or a late form denies).  An approval is  *)
(* lost to nothing else, such as a stale copy that expires the row early.  *)
ApprovedIsServed ==
  \A d \in Devices :
    (d \in rows /\ grant[d].status = "authorized" /\ grant[d].user # Null) ~>
       (TokensOf(d) # {} \/ grant[d].status = "denied" \/ PastDeadline(d))

(* docs/tutorial/tutorial_06.rst: if the token has expired, the response   *)
(* is 400.                                                                 *)
NoTokensAfterDeadline == \A t \in tokens : t.polled < grant[t.device].expires
=============================================================================
