-------------------------- MODULE DeviceFlowProofs --------------------------
(***************************************************************************)
(* Machine-checked theorems about DeviceFlow, for every value of its       *)
(* constants that satisfies DeviceAssumption.                              *)
(***************************************************************************)
EXTENDS DeviceFlow, TLAPS

LEMMA NoFormType == NoForm \in Browser
  BY DEF NoForm, Browser, Status

LEMMA NoPollType == NoPoll \in Poller
  BY DeviceAssumption DEF NoPoll, Poller, Time

(* A request under way holds a device grant that exists, and a copy made   *)
(* for the user-code form belongs to a user.                               *)
Held ==
  /\ rows \subseteq Devices
  /\ \A b \in Browsers : browser[b].pc # "idle" => browser[b].device \in rows
  /\ \A b \in Browsers : browser[b].pc \in {"clean", "link"} => browser[b].user \in Users
  /\ \A p \in Pollers : poller[p].pc # "idle" => poller[p].device \in rows

(* What closing a form and ending a poll leave.                            *)
LEMMA CloseFormFacts ==
  ASSUME TypeOK, NEW b \in Browsers, CloseForm(b)
  PROVE  /\ browser' \in [Browsers -> Browser]
         /\ browser'[b] = NoForm
         /\ \A x \in Browsers \ {b} : browser'[x] = browser[x]
  BY NoFormType DEF TypeOK, CloseForm

LEMMA EndPollFacts ==
  ASSUME TypeOK, NEW p \in Pollers, EndPoll(p)
  PROVE  /\ poller' \in [Pollers -> Poller]
         /\ poller'[p] = NoPoll
         /\ \A x \in Pollers \ {p} : poller'[x] = poller[x]
  BY NoPollType DEF TypeOK, EndPoll

(* Saving one column of a device grant.                                    *)
LEMMA SaveStatusFacts ==
  ASSUME TypeOK, NEW d \in Devices, NEW status \in Status,
         grant' = [grant EXCEPT ![d].status = status]
  PROVE  /\ grant' \in [Devices -> Grant]
         /\ grant'[d].status = status
         /\ \A x \in Devices : grant'[x].user = grant[x].user
         /\ \A x \in Devices \ {d} : grant'[x] = grant[x]
<1>1. grant[d] \in Grant
  BY DEF TypeOK
<1>2. /\ [grant[d] EXCEPT !.status = status] \in Grant
      /\ [grant[d] EXCEPT !.status = status].status = status
      /\ [grant[d] EXCEPT !.status = status].user = grant[d].user
  BY <1>1 DEF Grant
<1>3. grant' = [grant EXCEPT ![d] = [grant[d] EXCEPT !.status = status]]
  BY DEF TypeOK
<1>4. QED
  BY <1>2, <1>3 DEF TypeOK

LEMMA SaveUserFacts ==
  ASSUME TypeOK, NEW d \in Devices, NEW user \in Users,
         grant' = [grant EXCEPT ![d].user = user]
  PROVE  /\ grant' \in [Devices -> Grant]
         /\ grant'[d].user = user
         /\ \A x \in Devices : grant'[x].status = grant[x].status
         /\ \A x \in Devices \ {d} : grant'[x] = grant[x]
<1>1. grant[d] \in Grant
  BY DEF TypeOK
<1>2. /\ [grant[d] EXCEPT !.user = user] \in Grant
      /\ [grant[d] EXCEPT !.user = user].user = user
      /\ [grant[d] EXCEPT !.user = user].status = grant[d].status
  BY <1>1 DEF Grant
<1>3. grant' = [grant EXCEPT ![d] = [grant[d] EXCEPT !.user = user]]
  BY DEF TypeOK
<1>4. QED
  BY <1>2, <1>3 DEF TypeOK

LEMMA TypeInit == Init => TypeOK /\ Held
<1> SUFFICES ASSUME Init PROVE TypeOK /\ Held
  OBVIOUS
<1>1. NoGrant \in Grant
  BY DeviceAssumption DEF NoGrant, Grant, Status
<1>2. QED
  BY <1>1, NoFormType, NoPollType, DeviceAssumption
     DEF Init, TypeOK, Held, Time, NoForm, NoPoll

(* One case of TypeStep and HeldStep: the browsers.                        *)
LEMMA BrowseType ==
  ASSUME TypeOK, Held, NEW b \in Browsers, Browse(b)
  PROVE  /\ browser' \in [Browsers -> Browser]
         /\ grant' \in [Devices -> Grant]
         /\ entered' \in [Devices -> SUBSET Users]
         /\ UNCHANGED <<rows, now, poller, tokens>>
<1>1. ASSUME NEW user \in Users, NEW code \in UserCodes, ReadUserCode(b, user, code)
      PROVE  browser' \in [Browsers -> Browser]
  <2>1. PICK d \in rows :
          browser' = [browser EXCEPT ![b] = [pc |-> "clean", device |-> d, user |-> user,
                                             status |-> grant[d].status]]
    BY <1>1 DEF ReadUserCode
  <2>2. d \in Devices /\ grant[d].status \in Status
    BY DEF TypeOK, Grant
  <2>3. [pc |-> "clean", device |-> d, user |-> user, status |-> grant[d].status] \in Browser
    BY <2>2 DEF Browser
  <2>4. QED
    BY <2>1, <2>3 DEF TypeOK
<1>2. ASSUME NEW code \in UserCodes, GetObject(b, code)
      PROVE  browser' \in [Browsers -> Browser]
  <2>1. PICK d \in rows :
          browser' = [browser EXCEPT ![b] = [NoForm EXCEPT !.pc = "confirm", !.device = d]]
    BY <1>2 DEF GetObject
  <2>2. [NoForm EXCEPT !.pc = "confirm", !.device = d] \in Browser
    BY DEF TypeOK, NoForm, Browser, Status
  <2>3. QED
    BY <2>1, <2>2 DEF TypeOK
<1>3. ASSUME browser[b].pc # "idle" PROVE browser[b].device \in Devices
  BY <1>3 DEF Held
<1>4. CASE ExpireForm(b)
  <2>1. browser' \in [Browsers -> Browser]
    BY <1>4, CloseFormFacts DEF ExpireForm
  <2>2. grant' \in [Devices -> Grant]
    BY <1>3, <1>4, SaveStatusFacts DEF ExpireForm, Status, TypeOK
  <2>3. QED
    BY <1>4, <2>1, <2>2 DEF ExpireForm, TypeOK
<1>5. CASE CleanUserCode(b)
  <2>1. browser[b] \in Browser
    BY DEF TypeOK
  <2>2. [browser[b] EXCEPT !.pc = "link"] \in Browser
    BY <2>1 DEF Browser
  <2>3. browser' = [browser EXCEPT ![b] = [browser[b] EXCEPT !.pc = "link"]] \/ CloseForm(b)
    BY <1>5 DEF CleanUserCode, TypeOK
  <2>4. browser' \in [Browsers -> Browser]
    BY <2>2, <2>3, CloseFormFacts DEF TypeOK
  <2>5. QED
    BY <1>5, <2>4 DEF CleanUserCode, TypeOK
<1>6. CASE LinkUser(b)
  <2>1. browser[b].device \in Devices /\ browser[b].user \in Users
    BY <1>3, <1>6 DEF LinkUser, Held
  <2>2. browser' \in [Browsers -> Browser]
    BY <1>6, CloseFormFacts DEF LinkUser
  <2>3. grant' \in [Devices -> Grant]
    BY <1>6, <2>1, SaveUserFacts DEF LinkUser
  <2>4. entered' \in [Devices -> SUBSET Users]
    BY <1>6, <2>1 DEF LinkUser, TypeOK
  <2>5. QED
    BY <1>6, <2>2, <2>3, <2>4 DEF LinkUser
<1>7. CASE Accept(b) \/ Deny(b)
  <2>1. browser' \in [Browsers -> Browser]
    BY <1>7, CloseFormFacts DEF Accept, Deny
  <2>2. grant' \in [Devices -> Grant]
    BY <1>3, <1>7, SaveStatusFacts DEF Accept, Deny, Status
  <2>3. QED
    BY <1>7, <2>1, <2>2 DEF Accept, Deny, TypeOK
<1>8. QED
  BY <1>1, <1>2, <1>4, <1>5, <1>6, <1>7 DEF Browse, TypeOK, ReadUserCode, GetObject

LEMMA TypeStep == TypeOK /\ Held /\ [Next]_vars => TypeOK'
<1> SUFFICES ASSUME TypeOK, Held, [Next]_vars PROVE TypeOK'
  OBVIOUS
<1> USE DeviceAssumption
<1>1. CASE Tick
  BY <1>1 DEF TypeOK, Tick, Time, views
<1>2. ASSUME NEW d \in Devices, NEW code \in UserCodes, CreateDeviceGrant(d, code)
      PROVE  TypeOK'
  <2>1. [status |-> "authorization-pending", user |-> Null, code |-> code,
         expires |-> now + Lifetime] \in Grant
    BY DEF TypeOK, Grant, Status, Time
  <2>2. QED
    BY <1>2, <2>1 DEF TypeOK, CreateDeviceGrant, views
<1>3. ASSUME NEW b \in Browsers, Browse(b) PROVE TypeOK'
  BY <1>3, BrowseType DEF TypeOK
<1>4. ASSUME NEW p \in Pollers, NEW d \in Devices, Poll(p, d) PROVE TypeOK'
  <2>1. [pc |-> "user", device |-> d, user |-> Null, polled |-> now] \in Poller
    BY DEF TypeOK, Poller
  <2>2. QED
    BY <1>4, <2>1 DEF TypeOK, Poll
<1>5. ASSUME NEW p \in Pollers, ReadUser(p) PROVE TypeOK'
  <2>1. poller[p] \in Poller /\ poller[p].device \in Devices
    BY <1>5 DEF TypeOK, ReadUser, Held
  <2>2. grant[poller[p].device].user \in Users \union {Null}
    BY <2>1 DEF TypeOK, Grant
  <2>3. [poller[p] EXCEPT !.pc = "save", !.user = grant[poller[p].device].user] \in Poller
    BY <2>1, <2>2 DEF Poller
  <2>4. poller' = [poller EXCEPT ![p] =
                     [poller[p] EXCEPT !.pc = "save", !.user = grant[poller[p].device].user]]
    BY <1>5 DEF TypeOK, ReadUser
  <2>5. QED
    BY <1>5, <2>3, <2>4 DEF TypeOK, ReadUser
<1>6. ASSUME NEW p \in Pollers, SaveBearerToken(p) PROVE TypeOK'
  <2>1. poller' \in [Pollers -> Poller]
    BY <1>6, EndPollFacts DEF SaveBearerToken
  <2>2. /\ poller[p].device \in Devices /\ poller[p].polled \in Time
        /\ poller[p].user # Null => poller[p].user \in Users
    BY <1>6 DEF TypeOK, SaveBearerToken, Held, Poller
  <2>3. tokens' \subseteq Token
    BY <1>6, <2>2 DEF TypeOK, SaveBearerToken, Token
  <2>4. QED
    BY <1>6, <2>1, <2>3 DEF TypeOK, SaveBearerToken
<1>7. CASE UNCHANGED vars
  BY <1>7 DEF TypeOK, vars
<1>8. QED
  BY <1>1, <1>2, <1>3, <1>4, <1>5, <1>6, <1>7 DEF Next

-----------------------------------------------------------------------------
(* What one step may make of a form request, and of a poll.                *)
Opened(b, d) ==
  /\ d \in rows /\ browser'[b].device = d
  /\ \/ browser'[b].pc = "clean" /\ browser'[b].user \in Users
     \/ browser'[b].pc = "confirm" /\ grant[d].status = "authorization-pending"

Advanced(b) ==
  /\ browser[b].pc = "clean" /\ browser'[b].pc = "link"
  /\ browser'[b].device = browser[b].device /\ browser'[b].user = browser[b].user

LEMMA BrowserHistory ==
  ASSUME TypeOK, [Next]_vars, NEW b \in Browsers
  PROVE  \/ browser'[b] = browser[b] \/ browser'[b] = NoForm \/ Advanced(b)
         \/ \E d \in Devices : Opened(b, d)
<1>1. ASSUME NEW x \in Browsers, x # b, Browse(x) PROVE browser'[b] = browser[b]
  BY <1>1 DEF TypeOK, Browse, ReadUserCode, ExpireForm, CleanUserCode, LinkUser, GetObject,
     Accept, Deny, CloseForm
<1>2. ASSUME NEW user \in Users, NEW code \in UserCodes, ReadUserCode(b, user, code)
      PROVE  \E d \in Devices : Opened(b, d)
  <2>1. PICK d \in rows :
          browser' = [browser EXCEPT ![b] = [pc |-> "clean", device |-> d, user |-> user,
                                             status |-> grant[d].status]]
    BY <1>2 DEF ReadUserCode
  <2>2. d \in Devices /\ Opened(b, d)
    BY <2>1 DEF TypeOK, Opened
  <2>3. QED
    BY <2>2
<1>3. ASSUME NEW code \in UserCodes, GetObject(b, code) PROVE \E d \in Devices : Opened(b, d)
  <2>1. PICK d \in rows :
          /\ Confirmable(code) = {d}
          /\ browser' = [browser EXCEPT ![b] = [NoForm EXCEPT !.pc = "confirm", !.device = d]]
    BY <1>3 DEF GetObject
  <2>2. grant[d].status = "authorization-pending"
    BY <2>1 DEF Confirmable
  <2>3. browser'[b].pc = "confirm" /\ browser'[b].device = d
    BY <2>1 DEF TypeOK, NoForm
  <2>4. d \in Devices /\ Opened(b, d)
    BY <2>2, <2>3 DEF TypeOK, Opened
  <2>5. QED
    BY <2>4
<1>4. CASE CloseForm(b)
  BY <1>4, CloseFormFacts
<1>5. CASE CleanUserCode(b)
  <2>1. browser[b] \in Browser
    BY DEF TypeOK
  <2>2. CASE browser' = [browser EXCEPT ![b].pc = "link"]
    <3>1. browser'[b] = [browser[b] EXCEPT !.pc = "link"]
      BY <2>2 DEF TypeOK
    <3>2. Advanced(b)
      BY <1>5, <2>1, <3>1 DEF CleanUserCode, Advanced, Browser
    <3>3. QED
      BY <3>2
  <2>3. QED
    BY <1>4, <1>5, <2>2 DEF CleanUserCode
<1>6. CASE Browse(b)
  BY <1>2, <1>3, <1>4, <1>5, <1>6 DEF Browse, ExpireForm, LinkUser, Accept, Deny
<1>7. CASE ~\E x \in Browsers : Browse(x)
  <2>1. browser' = browser
    BY <1>7 DEF Next, vars, Tick, views, CreateDeviceGrant, Poll, ReadUser, SaveBearerToken
  <2>2. QED
    BY <2>1
<1>8. QED
  BY <1>1, <1>6, <1>7

(* The user a poll reads is the one the row has then.                      *)
Asked(p, d) ==
  /\ d \in rows /\ grant[d].status = "authorized"
  /\ poller'[p].pc = "user" /\ poller'[p].device = d

UserRead(p) ==
  /\ poller[p].pc = "user" /\ poller'[p].pc = "save"
  /\ poller'[p].device = poller[p].device
  /\ poller'[p].user = grant[poller[p].device].user

LEMMA PollerHistory ==
  ASSUME TypeOK, [Next]_vars, NEW p \in Pollers
  PROVE  \/ poller'[p] = poller[p] \/ poller'[p] = NoPoll \/ UserRead(p)
         \/ \E d \in Devices : Asked(p, d)
<1>1. ASSUME NEW x \in Pollers, x # p,
             (\E d \in Devices : Poll(x, d)) \/ ReadUser(x) \/ SaveBearerToken(x)
      PROVE  poller'[p] = poller[p]
  BY <1>1 DEF TypeOK, Poll, ReadUser, SaveBearerToken, EndPoll
<1>2. ASSUME NEW d \in Devices, Poll(p, d) PROVE Asked(p, d)
  BY <1>2 DEF TypeOK, Poll, MayPoll, Asked
<1>3. CASE ReadUser(p)
  <2>1. poller[p] \in Poller
    BY DEF TypeOK
  <2>2. poller'[p] =
          [poller[p] EXCEPT !.pc = "save", !.user = grant[poller[p].device].user]
    <3>1. poller \in [Pollers -> Poller]
      BY DEF TypeOK
    <3>2. QED
      BY <1>3, <3>1 DEF ReadUser
  <2>3. UserRead(p)
    <3>1. poller[p].pc = "user"
      BY <1>3 DEF ReadUser
    <3>2. QED
      BY <2>1, <2>2, <3>1 DEF UserRead, Poller
  <2>4. QED
    BY <2>3
<1>4. CASE SaveBearerToken(p)
  BY <1>4, EndPollFacts DEF SaveBearerToken
<1>5. CASE ~\E x \in Pollers :
              (\E d \in Devices : Poll(x, d)) \/ ReadUser(x) \/ SaveBearerToken(x)
  <2>1. poller' = poller
    BY <1>5 DEF Next, vars, Tick, views, CreateDeviceGrant, Browse, ReadUserCode, ExpireForm,
       CleanUserCode, LinkUser, GetObject, Accept, Deny
  <2>2. QED
    BY <2>1
<1>6. QED
  BY <1>1, <1>2, <1>3, <1>4, <1>5

(* Rows are never deleted.                                                 *)
LEMMA RowsGrow ==
  TypeOK /\ [Next]_vars => rows \subseteq rows' /\ rows' \subseteq Devices
  BY DEF TypeOK, Next, vars, Tick, CreateDeviceGrant, Browse, ReadUserCode, ExpireForm,
     CleanUserCode, LinkUser, GetObject, Accept, Deny, Poll, ReadUser, SaveBearerToken

LEMMA HeldStep == TypeOK /\ Held /\ [Next]_vars => Held'
<1> SUFFICES ASSUME TypeOK, Held, [Next]_vars PROVE Held'
  OBVIOUS
<1>1. rows \subseteq rows' /\ rows' \subseteq Devices
  BY RowsGrow
<1>2. ASSUME NEW b \in Browsers
      PROVE  /\ browser'[b].pc # "idle" => browser'[b].device \in rows'
             /\ browser'[b].pc \in {"clean", "link"} => browser'[b].user \in Users
  BY <1>1, BrowserHistory DEF Held, Opened, Advanced, NoForm
<1>3. ASSUME NEW p \in Pollers
      PROVE  poller'[p].pc # "idle" => poller'[p].device \in rows'
  BY <1>1, PollerHistory DEF Held, Asked, UserRead, NoPoll
<1>4. QED
  BY <1>1, <1>2, <1>3 DEF Held

(* Grants, copies, polls and tokens keep their types; in particular no     *)
(* token is without a user, though a grant may be authorized before any    *)
(* user was linked to it.                                                  *)
THEOREM DeviceTypes == Spec => []TypeOK
<1>1. Init => TypeOK /\ Held
  BY TypeInit
<1>2. TypeOK /\ Held /\ [Next]_vars => (TypeOK /\ Held)'
  BY TypeStep, HeldStep
<1>3. QED
  BY <1>1, <1>2, PTL DEF Spec

-----------------------------------------------------------------------------
(* The strengthening of TokenUserEnteredCode: the user column, and the     *)
(* copy of it a poll holds, name a user who entered that device's code.    *)
LinkedUsers ==
  /\ \A d \in Devices : grant[d].user # Null => grant[d].user \in entered[d]
  /\ \A p \in Pollers : poller[p].pc = "save" /\ poller[p].user # Null =>
       poller[p].user \in entered[poller[p].device]

(* The user column changes only with the creation of the row and with a    *)
(* form that is recorded.                                                  *)
LEMMA UserHistory ==
  ASSUME TypeOK, Held, [Next]_vars, NEW d \in Devices
  PROVE  /\ entered[d] \subseteq entered'[d]
         /\ grant'[d].user \in {grant[d].user, Null} \union entered'[d]
<1>1. ASSUME NEW x \in Devices, NEW code \in UserCodes, CreateDeviceGrant(x, code)
      PROVE  /\ entered' = entered
             /\ grant'[d].user = grant[d].user \/ grant'[d].user = Null
  BY <1>1 DEF TypeOK, CreateDeviceGrant
<1>2. ASSUME NEW b \in Browsers, ExpireForm(b) \/ Accept(b) \/ Deny(b)
      PROVE  entered' = entered /\ grant'[d].user = grant[d].user
  <2>1. browser[b].device \in Devices /\ entered' = entered
    BY <1>2 DEF ExpireForm, Accept, Deny, Held
  <2>2. grant' = grant \/ \E status \in Status :
                            grant' = [grant EXCEPT ![browser[b].device].status = status]
    BY <1>2 DEF ExpireForm, Accept, Deny, Status
  <2>3. QED
    BY <2>1, <2>2, SaveStatusFacts
<1>3. ASSUME NEW b \in Browsers, LinkUser(b)
      PROVE  /\ entered[d] \subseteq entered'[d]
             /\ grant'[d].user \in {grant[d].user} \union entered'[d]
  <2>1. browser[b].device \in Devices /\ browser[b].user \in Users
    BY <1>3 DEF LinkUser, Held
  <2>2. CASE d = browser[b].device
    <3>1. grant'[d].user = browser[b].user
      <4>1. grant' = [grant EXCEPT ![d].user = browser[b].user]
        BY <1>3, <2>2 DEF LinkUser
      <4>2. QED
        BY <2>1, <4>1, SaveUserFacts
    <3>2. entered'[d] = entered[d] \union {browser[b].user}
      BY <1>3, <2>2 DEF LinkUser, TypeOK
    <3>3. QED
      BY <3>1, <3>2
  <2>3. CASE d # browser[b].device
    BY <1>3, <2>1, <2>3, SaveUserFacts DEF LinkUser, TypeOK
  <2>4. QED
    BY <2>2, <2>3
<1>4. CASE grant' = grant /\ entered' = entered
  BY <1>4
<1>5. QED
  BY <1>1, <1>2, <1>3, <1>4 DEF Next, vars, Tick, Browse, ReadUserCode, CleanUserCode,
     GetObject, Poll, ReadUser, SaveBearerToken

(* Tokens come from a poll about to save.                                  *)
LEMMA TokenHistory ==
  ASSUME TypeOK, Held, [Next]_vars, NEW t \in tokens'
  PROVE  \/ t \in tokens
         \/ \E p \in Pollers : /\ poller[p].pc = "save" /\ poller[p].user # Null
                               /\ t.device = poller[p].device /\ t.user = poller[p].user
<1>1. ASSUME NEW p \in Pollers, SaveBearerToken(p), t \notin tokens
      PROVE  /\ poller[p].pc = "save" /\ poller[p].user # Null
             /\ t.device = poller[p].device /\ t.user = poller[p].user
  BY <1>1 DEF SaveBearerToken
<1>2. CASE ~\E p \in Pollers : SaveBearerToken(p)
  BY <1>2 DEF Next, vars, Tick, CreateDeviceGrant, Browse, ReadUserCode, ExpireForm,
     CleanUserCode, LinkUser, GetObject, Accept, Deny, Poll, ReadUser
<1>3. QED
  BY <1>1, <1>2

LEMMA LinkedStep ==
  /\ TypeOK /\ Held /\ LinkedUsers /\ TokenUserEnteredCode /\ [Next]_vars
  => (LinkedUsers /\ TokenUserEnteredCode)'
<1> SUFFICES ASSUME TypeOK, Held, LinkedUsers, TokenUserEnteredCode, [Next]_vars
             PROVE  (LinkedUsers /\ TokenUserEnteredCode)'
  OBVIOUS
<1>1. ASSUME NEW d \in Devices
      PROVE  entered[d] \subseteq entered'[d]
  BY UserHistory
<1>2. ASSUME NEW d \in Devices, grant'[d].user # Null
      PROVE  grant'[d].user \in entered'[d]
  BY <1>2, UserHistory DEF LinkedUsers
<1>3. ASSUME NEW p \in Pollers, poller'[p].pc = "save", poller'[p].user # Null
      PROVE  poller'[p].user \in entered'[poller'[p].device]
  <2>1. CASE poller'[p] = poller[p]
    <3>1. poller[p].device \in Devices
      BY <1>3, <2>1 DEF Held
    <3>2. QED
      BY <1>1, <1>3, <2>1, <3>1 DEF LinkedUsers
  <2>2. CASE UserRead(p)
    <3>1. poller[p].device \in Devices
      BY <2>2 DEF Held, UserRead
    <3>2. QED
      BY <1>1, <1>3, <2>2, <3>1 DEF LinkedUsers, UserRead
  <2>3. QED
    BY <1>3, <2>1, <2>2, PollerHistory DEF NoPoll, Asked
<1>4. ASSUME NEW t \in tokens' PROVE t.user \in entered'[t.device]
  <2>1. CASE t \in tokens
    <3>1. t.device \in Devices
      BY <2>1 DEF TypeOK, Token
    <3>2. QED
      BY <1>1, <2>1, <3>1 DEF TokenUserEnteredCode
  <2>2. ASSUME NEW p \in Pollers, poller[p].pc = "save", poller[p].user # Null,
               t.device = poller[p].device, t.user = poller[p].user
        PROVE  t.user \in entered'[t.device]
    <3>1. poller[p].device \in Devices
      BY <2>2 DEF Held
    <3>2. QED
      BY <1>1, <2>2, <3>1 DEF LinkedUsers
  <2>3. QED
    BY <2>1, <2>2, TokenHistory
<1>5. QED
  BY <1>2, <1>3, <1>4 DEF LinkedUsers, TokenUserEnteredCode

LEMMA LinkedInit == Init => LinkedUsers /\ TokenUserEnteredCode
  BY DEF Init, LinkedUsers, TokenUserEnteredCode, NoGrant, NoPoll

(* However many users enter codes and whatever the forms and polls         *)
(* overwrite, tokens of a device belong to a user who entered its code.    *)
THEOREM EnteredTheorem == Spec => []TokenUserEnteredCode
<1>1. Init => TypeOK /\ Held /\ LinkedUsers /\ TokenUserEnteredCode
  BY TypeInit, LinkedInit
<1>2. TypeOK /\ Held /\ LinkedUsers /\ TokenUserEnteredCode /\ [Next]_vars
      => (TypeOK /\ Held /\ LinkedUsers /\ TokenUserEnteredCode)'
  BY TypeStep, HeldStep, LinkedStep
<1>3. QED
  BY <1>1, <1>2, PTL DEF Spec

-----------------------------------------------------------------------------
(* The status of a closed grant can only become expired.                   *)
LEMMA ClosedStatus ==
  ASSUME TypeOK, Held, [Next]_vars, NEW d \in Devices, Closed(d)
  PROVE  grant'[d].status \in {"denied", "expired"}
<1>1. grant[d].status \in {"denied", "expired"}
  BY DEF Closed
<1>2. ASSUME NEW x \in Devices, NEW code \in UserCodes, CreateDeviceGrant(x, code)
      PROVE  grant'[d] = grant[d]
  BY <1>2 DEF TypeOK, CreateDeviceGrant, Closed
<1>3. ASSUME NEW b \in Browsers, ExpireForm(b)
      PROVE  grant'[d].status \in {grant[d].status, "expired"}
  <2>1. browser[b].device \in Devices
    BY <1>3 DEF ExpireForm, Held
  <2>2. "expired" \in Status
    BY DEF Status
  <2>3. QED
    BY <1>3, <2>1, <2>2, SaveStatusFacts DEF ExpireForm
<1>4. ASSUME NEW b \in Browsers, Accept(b) \/ Deny(b)
      PROVE  grant'[d] = grant[d]
  <2>1. browser[b].device # d
    BY <1>4 DEF Accept, Deny, Closed
  <2>2. QED
    BY <1>4, <2>1 DEF TypeOK, Accept, Deny
<1>5. ASSUME NEW b \in Browsers, LinkUser(b) PROVE grant'[d].status = grant[d].status
  <2>1. browser[b].device \in Devices /\ browser[b].user \in Users
    BY <1>5 DEF LinkUser, Held
  <2>2. QED
    BY <1>5, <2>1, SaveUserFacts DEF LinkUser
<1>6. CASE grant' = grant
  BY <1>1, <1>6
<1>7. QED
  BY <1>1, <1>2, <1>3, <1>4, <1>5, <1>6 DEF Next, vars, Tick, Browse, ReadUserCode,
     CleanUserCode, GetObject, Poll, ReadUser, SaveBearerToken

LEMMA ClosedStep ==
  ASSUME TypeOK, Held, [Next]_vars, NEW d \in Devices, Closed(d)
  PROVE  Closed(d)' /\ TokensOf(d)' = TokensOf(d)
<1>1. d \in rows'
  BY RowsGrow DEF Closed
<1>2. grant'[d].status \in {"denied", "expired"}
  BY ClosedStatus
<1>3. ASSUME NEW b \in Browsers, browser'[b].device = d PROVE browser'[b].pc # "confirm"
  BY <1>3, BrowserHistory DEF Closed, Opened, Advanced, NoForm
<1>4. ASSUME NEW p \in Pollers, poller'[p].device = d PROVE FALSE
  BY <1>4, PollerHistory, DeviceAssumption DEF Closed, Asked, UserRead, NoPoll
<1>5. Closed(d)'
  BY <1>1, <1>2, <1>3, <1>4 DEF Closed
<1>6. tokens \subseteq tokens'
  BY DEF Next, vars, Tick, CreateDeviceGrant, Browse, ReadUserCode, ExpireForm,
     CleanUserCode, LinkUser, GetObject, Accept, Deny, Poll, ReadUser, SaveBearerToken
<1>7. ASSUME NEW t \in tokens', t.device = d PROVE t \in tokens
  BY <1>7, TokenHistory DEF Closed
<1>8. TokensOf(d)' = TokensOf(d)
  BY <1>6, <1>7 DEF TokensOf
<1>9. QED
  BY <1>5, <1>8

(* A closed grant is never reopened and buys no tokens: not by a stale     *)
(* copy of its row, a late form, or a poll.                                *)
THEOREM ClosedTheorem == Spec => ClosedStaysClosed
<1>1. Init => TypeOK /\ Held
  BY TypeInit
<1>2. TypeOK /\ Held /\ [Next]_vars => (TypeOK /\ Held)'
  BY TypeStep, HeldStep
<1>3. TypeOK /\ Held /\ [Next]_vars
      => [\A d \in Devices : Closed(d) => Closed(d)' /\ TokensOf(d)' = TokensOf(d)]_vars
  BY ClosedStep
<1>4. QED
  BY <1>1, <1>2, <1>3, PTL DEF Spec, ClosedStaysClosed

-----------------------------------------------------------------------------
(* Once a grant is decided no form starts to decide it: the confirm view   *)
(* looks for pending rows.                                                 *)
LEMMA NoNewDecision ==
  ASSUME TypeOK, Held, [Next]_vars, NEW d \in rows, grant[d].status # "authorization-pending"
  PROVE  Deciding(d)' \subseteq Deciding(d)
<1> SUFFICES ASSUME NEW b \in Browsers, browser'[b].pc = "confirm", browser'[b].device = d
             PROVE  browser[b].pc = "confirm" /\ browser[b].device = d
  BY DEF Deciding
<1>1. ~\E x \in Devices : Opened(b, x)
  BY DEF Opened
<1>2. QED
  BY <1>1, BrowserHistory DEF Advanced, NoForm

(* What a step may make of the status of a decided grant.                  *)
LEMMA DecisionKept ==
  ASSUME TypeOK, Held, [Next]_vars, NEW d \in rows
  PROVE  \/ grant'[d].status = grant[d].status
         \/ Deciding(d)' # Deciding(d)
         \/ grant'[d].status = "expired" /\ PastDeadline(d)
<1>1. ASSUME NEW x \in Devices, NEW code \in UserCodes, CreateDeviceGrant(x, code)
      PROVE  grant'[d] = grant[d]
  BY <1>1 DEF TypeOK, CreateDeviceGrant
<1>2. ASSUME NEW b \in Browsers, ExpireForm(b)
      PROVE  grant'[d].status = grant[d].status
             \/ (grant'[d].status = "expired" /\ PastDeadline(d))
  <2>1. browser[b].device \in Devices /\ "expired" \in Status
    BY <1>2 DEF ExpireForm, Status, Held
  <2>2. CASE grant' = grant
    BY <2>2
  <2>3. CASE grant' # grant
    <3>1. /\ grant' = [grant EXCEPT ![browser[b].device].status = "expired"]
          /\ PastDeadline(browser[b].device)
      BY <1>2, <2>3 DEF ExpireForm
    <3>2. QED
      BY <2>1, <3>1, SaveStatusFacts DEF Held
  <2>4. QED
    BY <2>2, <2>3
<1>3. ASSUME NEW b \in Browsers, Accept(b) \/ Deny(b)
      PROVE  grant'[d] = grant[d] \/ Deciding(d)' # Deciding(d)
  <2>1. CASE browser[b].device # d
    BY <1>3, <2>1 DEF TypeOK, Accept, Deny
  <2>2. CASE browser[b].device = d
    <3>1. b \in Deciding(d) /\ browser'[b] = NoForm
      BY <1>3, <2>2, CloseFormFacts DEF Deciding, Accept, Deny
    <3>2. QED
      BY <3>1 DEF Deciding, NoForm
  <2>3. QED
    BY <2>1, <2>2
<1>4. ASSUME NEW b \in Browsers, LinkUser(b) PROVE grant'[d].status = grant[d].status
  <2>1. browser[b].device \in Devices /\ browser[b].user \in Users
    BY <1>4 DEF LinkUser, Held
  <2>2. QED
    BY <1>4, <2>1, SaveUserFacts DEF LinkUser
<1>5. CASE grant' = grant
  BY <1>5
<1>6. QED
  BY <1>1, <1>2, <1>3, <1>4, <1>5 DEF Next, vars, Tick, Browse, ReadUserCode,
     CleanUserCode, GetObject, Poll, ReadUser, SaveBearerToken

(* A decision is overturned only by confirm forms that had read the grant  *)
(* before (DeviceConfirmView.form_valid), each of them once, and by a      *)
(* stale copy only after the deadline (is_expired).                        *)
THEOREM DecisionTheorem == Spec => DecisionStands
<1> DEFINE Stands ==
      \A d \in rows : grant[d].status # "authorization-pending" =>
        /\ Deciding(d)' \subseteq Deciding(d)
        /\ \/ grant'[d].status = grant[d].status
           \/ Deciding(d)' # Deciding(d)
           \/ grant'[d].status = "expired" /\ PastDeadline(d)
<1>1. Init => TypeOK /\ Held
  BY TypeInit
<1>2. TypeOK /\ Held /\ [Next]_vars => (TypeOK /\ Held)'
  BY TypeStep, HeldStep
<1>3. TypeOK /\ Held /\ [Next]_vars => [Stands]_vars
  BY NoNewDecision, DecisionKept
<1>4. QED
  BY <1>1, <1>2, <1>3, PTL DEF Spec, DecisionStands
=============================================================================
