------------------------ MODULE ResourceServerProofs ------------------------
(***************************************************************************)
(* Machine-checked theorems about ResourceServer, for any number of        *)
(* tokens, views and threads, any grants and any caching limit.            *)
(***************************************************************************)
EXTENDS ResourceServer, TLAPS

Busy      == {"load", "ask", "receive", "judge", "permit"}
Positions == Busy \union {"idle", "done"}
Outcomes  == {"none", "preflight", "client", "session", "token", "denied",
              "invalid_token", "insufficient_scope"}
Rows      == [expires : Nat, scope : {grant.scope : grant \in Grants}] \union {None}
Thread    == [pc : Positions, view : Views \union {None}, method : Methods,
              token : Tokens \union {None}, login : BOOLEAN, answer : {"none", "active"},
              row : Rows, outcome : Outcomes]

(* Types of the variables.                                                 *)
Shape ==
  /\ site \in Sites
  /\ issued \in [Tokens -> Grants]
  /\ now \in 0..MaxTime
  /\ active \subseteq Tokens
  /\ cache \in [Tokens -> Rows]
  /\ kept = [view \in Views |-> kept[view]]
  /\ req \in [Requests -> Thread]
  /\ doomed \subseteq Tokens
  /\ vouched \in [Tokens -> Nat \union {None}]

(* A thread past its arrival has a view and, until it is done, a token; a  *)
(* decorated read-write view's list has kept what the request needs.       *)
Holds(r) ==
  /\ req[r].pc \in Busy => req[r].token \in Tokens
  /\ req[r].pc # "idle" => req[r].view \in Views
  /\ req[r].pc = "permit" => req[r].row # None /\ req[r].view.kind \in Permissions
  /\ req[r].pc = "done" <=> req[r].outcome # "none"
  /\ req[r].row # None => req[r].token \in Tokens
  /\ req[r].pc # "idle" /\ req[r].view.kind = "rw_function" =>
       WithMethodScope(req[r].view, req[r].method) \subseteq kept[req[r].view]

Held ==
  /\ \A view \in Views : view.kind = "rw_function" => view.declared \subseteq kept[view]
  /\ \A r \in Requests : Holds(r)

Typing == Shape /\ Held

LEMMA IdleType == Idle \in Thread
  BY DEF Idle, Thread, Positions, Busy, Methods, Rows, Outcomes

LEMMA MinPair ==
  ASSUME NEW a \in Int, NEW b \in Int
  PROVE  Min({a, b}) \in {a, b} /\ Min({a, b}) <= a /\ Min({a, b}) <= b
<1>1. CASE a <= b
  <2>1. \A y \in {a, b} : a <= y
    BY <1>1
  <2>2. QED
    BY <2>1 DEF Min
<1>2. CASE b <= a
  <2>1. \A y \in {a, b} : b <= y
    BY <1>2
  <2>2. QED
    BY <2>1 DEF Min
<1>3. QED
  BY <1>1, <1>2

(* How long an answer is believed.                                         *)
LEMMA CachedUntilFacts ==
  ASSUME Shape, NEW token \in Tokens
  PROVE  /\ CachedUntil(token) \in Nat
         /\ CachedUntil(token) <= now + CachingSeconds
         /\ issued[token].stated => CachedUntil(token) <= issued[token].expires
<1>1. /\ now \in Nat /\ CachingSeconds \in Nat
      /\ issued[token] \in Grants /\ issued[token].expires \in Nat
  BY CachingAssumption, GrantsAssumption, TimeAssumption DEF Shape
<1>2. now + CachingSeconds \in Nat
  BY <1>1
<1>3. CASE issued[token].stated
  <2>1. CachedUntil(token) = Min({issued[token].expires, now + CachingSeconds})
    BY <1>3 DEF CachedUntil
  <2>2. issued[token].expires \in Int /\ now + CachingSeconds \in Int
    BY <1>1, <1>2
  <2>3. /\ CachedUntil(token) \in {issued[token].expires, now + CachingSeconds}
        /\ CachedUntil(token) <= issued[token].expires
        /\ CachedUntil(token) <= now + CachingSeconds
    BY <2>1, <2>2, MinPair
  <2>4. QED
    BY <1>1, <1>2, <2>3
<1>4. CASE ~issued[token].stated
  BY <1>1, <1>2, <1>4 DEF CachedUntil
<1>5. QED
  BY <1>3, <1>4

(* A step of one thread leaves the others alone.                           *)
LEMMA ThreadStep ==
  ASSUME req \in [Requests -> Thread], NEW r \in Requests, NEW next \in Thread,
         req' = [req EXCEPT ![r] = next]
  PROVE  /\ req' \in [Requests -> Thread]
         /\ req'[r] = next
         /\ \A x \in Requests \ {r} : req'[x] = req[x]
  OBVIOUS

LEMMA FinishFacts ==
  ASSUME Shape, NEW r \in Requests, NEW outcome \in Outcomes, Finish(r, outcome)
  PROVE  /\ req' \in [Requests -> Thread]
         /\ req'[r] = [req[r] EXCEPT !.pc = "done", !.outcome = outcome, !.row = None]
         /\ \A x \in Requests \ {r} : req'[x] = req[x]
<1> DEFINE next == [req[r] EXCEPT !.pc = "done", !.outcome = outcome, !.row = None]
<1>a. req[r] \in Thread
  BY DEF Shape
<1>b. "done" \in Positions /\ None \in Rows
  BY DEF Positions, Rows
<1>1. next \in Thread
  BY <1>a, <1>b DEF Thread
<1>2. req' = [req EXCEPT ![r] = next]
  BY DEF Finish, Shape
<1>0. req \in [Requests -> Thread]
  BY DEF Shape
<1> HIDE DEF next
<1>3. /\ req' \in [Requests -> Thread] /\ req'[r] = next
      /\ \A x \in Requests \ {r} : req'[x] = req[x]
  BY <1>0, <1>1, <1>2, ThreadStep
<1>4. QED
  BY <1>3 DEF next

(* What the steps of a thread make of it.                                  *)
LEMMA ArriveFacts ==
  ASSUME Typing, NEW r \in Requests, NEW view \in site, NEW method \in Methods,
         NEW token \in Tokens \union {None}, NEW login \in BOOLEAN,
         Arrive(r, view, method, token, login)
  PROVE  /\ req' \in [Requests -> Thread]
         /\ \A x \in Requests \ {r} : req'[x] = req[x]
         /\ req'[r].view = view /\ req'[r].method = method /\ req'[r].token = token
         /\ req'[r].row = None /\ req'[r].answer = "none"
         /\ req'[r].outcome \notin {"token", "denied", "insufficient_scope"}
         /\ \/ req'[r].pc = "load" /\ req'[r].outcome = "none" /\ token \in Tokens
            \/ req'[r].pc = "done" /\ req'[r].outcome # "none"
         /\ view \in Views
<1> DEFINE outcome == AtOnce(view, method, token, login)
           next == [Idle EXCEPT !.pc = IF outcome = "none" THEN "load" ELSE "done",
                      !.view = view, !.method = method, !.token = token, !.login = login,
                      !.outcome = outcome]
<1>1. view \in Views
  BY SitesAssumption DEF Typing, Shape
<1>2. /\ outcome \in {"none", "preflight", "client", "session", "invalid_token"}
      /\ outcome = "none" => token \in Tokens
  BY DEF AtOnce
<1>3. req' = [req EXCEPT ![r] = next]
  BY DEF Arrive
<1> HIDE DEF outcome
<1>4. next \in Thread
  BY <1>1, <1>2 DEF Idle, Thread, Positions, Busy, Rows, Outcomes
<1>5. /\ next.view = view /\ next.method = method /\ next.token = token
      /\ next.row = None /\ next.answer = "none" /\ next.outcome = outcome
      /\ next.pc = IF outcome = "none" THEN "load" ELSE "done"
  BY DEF Idle
<1> HIDE DEF next
<1>6. /\ req' \in [Requests -> Thread] /\ req'[r] = next
      /\ \A x \in Requests \ {r} : req'[x] = req[x]
  BY <1>3, <1>4, ThreadStep DEF Typing, Shape
<1>7. QED
  BY <1>1, <1>2, <1>5, <1>6

(* A step that only moves a busy thread on, with a new row and answer.     *)
Moved(r, pc, row, answer) ==
  /\ req' \in [Requests -> Thread]
  /\ req'[r] = [req[r] EXCEPT !.pc = pc, !.row = row, !.answer = answer]
  /\ \A x \in Requests \ {r} : req'[x] = req[x]

LEMMA MoveFacts ==
  ASSUME Shape, NEW r \in Requests, NEW pc \in Busy, NEW row \in Rows,
         NEW answer \in {"none", "active"},
         req' = [req EXCEPT ![r] = [req[r] EXCEPT !.pc = pc, !.row = row, !.answer = answer]]
  PROVE  Moved(r, pc, row, answer)
<1> DEFINE next == [req[r] EXCEPT !.pc = pc, !.row = row, !.answer = answer]
<1>a. req[r] \in Thread /\ pc \in Positions
  BY DEF Shape, Positions
<1>1. next \in Thread
  BY <1>a DEF Thread
<1>2. req' = [req EXCEPT ![r] = next]
  OBVIOUS
<1>0. req \in [Requests -> Thread]
  BY DEF Shape
<1> HIDE DEF next
<1>3. /\ req' \in [Requests -> Thread] /\ req'[r] = next
      /\ \A x \in Requests \ {r} : req'[x] = req[x]
  BY <1>0, <1>1, <1>2, ThreadStep
<1>4. QED
  BY <1>3 DEF next, Moved

LEMMA LoadFacts ==
  ASSUME Typing, NEW r \in Requests, Load(r)
  PROVE  \E pc \in {"ask", "judge"} : Moved(r, pc, cache[req[r].token], req[r].answer)
<1>1. req[r].pc = "load" /\ req[r].token \in Tokens
  BY DEF Load, At, Typing, Held, Holds, Busy
<1>2. cache[req[r].token] \in Rows /\ req[r] \in Thread
  BY <1>1 DEF Typing, Shape
<1>3. PICK pc \in {"ask", "judge"} :
        req' = [req EXCEPT ![r].row = cache[req[r].token], ![r].pc = pc]
  BY DEF Load
<1>4. req' = [req EXCEPT ![r] =
                [req[r] EXCEPT !.pc = pc, !.row = cache[req[r].token], !.answer = req[r].answer]]
  BY <1>2, <1>3 DEF Thread, Typing, Shape
<1>5. pc \in Busy /\ req[r].answer \in {"none", "active"}
  BY <1>2 DEF Busy, Thread
<1>6. QED
  BY <1>2, <1>4, <1>5, MoveFacts DEF Typing

LEMMA AnswerFacts ==
  ASSUME Typing, NEW r \in Requests, Answer(r)
  PROVE  \E answer \in {"none", "active"} :
           /\ Moved(r, "receive", req[r].row, answer)
           /\ answer = "active" => req[r].token \in active
<1>1. req[r].pc = "ask" /\ req[r] \in Thread
  BY DEF Answer, At, Typing, Shape
<1>2. PICK answer \in {"none", "active"} :
        /\ req' = [req EXCEPT ![r].pc = "receive", ![r].answer = answer]
        /\ answer = "active" => req[r].token \in active
  BY DEF Answer
<1>3. req' = [req EXCEPT ![r] =
                [req[r] EXCEPT !.pc = "receive", !.row = req[r].row, !.answer = answer]]
  BY <1>1, <1>2 DEF Thread, Typing, Shape
<1>4. "receive" \in Busy /\ req[r].row \in Rows
  BY <1>1 DEF Busy, Thread
<1>5. QED
  BY <1>2, <1>3, <1>4, MoveFacts DEF Typing

LEMMA LoseAnswerFacts ==
  ASSUME Typing, NEW r \in Requests, LoseAnswer(r)
  PROVE  Moved(r, "receive", req[r].row, "none")
<1>1. req[r] \in Thread
  BY DEF Typing, Shape
<1>2. req' = [req EXCEPT ![r] =
                [req[r] EXCEPT !.pc = "receive", !.row = req[r].row, !.answer = "none"]]
  BY <1>1 DEF LoseAnswer, Thread, Typing, Shape
<1>3. "receive" \in Busy /\ req[r].row \in Rows
  BY <1>1 DEF Busy, Thread
<1>4. QED
  BY <1>2, <1>3, MoveFacts DEF Typing

(* The row an active answer becomes.                                       *)
Learnt(token) == [expires |-> CachedUntil(token), scope |-> issued[token].scope]

LEMMA ReceiveFacts ==
  ASSUME Typing, NEW r \in Requests, Receive(r)
  PROVE  /\ req[r].token \in Tokens
         /\ \/ /\ req[r].answer = "active"
               /\ Learnt(req[r].token) \in Rows
               /\ cache' = [cache EXCEPT ![req[r].token] = Learnt(req[r].token)]
               /\ vouched' = [vouched EXCEPT ![req[r].token] = now]
               /\ Moved(r, "judge", Learnt(req[r].token), "none")
            \/ /\ req[r].answer # "active"
               /\ UNCHANGED <<cache, vouched>>
               /\ Moved(r, "judge", None, "none")
<1>1. req[r] \in Thread /\ req[r].token \in Tokens
  BY DEF Receive, At, Typing, Shape, Held, Holds, Busy
<1>2. Learnt(req[r].token) \in Rows
  BY <1>1, CachedUntilFacts DEF Typing, Shape, Learnt, Rows
<1>3. "judge" \in Busy /\ None \in Rows
  BY DEF Busy, Rows
<1>4. CASE req[r].answer = "active"
  <2>1. req' = [req EXCEPT ![r].pc = "judge", ![r].row = Learnt(req[r].token), ![r].answer = "none"]
    BY <1>4 DEF Receive, Learnt
  <2>2. req' = [req EXCEPT ![r] =
          [req[r] EXCEPT !.pc = "judge", !.row = Learnt(req[r].token), !.answer = "none"]]
    BY <2>1 DEF Typing, Shape
  <2>3. Moved(r, "judge", Learnt(req[r].token), "none")
    BY <1>2, <1>3, <2>2, MoveFacts DEF Typing
  <2>4. QED
    BY <1>1, <1>2, <1>4, <2>3 DEF Receive, Learnt
<1>5. CASE req[r].answer # "active"
  <2>1. req' = [req EXCEPT ![r].pc = "judge", ![r].row = None, ![r].answer = "none"]
    BY <1>5 DEF Receive
  <2>2. req' = [req EXCEPT ![r] = [req[r] EXCEPT !.pc = "judge", !.row = None, !.answer = "none"]]
    BY <2>1 DEF Typing, Shape
  <2>3. Moved(r, "judge", None, "none")
    BY <1>3, <2>2, MoveFacts DEF Typing
  <2>4. QED
    BY <1>1, <1>5, <2>3 DEF Receive
<1>6. QED
  BY <1>4, <1>5

(* A thread that has decided.                                              *)
Decided(r, outcome) ==
  /\ req' \in [Requests -> Thread]
  /\ req'[r] = [req[r] EXCEPT !.pc = "done", !.outcome = outcome, !.row = None]
  /\ \A x \in Requests \ {r} : req'[x] = req[x]

LEMMA JudgeFacts ==
  ASSUME Typing, NEW r \in Requests, Judge(r)
  PROVE  \/ /\ req[r].row # None /\ IsValid(req[r].row, Scopes(r), now)
            /\ req[r].view.kind \in Permissions
            /\ Moved(r, "permit", req[r].row, req[r].answer)
         \/ /\ req[r].row # None /\ IsValid(req[r].row, Scopes(r), now)
            /\ req[r].view.kind \notin Permissions
            /\ Decided(r, "token")
         \/ \E outcome \in Outcomes \ {"none", "token"} : Decided(r, outcome)
<1>1. req[r] \in Thread
  BY DEF Typing, Shape
<1>2. CASE req[r].row # None /\ IsValid(req[r].row, Scopes(r), now)
  <2>1. CASE req[r].view.kind \in Permissions
    <3>1. req' = [req EXCEPT ![r].pc = "permit"]
      BY <1>2, <2>1 DEF Judge
    <3>2. req' = [req EXCEPT ![r] =
            [req[r] EXCEPT !.pc = "permit", !.row = req[r].row, !.answer = req[r].answer]]
      BY <1>1, <3>1 DEF Typing, Shape, Thread
    <3>3. /\ "permit" \in Busy /\ req[r].row \in Rows
          /\ req[r].answer \in {"none", "active"}
      BY <1>1 DEF Busy, Thread
    <3>4. Moved(r, "permit", req[r].row, req[r].answer)
      BY <3>2, <3>3, MoveFacts DEF Typing
    <3>5. QED
      BY <1>2, <2>1, <3>4
  <2>2. CASE req[r].view.kind \notin Permissions
    <3>1. Finish(r, "token")
      BY <1>2, <2>2 DEF Judge
    <3>2. QED
      BY <1>2, <2>2, <3>1, FinishFacts DEF Typing, Decided, Outcomes
  <2>3. QED
    BY <2>1, <2>2
<1>3. CASE ~(req[r].row # None /\ IsValid(req[r].row, Scopes(r), now))
  <2>1. PICK outcome \in {"session", "invalid_token", "insufficient_scope"} : Finish(r, outcome)
    BY <1>3 DEF Judge, Refusal
  <2>2. outcome \in Outcomes \ {"none", "token"}
    BY DEF Outcomes
  <2>3. QED
    BY <2>1, <2>2, FinishFacts DEF Typing, Decided
<1>4. QED
  BY <1>2, <1>3

LEMMA PermitFacts ==
  ASSUME Typing, NEW r \in Requests, Permit(r)
  PROVE  /\ req[r].row # None /\ req[r].view.kind \in Permissions
         /\ req[r].view \in Views /\ req[r].token \in Tokens
         /\ \/ /\ TokenPermits(req[r].view, req[r].method, req[r].row, now)
               /\ Decided(r, "token")
            \/ Decided(r, "denied")
<1>1. req[r].pc = "permit"
  BY DEF Permit, At
<1>2. /\ req[r].row # None /\ req[r].view.kind \in Permissions
      /\ req[r].view \in Views /\ req[r].token \in Tokens
  BY <1>1 DEF Typing, Held, Holds, Busy
<1>3. "token" \in Outcomes /\ "denied" \in Outcomes
  BY DEF Outcomes
<1>4. \/ /\ TokenPermits(req[r].view, req[r].method, req[r].row, now)
         /\ Finish(r, "token")
      \/ Finish(r, "denied")
  BY DEF Permit
<1>5. QED
  BY <1>2, <1>3, <1>4, FinishFacts DEF Typing, Decided

LEMMA ReplyFacts ==
  ASSUME Typing, NEW r \in Requests, Reply(r)
  PROVE  /\ req' \in [Requests -> Thread] /\ req'[r] = Idle
         /\ \A x \in Requests \ {r} : req'[x] = req[x]
  BY IdleType, ThreadStep DEF Reply, Typing, Shape

-----------------------------------------------------------------------------
(* Preservation of the types.                                              *)
LEMMA MovedHolds ==
  ASSUME Typing, UNCHANGED kept, NEW r \in Requests, NEW pc \in Busy, NEW row, NEW answer,
         Moved(r, pc, row, answer), req[r].pc \in Busy,
         pc = "permit" => row # None /\ req[r].view.kind \in Permissions
  PROVE  Held'
<1>1. req[r] \in Thread /\ Holds(r)
  BY DEF Typing, Shape, Held
<1>2. /\ req'[r].pc = pc /\ req'[r].row = row
      /\ req'[r].token = req[r].token /\ req'[r].view = req[r].view
      /\ req'[r].method = req[r].method /\ req'[r].outcome = req[r].outcome
  BY <1>1 DEF Moved, Thread
<1>3. Holds(r)'
  BY <1>1, <1>2 DEF Holds, Busy, WithMethodScope
<1>4. \A x \in Requests \ {r} : Holds(x)'
  BY DEF Moved, Holds, Typing, Held, WithMethodScope
<1>5. QED
  BY <1>3, <1>4 DEF Held, Typing

LEMMA DecidedHolds ==
  ASSUME Typing, UNCHANGED kept, NEW r \in Requests, NEW outcome \in Outcomes \ {"none"},
         Decided(r, outcome), req[r].pc \in Busy
  PROVE  Held'
<1>1. req[r] \in Thread /\ Holds(r)
  BY DEF Typing, Shape, Held
<1>2. /\ req'[r].pc = "done" /\ req'[r].row = None
      /\ req'[r].token = req[r].token /\ req'[r].view = req[r].view
      /\ req'[r].method = req[r].method /\ req'[r].outcome = outcome
  BY <1>1 DEF Decided, Thread
<1>3. Holds(r)'
  BY <1>1, <1>2 DEF Holds, Busy, WithMethodScope
<1>4. \A x \in Requests \ {r} : Holds(x)'
  BY DEF Decided, Holds, Typing, Held, WithMethodScope
<1>5. QED
  BY <1>3, <1>4 DEF Held, Typing

LEMMA ArriveHolds ==
  ASSUME Typing, NEW r \in Requests, NEW view \in site, NEW method \in Methods,
         NEW token \in Tokens \union {None}, NEW login \in BOOLEAN,
         Arrive(r, view, method, token, login)
  PROVE  /\ kept' = [v \in Views |-> kept'[v]]
         /\ Held'
<1>1. view \in Views /\ kept = [v \in Views |-> kept[v]]
  BY SitesAssumption DEF Typing, Shape
<1>2. CASE view.kind = "rw_function"
  <2>1. kept' = [kept EXCEPT ![view] = Keep(view, method)]
    BY <1>2 DEF Arrive
  <2>2. /\ kept' = [v \in Views |-> kept'[v]]
        /\ kept'[view] = Keep(view, method)
        /\ \A v \in Views : kept[v] \subseteq kept'[v]
    BY <1>1, <2>1 DEF Keep
  <2>3. WithMethodScope(view, method) \subseteq kept'[view]
    BY <1>1, <1>2, <2>2 DEF Keep, WithMethodScope, Typing, Held
  <2>4. Holds(r)'
    BY <1>1, <2>3, ArriveFacts DEF Holds, Busy, WithMethodScope
  <2>5. ASSUME NEW x \in Requests \ {r} PROVE Holds(x)'
    <3>1. Holds(x) /\ req'[x] = req[x]
      BY ArriveFacts DEF Typing, Held
    <3>2. req'[x].pc # "idle" => kept[req'[x].view] \subseteq kept'[req'[x].view]
      BY <2>2, <3>1 DEF Holds
    <3>3. QED
      BY <3>1, <3>2 DEF Holds, WithMethodScope
  <2>6. \A v \in Views : v.kind = "rw_function" => v.declared \subseteq kept'[v]
    BY <2>2 DEF Typing, Held
  <2>7. QED
    BY <2>2, <2>4, <2>5, <2>6 DEF Held
<1>3. CASE view.kind # "rw_function"
  <2>1. kept' = kept
    BY <1>3 DEF Arrive
  <2>2. QED
    BY <1>1, <1>3, <2>1, ArriveFacts DEF Held, Holds, Typing, Busy, WithMethodScope
<1>4. QED
  BY <1>2, <1>3

LEMMA TypingInit == Init => Typing
<1> SUFFICES ASSUME Init PROVE Typing
  OBVIOUS
<1>1. Shape
  BY IdleType, TimeAssumption DEF Init, Shape, Rows
<1>2. Held
  BY DEF Init, Held, Holds, Idle, Busy
<1>3. QED
  BY <1>1, <1>2 DEF Typing

LEMMA TypingStep == Typing /\ [Next]_vars => Typing'
<1> SUFFICES ASSUME Typing, [Next]_vars PROVE Typing'
  OBVIOUS
<1>0. Shape /\ Held
  BY DEF Typing
<1>1. ASSUME NEW r \in Requests, NEW view \in site, NEW method \in Methods,
             NEW token \in Tokens \union {None}, NEW login \in BOOLEAN,
             Arrive(r, view, method, token, login)
      PROVE  Typing'
  <2>1. req' \in [Requests -> Thread]
    BY <1>1, ArriveFacts
  <2>2. kept' = [v \in Views |-> kept'[v]] /\ Held'
    BY <1>1, ArriveHolds
  <2>3. QED
    BY <1>0, <1>1, <2>1, <2>2 DEF Arrive, Shape, Typing
<1>2. ASSUME NEW r \in Requests, Load(r) PROVE Typing'
  <2>1. PICK pc \in {"ask", "judge"} : Moved(r, pc, cache[req[r].token], req[r].answer)
    BY <1>2, LoadFacts
  <2>2. req[r].pc \in Busy /\ pc \in Busy /\ pc # "permit" /\ kept' = kept
    BY <1>2 DEF Load, At, Busy
  <2>3. Held'
    BY <2>1, <2>2, MovedHolds
  <2>4. QED
    BY <1>0, <1>2, <2>1, <2>3 DEF Load, Shape, Typing, Moved
<1>3. ASSUME NEW r \in Requests, Answer(r) PROVE Typing'
  <2>1. PICK answer \in {"none", "active"} : Moved(r, "receive", req[r].row, answer)
    BY <1>3, AnswerFacts
  <2>2. req[r].pc \in Busy /\ "receive" \in Busy /\ kept' = kept
    BY <1>3 DEF Answer, At, Busy
  <2>3. Held'
    BY <2>1, <2>2, MovedHolds
  <2>4. QED
    BY <1>0, <1>3, <2>1, <2>3 DEF Answer, Shape, Typing, Moved
<1>4. ASSUME NEW r \in Requests, LoseAnswer(r) PROVE Typing'
  <2>1. Moved(r, "receive", req[r].row, "none")
    BY <1>4, LoseAnswerFacts
  <2>2. req[r].pc \in Busy /\ "receive" \in Busy /\ kept' = kept
    BY <1>4 DEF LoseAnswer, At, Busy
  <2>3. Held'
    BY <2>1, <2>2, MovedHolds
  <2>4. QED
    BY <1>0, <1>4, <2>1, <2>3 DEF LoseAnswer, Shape, Typing, Moved
<1>5. ASSUME NEW r \in Requests, Receive(r) PROVE Typing'
  <2>1. PICK row \in Rows : Moved(r, "judge", row, "none")
    BY <1>5, ReceiveFacts DEF Rows
  <2>2. req[r].pc \in Busy /\ "judge" \in Busy /\ kept' = kept
    BY <1>5 DEF Receive, At, Busy
  <2>3. Held'
    BY <2>1, <2>2, MovedHolds
  <2>4. cache' \in [Tokens -> Rows] /\ vouched' \in [Tokens -> Nat \union {None}]
    BY <1>0, <1>5, ReceiveFacts DEF Shape
  <2>5. QED
    BY <1>0, <1>5, <2>1, <2>3, <2>4 DEF Receive, Shape, Typing, Moved
<1>6. ASSUME NEW r \in Requests, Judge(r) PROVE Typing'
  <2>1. /\ req[r].pc \in Busy /\ "permit" \in Busy /\ kept' = kept
        /\ "token" \in Outcomes \ {"none"}
    BY <1>6 DEF Judge, At, Busy, Outcomes
  <2>2. Held' /\ req' \in [Requests -> Thread]
    <3>1. CASE /\ req[r].row # None /\ req[r].view.kind \in Permissions
               /\ Moved(r, "permit", req[r].row, req[r].answer)
      <4>1. Held'
        BY <2>1, <3>1, MovedHolds
      <4>2. QED
        BY <3>1, <4>1 DEF Moved
    <3>2. CASE \E outcome \in Outcomes \ {"none"} : Decided(r, outcome)
      <4>1. PICK outcome \in Outcomes \ {"none"} : Decided(r, outcome)
        BY <3>2
      <4>2. Held'
        BY <2>1, <4>1, DecidedHolds
      <4>3. QED
        BY <4>1, <4>2 DEF Decided
    <3>3. QED
      BY <1>6, <2>1, <3>1, <3>2, JudgeFacts
  <2>3. QED
    BY <1>0, <1>6, <2>2 DEF Judge, Shape, Typing
<1>7. ASSUME NEW r \in Requests, Permit(r) PROVE Typing'
  <2>1. /\ req[r].pc \in Busy /\ kept' = kept
        /\ "token" \in Outcomes \ {"none"} /\ "denied" \in Outcomes \ {"none"}
    BY <1>7 DEF Permit, At, Busy, Outcomes
  <2>2. PICK outcome \in Outcomes \ {"none"} : Decided(r, outcome)
    BY <1>7, <2>1, PermitFacts
  <2>3. Held'
    BY <2>1, <2>2, DecidedHolds
  <2>4. QED
    BY <1>0, <1>7, <2>2, <2>3 DEF Permit, Shape, Typing, Decided
<1>8. ASSUME NEW r \in Requests, Reply(r) PROVE Typing'
  <2>1. Held'
    BY <1>0, <1>8, ReplyFacts DEF Reply, Idle, Held, Holds, Busy, WithMethodScope
  <2>2. QED
    BY <1>0, <1>8, <2>1, ReplyFacts DEF Reply, Shape, Typing
<1>9. ASSUME NEW token \in Tokens, Revoke(token) PROVE Typing'
  BY <1>0, <1>9 DEF Revoke, Typing, Shape, Held, Holds, WithMethodScope
<1>10. CASE SelectExpired
  BY <1>0, <1>10 DEF SelectExpired, Typing, Shape, Held, Holds, WithMethodScope
<1>11. CASE DeleteSelected
  <2>1. cache' \in [Tokens -> Rows]
    BY <1>0, <1>11 DEF DeleteSelected, Shape, Rows
  <2>2. QED
    BY <1>0, <1>11, <2>1 DEF DeleteSelected, Typing, Shape, Held, Holds, WithMethodScope
<1>12. CASE Tick
  BY <1>0, <1>12, TimeAssumption DEF Tick, Typing, Shape, Held, Holds, WithMethodScope
<1>13. CASE UNCHANGED vars
  BY <1>0, <1>13 DEF vars, Typing, Shape, Held, Holds, WithMethodScope
<1>14. QED
  BY <1>1, <1>2, <1>3, <1>4, <1>5, <1>6, <1>7, <1>8, <1>9, <1>10, <1>11, <1>12, <1>13 DEF Next

LEMMA Typed == Spec => []Typing
<1>1. QED
  BY TypingInit, TypingStep, PTL DEF Spec

-----------------------------------------------------------------------------
(* What any step may do to a row, a token and a thread: the one lemma the  *)
(* invariants below rest on.                                               *)

(* The row lets the thread's token through its view, now.                  *)
Passes(r) ==
  /\ req[r].row # None
  /\ ~IsExpired(req[r].row, now)
  /\ \E scopes \in Requires(req[r].view, req[r].method) : scopes \subseteq req[r].row.scope

Fresh(r) == req'[r].row = None /\ req'[r].answer = "none" /\ req'[r].outcome # "token"

Onward(r) ==
  /\ req'[r].token = req[r].token /\ req'[r].view = req[r].view
  /\ req'[r].method = req[r].method
  /\ req'[r].outcome = "token" => req[r].outcome = "token" \/ Passes(r)
  /\ req'[r].answer = "active" => req[r].answer = "active" \/ req[r].token \in active
  /\ req'[r].row # None =>
       \/ req'[r].row = req[r].row
       \/ req'[r].row = cache[req[r].token]
       \/ /\ req[r].answer = "active"
          /\ req'[r].row = Learnt(req[r].token)
          /\ vouched'[req[r].token] = now

Kept(token) == cache'[token] \in {cache[token], None} /\ vouched'[token] = vouched[token]

Renewed(token) ==
  /\ \E r \in Requests : req[r].token = token /\ req[r].answer = "active"
  /\ cache'[token] = Learnt(token) /\ vouched'[token] = now

Effects ==
  /\ issued' = issued /\ active' \subseteq active /\ now' \in {now, now + 1}
  /\ \A token \in Tokens : Kept(token) \/ Renewed(token)
  /\ \A r \in Requests : Fresh(r) \/ Onward(r)

LEMMA SameOnward ==
  ASSUME NEW r \in Requests, req'[r] = req[r]
  PROVE  Onward(r)
  BY DEF Onward

LEMMA MovedOnward ==
  ASSUME Typing, NEW r \in Requests, NEW pc, NEW row, NEW answer, Moved(r, pc, row, answer),
         answer = "active" => req[r].answer = "active" \/ req[r].token \in active,
         row # None => \/ row = req[r].row
                       \/ row = cache[req[r].token]
                       \/ /\ req[r].answer = "active" /\ row = Learnt(req[r].token)
                          /\ vouched'[req[r].token] = now
  PROVE  \A x \in Requests : Fresh(x) \/ Onward(x)
<1>1. req[r] \in Thread
  BY DEF Typing, Shape
<1>2. /\ req'[r].row = row /\ req'[r].answer = answer
      /\ req'[r].token = req[r].token /\ req'[r].view = req[r].view
      /\ req'[r].method = req[r].method /\ req'[r].outcome = req[r].outcome
  BY <1>1 DEF Moved, Thread
<1>3. Onward(r)
  BY <1>2 DEF Onward
<1>4. QED
  BY <1>3, SameOnward DEF Moved

LEMMA DecidedOnward ==
  ASSUME Typing, NEW r \in Requests, NEW outcome, Decided(r, outcome),
         outcome = "token" => Passes(r)
  PROVE  \A x \in Requests : Fresh(x) \/ Onward(x)
<1>1. req[r] \in Thread
  BY DEF Typing, Shape
<1>2. /\ req'[r].row = None /\ req'[r].answer = req[r].answer
      /\ req'[r].token = req[r].token /\ req'[r].view = req[r].view
      /\ req'[r].method = req[r].method /\ req'[r].outcome = outcome
  BY <1>1 DEF Decided, Thread
<1>3. Onward(r)
  BY <1>2 DEF Onward
<1>4. QED
  BY <1>3, SameOnward DEF Decided

(* A view without a permission class is passed with the scopes             *)
(* verify_request was called with, one with a class with the class's.      *)
LEMMA JudgePasses ==
  ASSUME Typing, NEW r \in Requests, req[r].pc = "judge", req[r].row # None,
         IsValid(req[r].row, Scopes(r), now), req[r].view.kind \notin Permissions
  PROVE  Passes(r)
<1> DEFINE view == req[r].view
           kind == view.kind
<1>1. view \in Views /\ kind \in Kinds
  BY ViewsAssumption DEF Typing, Held, Holds
<1>2. ~IsExpired(req[r].row, now) /\ Scopes(r) \subseteq req[r].row.scope
  BY DEF IsValid, AllowScopes
<1>3. kind \in {"function", "scoped", "client", "rw_function", "rw_view", "backend"}
  BY <1>1 DEF Kinds, Decorated, ClassBased, Permissions
<1>4. \E scopes \in Requires(view, req[r].method) : scopes \subseteq Scopes(r)
  <2>1. CASE kind \in {"function", "scoped", "client"}
    BY <2>1 DEF Requires, PermissionScopes, Scopes, VerifiedScopes
  <2>2. CASE kind = "rw_function"
    <3>1. WithMethodScope(view, req[r].method) \subseteq kept[view]
      BY <2>2 DEF Typing, Held, Holds
    <3>2. QED
      BY <2>2, <3>1 DEF Requires, Scopes, VerifiedScopes
  <2>3. CASE kind = "rw_view"
    BY <2>3 DEF Requires, Scopes, VerifiedScopes
  <2>4. CASE kind = "backend"
    BY <2>4 DEF Requires
  <2>5. QED
    BY <1>3, <2>1, <2>2, <2>3, <2>4
<1>5. QED
  BY <1>2, <1>4 DEF Passes

LEMMA PermitPasses ==
  ASSUME NEW r \in Requests, req[r].row # None, req[r].view.kind \in Permissions,
         TokenPermits(req[r].view, req[r].method, req[r].row, now)
  PROVE  Passes(r)
<1>1. CASE req[r].view.kind = "oas"
  <2>1. /\ req[r].method \in DOMAIN req[r].view.declared
        /\ \E alternative \in req[r].view.declared[req[r].method] :
             IsValid(req[r].row, alternative, now)
    BY <1>1 DEF TokenPermits
  <2>2. Requires(req[r].view, req[r].method) = req[r].view.declared[req[r].method]
    BY <1>1, <2>1 DEF Requires
  <2>3. QED
    BY <2>1, <2>2 DEF Passes, IsValid, AllowScopes
<1>2. CASE req[r].view.kind # "oas"
  <2>1. IsValid(req[r].row, PermissionScopes(req[r].view, req[r].method), now)
    BY <1>2 DEF TokenPermits
  <2>2. Requires(req[r].view, req[r].method) = {PermissionScopes(req[r].view, req[r].method)}
    BY <1>2 DEF Requires, Permissions
  <2>3. QED
    BY <2>1, <2>2 DEF Passes, IsValid, AllowScopes
<1>3. QED
  BY <1>1, <1>2

LEMMA StepEffects ==
  ASSUME Typing, [Next]_vars
  PROVE  Effects
<1>0. /\ cache = [token \in Tokens |-> cache[token]]
      /\ vouched = [token \in Tokens |-> vouched[token]] /\ now \in Int
  BY TimeAssumption DEF Typing, Shape
<1> DEFINE Others == /\ issued' = issued /\ active' = active /\ now' = now
                     /\ UNCHANGED <<cache, vouched>>
<1>a. ASSUME Others, \A r \in Requests : Fresh(r) \/ Onward(r)
      PROVE  Effects
  BY <1>a DEF Effects, Kept
<1>1. ASSUME NEW r \in Requests, NEW view \in site, NEW method \in Methods,
             NEW token \in Tokens \union {None}, NEW login \in BOOLEAN,
             Arrive(r, view, method, token, login)
      PROVE  Effects
  <2>1. Fresh(r) /\ \A x \in Requests \ {r} : req'[x] = req[x]
    BY <1>1, ArriveFacts DEF Fresh
  <2>2. QED
    BY <1>1, <1>a, <2>1, SameOnward DEF Arrive
<1>2. ASSUME NEW r \in Requests, Load(r) PROVE Effects
  <2>1. PICK pc \in {"ask", "judge"} : Moved(r, pc, cache[req[r].token], req[r].answer)
    BY <1>2, LoadFacts
  <2>2. \A x \in Requests : Fresh(x) \/ Onward(x)
    BY <2>1, MovedOnward
  <2>3. QED
    BY <1>2, <1>a, <2>2 DEF Load
<1>3. ASSUME NEW r \in Requests, Answer(r) PROVE Effects
  <2>1. PICK answer \in {"none", "active"} :
          /\ Moved(r, "receive", req[r].row, answer)
          /\ answer = "active" => req[r].token \in active
    BY <1>3, AnswerFacts
  <2>2. \A x \in Requests : Fresh(x) \/ Onward(x)
    BY <2>1, MovedOnward
  <2>3. QED
    BY <1>3, <1>a, <2>2 DEF Answer
<1>4. ASSUME NEW r \in Requests, LoseAnswer(r) PROVE Effects
  <2>1. Moved(r, "receive", req[r].row, "none")
    BY <1>4, LoseAnswerFacts
  <2>2. \A x \in Requests : Fresh(x) \/ Onward(x)
    BY <2>1, MovedOnward
  <2>3. QED
    BY <1>4, <1>a, <2>2 DEF LoseAnswer
<1>5. ASSUME NEW r \in Requests, Receive(r) PROVE Effects
  <2>1. req[r].token \in Tokens /\ UNCHANGED <<issued, active, now>>
    BY <1>5, ReceiveFacts DEF Receive
  <2>2. CASE /\ req[r].answer = "active"
             /\ cache' = [cache EXCEPT ![req[r].token] = Learnt(req[r].token)]
             /\ vouched' = [vouched EXCEPT ![req[r].token] = now]
             /\ Moved(r, "judge", Learnt(req[r].token), "none")
    <3>1. vouched'[req[r].token] = now /\ cache'[req[r].token] = Learnt(req[r].token)
      BY <1>0, <2>1, <2>2
    <3>2. \A x \in Requests : Fresh(x) \/ Onward(x)
      BY <2>2, <3>1, MovedOnward
    <3>3. Renewed(req[r].token)
      BY <2>2, <3>1 DEF Renewed
    <3>4. \A token \in Tokens \ {req[r].token} : Kept(token)
      BY <1>0, <2>1, <2>2 DEF Kept
    <3>5. QED
      BY <2>1, <3>2, <3>3, <3>4 DEF Effects
  <2>3. CASE UNCHANGED <<cache, vouched>> /\ Moved(r, "judge", None, "none")
    <3>1. \A x \in Requests : Fresh(x) \/ Onward(x)
      BY <2>3, MovedOnward
    <3>2. QED
      BY <1>a, <2>1, <2>3, <3>1
  <2>4. QED
    BY <1>5, <2>2, <2>3, ReceiveFacts
<1>6. ASSUME NEW r \in Requests, Judge(r) PROVE Effects
  <2>1. req[r].pc = "judge" /\ Others
    BY <1>6 DEF Judge, At
  <2>2. CASE Moved(r, "permit", req[r].row, req[r].answer)
    <3>1. \A x \in Requests : Fresh(x) \/ Onward(x)
      BY <2>2, MovedOnward
    <3>2. QED
      BY <1>a, <2>1, <3>1
  <2>3. CASE /\ req[r].row # None /\ IsValid(req[r].row, Scopes(r), now)
             /\ req[r].view.kind \notin Permissions
             /\ Decided(r, "token")
    <3>1. Passes(r)
      BY <2>1, <2>3, JudgePasses
    <3>2. \A x \in Requests : Fresh(x) \/ Onward(x)
      BY <2>3, <3>1, DecidedOnward
    <3>3. QED
      BY <1>a, <2>1, <3>2
  <2>4. CASE \E outcome \in Outcomes \ {"none", "token"} : Decided(r, outcome)
    <3>1. PICK outcome \in Outcomes \ {"none", "token"} : Decided(r, outcome)
      BY <2>4
    <3>2. \A x \in Requests : Fresh(x) \/ Onward(x)
      BY <3>1, DecidedOnward
    <3>3. QED
      BY <1>a, <2>1, <3>2
  <2>5. QED
    BY <1>6, <2>2, <2>3, <2>4, JudgeFacts
<1>7. ASSUME NEW r \in Requests, Permit(r) PROVE Effects
  <2>1. Others /\ req[r].row # None /\ req[r].view.kind \in Permissions
    BY <1>7, PermitFacts DEF Permit
  <2>2. PICK outcome \in {"token", "denied"} :
          /\ Decided(r, outcome)
          /\ outcome = "token" => TokenPermits(req[r].view, req[r].method, req[r].row, now)
    BY <1>7, PermitFacts
  <2>3. outcome = "token" => Passes(r)
    BY <2>1, <2>2, PermitPasses
  <2>4. \A x \in Requests : Fresh(x) \/ Onward(x)
    BY <2>2, <2>3, DecidedOnward
  <2>5. QED
    BY <1>a, <2>1, <2>4
<1>8. ASSUME NEW r \in Requests, Reply(r) PROVE Effects
  <2>1. Fresh(r) /\ \A x \in Requests \ {r} : req'[x] = req[x]
    BY <1>8, ReplyFacts DEF Fresh, Idle
  <2>2. QED
    BY <1>8, <1>a, <2>1, SameOnward DEF Reply
<1>9. ASSUME UNCHANGED <<req, issued, vouched>>, active' \subseteq active, now' \in {now, now + 1},
             \A token \in Tokens : cache'[token] \in {cache[token], None}
      PROVE  Effects
  BY <1>9, SameOnward DEF Effects, Kept
<1>10. ASSUME NEW token \in Tokens, Revoke(token) PROVE Effects
  BY <1>9, <1>10 DEF Revoke
<1>11. CASE SelectExpired
  BY <1>9, <1>11 DEF SelectExpired
<1>12. CASE DeleteSelected
  BY <1>9, <1>12 DEF DeleteSelected
<1>13. CASE Tick
  BY <1>9, <1>13 DEF Tick
<1>14. CASE UNCHANGED vars
  BY <1>9, <1>14 DEF vars
<1>15. QED
  BY <1>1, <1>2, <1>3, <1>4, <1>5, <1>6, <1>7, <1>8, <1>10, <1>11, <1>12, <1>13, <1>14 DEF Next

-----------------------------------------------------------------------------
(* What a row is worth: a stored or held row repeats what the token was    *)
(* issued for and runs out no later than the last active answer allows.    *)
Good(row, grant, since) ==
  /\ row.scope = grant.scope
  /\ since \in Nat
  /\ row.expires <= since + CachingSeconds
  /\ grant.stated => row.expires <= grant.expires

Copies ==
  /\ \A token \in Tokens : vouched[token] # None => vouched[token] <= now
  /\ \A token \in Tokens : cache[token] # None => Good(cache[token], issued[token], vouched[token])
  /\ \A r \in Requests : req[r].row # None =>
       Good(req[r].row, issued[req[r].token], vouched[req[r].token])

(* A view that let a token in asked for no more than the token has.        *)
Granted == Typing /\ Copies /\ NeverUnderProtected

LEMMA GrantedInit == Init => Granted
<1> SUFFICES ASSUME Init PROVE Granted
  OBVIOUS
<1>1. Copies /\ NeverUnderProtected
  BY DEF Init, Copies, NeverUnderProtected, Idle
<1>2. QED
  BY <1>1, TypingInit DEF Granted

(* An answer may be renewed but never becomes older.                       *)
LEMMA GoodStays ==
  ASSUME Typing, Copies, Effects, NEW token \in Tokens, NEW row \in Rows \ {None},
         Good(row, issued[token], vouched[token])
  PROVE  Good(row, issued'[token], vouched'[token])
<1>1. /\ vouched[token] \in Nat /\ vouched[token] <= now /\ now \in Nat
      /\ row.expires \in Nat /\ CachingSeconds \in Nat
  BY TimeAssumption, CachingAssumption DEF Good, Copies, Typing, Shape, Rows
<1>2. vouched'[token] \in Nat /\ vouched[token] <= vouched'[token]
  BY <1>1 DEF Effects, Kept, Renewed
<1>3. row.expires <= vouched'[token] + CachingSeconds
  BY <1>1, <1>2 DEF Good
<1>4. QED
  BY <1>2, <1>3 DEF Good, Effects

LEMMA LearntGood ==
  ASSUME Typing, NEW token \in Tokens
  PROVE  Good(Learnt(token), issued[token], now)
<1>1. now \in Nat
  BY TimeAssumption DEF Typing, Shape
<1>2. /\ Learnt(token).expires = CachedUntil(token)
      /\ Learnt(token).scope = issued[token].scope
  BY DEF Learnt
<1>3. /\ CachedUntil(token) <= now + CachingSeconds
      /\ issued[token].stated => CachedUntil(token) <= issued[token].expires
  BY CachedUntilFacts DEF Typing
<1>4. QED
  BY <1>1, <1>2, <1>3 DEF Good

LEMMA GrantedStep == Granted /\ [Next]_vars => Granted'
<1> SUFFICES ASSUME Granted, [Next]_vars PROVE Granted'
  OBVIOUS
<1>0. Typing /\ Copies /\ NeverUnderProtected /\ Typing' /\ Effects
  BY TypingStep, StepEffects DEF Granted
<1>1. \A token \in Tokens : (vouched[token] # None => vouched[token] <= now)'
  BY <1>0, TimeAssumption DEF Effects, Kept, Renewed, Copies, Typing, Shape
<1>2. ASSUME NEW token \in Tokens, cache'[token] # None
      PROVE  Good(cache'[token], issued'[token], vouched'[token])
  <2>1. CASE Kept(token)
    <3>1. cache'[token] = cache[token] /\ cache[token] \in Rows \ {None}
      BY <1>0, <1>2, <2>1 DEF Kept, Typing, Shape
    <3>2. Good(cache[token], issued[token], vouched[token])
      BY <1>0, <3>1 DEF Copies
    <3>3. Good(cache[token], issued'[token], vouched'[token])
      BY <1>0, <3>1, <3>2, GoodStays
    <3>4. QED
      BY <3>1, <3>3
  <2>2. CASE Renewed(token)
    <3>1. vouched'[token] = now /\ cache'[token] = Learnt(token) /\ issued' = issued
      BY <1>0, <2>2 DEF Renewed, Effects
    <3>2. QED
      BY <1>0, <3>1, LearntGood
  <2>3. QED
    BY <1>0, <2>1, <2>2 DEF Effects
<1>3. ASSUME NEW r \in Requests, req'[r].row # None
      PROVE  Good(req'[r].row, issued'[req'[r].token], vouched'[req'[r].token])
  <2>1. Onward(r) /\ issued' = issued
    BY <1>0, <1>3 DEF Effects, Fresh
  <2> DEFINE token == req[r].token
             row == req'[r].row
  <2>2. token = req'[r].token /\ token \in Tokens
    BY <1>0, <1>3, <2>1 DEF Onward, Typing, Held, Holds
  <2>3. row \in Rows \ {None}
    BY <1>0, <1>3 DEF Typing, Shape, Thread
  <2>4. CASE row = req[r].row \/ row = cache[token]
    <3>1. Good(row, issued[token], vouched[token])
      BY <1>0, <2>2, <2>3, <2>4 DEF Copies
    <3> HIDE DEF row, token
    <3>2. Good(row, issued'[token], vouched'[token])
      BY <1>0, <2>2, <2>3, <3>1, GoodStays
    <3>3. QED
      BY <2>2, <3>2 DEF row, token
  <2>5. CASE row = Learnt(token) /\ vouched'[token] = now
    BY <1>0, <2>1, <2>2, <2>5, LearntGood
  <2>6. QED
    BY <1>3, <2>1, <2>4, <2>5 DEF Onward
<1>4. ASSUME NEW r \in Requests, req'[r].outcome = "token"
      PROVE  \E scopes \in Requires(req'[r].view, req'[r].method) :
               scopes \subseteq issued'[req'[r].token].scope
  <2>1. /\ Onward(r) /\ issued' = issued
        /\ req'[r].view = req[r].view /\ req'[r].method = req[r].method
        /\ req'[r].token = req[r].token
    BY <1>0, <1>4 DEF Effects, Fresh, Onward
  <2>2. \E scopes \in Requires(req[r].view, req[r].method) :
          scopes \subseteq issued[req[r].token].scope
    <3>1. CASE req[r].outcome = "token"
      BY <1>0, <3>1 DEF NeverUnderProtected
    <3>2. CASE Passes(r)
      BY <1>0, <3>2 DEF Passes, Copies, Good
    <3>3. QED
      BY <1>4, <2>1, <3>1, <3>2 DEF Onward
  <2>3. QED
    BY <2>1, <2>2
<1>5. Copies'
  BY <1>1, <1>2, <1>3 DEF Copies
<1>6. NeverUnderProtected'
  BY <1>4 DEF NeverUnderProtected, Requires, WithMethodScope, PermissionScopes
<1>7. QED
  BY <1>0, <1>5, <1>6 DEF Granted

LEMMA AlwaysGranted == Spec => []Granted
<1>1. QED
  BY GrantedInit, GrantedStep, PTL DEF Spec

-----------------------------------------------------------------------------
(* The theorems.                                                           *)

(* The rows, the shared scope lists and the threads keep the shape the     *)
(* handlers count on: a thread that judges has a token, one at its         *)
(* permission class a row, and every cached row its token's scope.         *)
THEOREM ResourceTypes == Spec => []TypeOK
<1>1. Granted => TypeOK
  <2> SUFFICES ASSUME Granted PROVE TypeOK
    OBVIOUS
  <2>1. Typing /\ Copies
    BY DEF Granted
  <2>2. \A token \in Tokens : cache[token] = None \/ cache[token].scope = issued[token].scope
    BY <2>1 DEF Copies, Good
  <2>3. ASSUME NEW r \in Requests
        PROVE  /\ req[r].pc \in {"idle", "load", "ask", "receive", "judge", "permit", "done"}
               /\ req[r].pc \in {"load", "ask", "receive", "judge", "permit"} =>
                    req[r].token \in Tokens
               /\ req[r].pc = "permit" => req[r].row # None
               /\ req[r].pc = "done" <=> req[r].outcome # "none"
    BY <2>1 DEF Typing, Shape, Held, Holds, Thread, Positions, Busy
  <2>4. QED
    BY <2>1, <2>2, <2>3 DEF TypeOK, Typing, Shape, Held
<1>2. QED
  BY <1>1, AlwaysGranted, PTL

(* However requests to one decorated view interleave on its shared scope   *)
(* list, whatever the answers and the clean-up do, a token opens a view    *)
(* only with every scope the view declares and its method calls for.       *)
THEOREM NeverUnderProtectedAlways == Spec => []NeverUnderProtected
<1>1. Granted => NeverUnderProtected
  BY DEF Granted
<1>2. QED
  BY <1>1, AlwaysGranted, PTL

(* A view is opened by a token only while the last active answer about it  *)
(* is less than CachingSeconds old and, when the answer states it, before  *)
(* the token's own expiry.                                                 *)
THEOREM VouchedForAlways == Spec => VouchedFor
<1>1. ASSUME Granted, [Next]_vars, NEW r \in Requests, Opens(r)
      PROVE  /\ vouched[req[r].token] # None
             /\ now < vouched[req[r].token] + CachingSeconds
             /\ issued[req[r].token].stated => now < issued[req[r].token].expires
  <2>1. Typing /\ Copies /\ Passes(r)
    BY <1>1, StepEffects DEF Granted, Effects, Fresh, Onward, Opens
  <2>2. req[r].row \in Rows \ {None} /\ req[r].token \in Tokens
    BY <2>1 DEF Passes, Typing, Shape, Thread, Held, Holds
  <2>3. /\ Good(req[r].row, issued[req[r].token], vouched[req[r].token])
        /\ now < req[r].row.expires
    <3>1. req[r].row.expires \in Nat /\ now \in Nat
      BY <2>1, <2>2, TimeAssumption DEF Rows, Typing, Shape
    <3>2. QED
      BY <2>1, <3>1 DEF Passes, IsExpired, Copies
  <2>4. /\ now \in Nat /\ req[r].row.expires \in Nat /\ vouched[req[r].token] \in Nat
        /\ CachingSeconds \in Nat /\ issued[req[r].token].expires \in Nat
    BY <2>1, <2>2, <2>3, TimeAssumption, CachingAssumption, GrantsAssumption
       DEF Rows, Typing, Shape, Good
  <2>5. QED
    BY <2>3, <2>4, TimeAssumption DEF Good
<1>2. Granted /\ [Next]_vars =>
        [\A r \in Requests : Opens(r) =>
           LET token == req[r].token
           IN  /\ vouched[token] # None
               /\ now < vouched[token] + CachingSeconds
               /\ issued[token].stated => now < issued[token].expires]_vars
  BY <1>1
<1>3. QED
  BY <1>2, AlwaysGranted, PTL DEF Spec, VouchedFor

(* A revoked token whose cached row has run out and about which nothing    *)
(* active is under way stays out for good.                                 *)
THEOREM RevokedStaysOutAlways == Spec => RevokedStaysOut
<1>1. ASSUME Typing, [Next]_vars, NEW token \in Tokens, Dead(token)
      PROVE  /\ Dead(token)'
             /\ \A r \in Requests : req[r].token = token => ~Opens(r)
  <2>1. Effects /\ Typing'
    BY <1>1, StepEffects, TypingStep
  <2>2. /\ now \in Nat /\ now' \in Nat /\ now <= now'
        /\ \A row \in Rows \ {None} : row.expires \in Nat
    BY <1>1, <2>1, TimeAssumption DEF Effects, Typing, Shape, Rows
  <2>3. \A row \in Rows : row = None \/ IsExpired(row, now) => row = None \/ IsExpired(row, now')
    BY <2>2 DEF IsExpired
  <2>4. Kept(token) /\ token \notin active'
    BY <1>1, <2>1 DEF Effects, Dead, Renewed
  <2>5. cache'[token] = None \/ IsExpired(cache'[token], now')
    BY <1>1, <2>3, <2>4 DEF Kept, Dead, Typing, Shape
  <2>6. ASSUME NEW r \in Requests, req'[r].token = token
        PROVE  /\ req'[r].answer # "active"
               /\ req'[r].row = None \/ IsExpired(req'[r].row, now')
    <3>1. CASE Fresh(r)
      BY <3>1 DEF Fresh
    <3>2. CASE Onward(r)
      <4>1. req[r].token = token /\ req[r].answer # "active"
        BY <1>1, <2>6, <3>2 DEF Onward, Dead
      <4>2. req'[r].answer # "active"
        BY <1>1, <3>2, <4>1 DEF Onward, Dead
      <4>3. req'[r].row = None \/ req'[r].row = req[r].row \/ req'[r].row = cache[token]
        BY <3>2, <4>1 DEF Onward
      <4>4. req[r].row \in Rows /\ cache[token] \in Rows
        BY <1>1 DEF Typing, Shape, Thread
      <4>5. /\ req[r].row = None \/ IsExpired(req[r].row, now)
            /\ cache[token] = None \/ IsExpired(cache[token], now)
        BY <1>1, <4>1 DEF Dead
      <4>6. QED
        BY <2>3, <4>2, <4>3, <4>4, <4>5
    <3>3. QED
      BY <2>1, <3>1, <3>2 DEF Effects
  <2>7. Dead(token)'
    BY <2>4, <2>5, <2>6 DEF Dead, IsExpired
  <2>8. ASSUME NEW r \in Requests, req[r].token = token
        PROVE  ~Opens(r)
    BY <1>1, <2>1, <2>8 DEF Effects, Fresh, Onward, Passes, Opens, Dead
  <2>9. QED
    BY <2>7, <2>8
<1>2. Typing /\ [Next]_vars =>
        [\A token \in Tokens : Dead(token) =>
           /\ Dead(token)'
           /\ \A r \in Requests : req[r].token = token => ~Opens(r)]_vars
  BY <1>1
<1>3. QED
  BY <1>2, Typed, PTL DEF Spec, RevokedStaysOut

-----------------------------------------------------------------------------
(* The leases.  What TokenLease sees of a thread, of a token's grant and of *)
(* the last answer about it.                                               *)
Word(r)      == IF req[r].answer = "active" THEN req[r].token ELSE None
Entry(r)     == IF req[r].outcome = "token" THEN req[r].token ELSE None
Limit(token) == IF issued[token].stated THEN issued[token].expires ELSE None

Words   == [r \in Requests |-> Word(r)]
Entries == [r \in Requests |-> Entry(r)]
Limits  == [token \in Tokens |-> Limit(token)]
Terms   == [token \in Tokens |-> Lease(token)]

LeaseStep == [Leases!Next]_(Leases!promise)

(* A row that is worth something runs out within the lease of its token.   *)
LEMMA WithinLease ==
  ASSUME Typing, NEW token \in Tokens, NEW row \in Rows \ {None},
         Good(row, issued[token], vouched[token])
  PROVE  Lease(token) \in Nat /\ row.expires <= Lease(token)
<1>1. /\ vouched[token] \in Nat /\ vouched[token] # None /\ CachingSeconds \in Nat
      /\ row.expires \in Nat /\ issued[token].expires \in Nat
  BY TimeAssumption, CachingAssumption, GrantsAssumption DEF Good, Typing, Shape, Rows
<1>2. row.expires <= vouched[token] + CachingSeconds
  BY DEF Good
<1>3. CASE issued[token].stated
  <2>1. Lease(token) = Min({issued[token].expires, vouched[token] + CachingSeconds})
    BY <1>1, <1>3 DEF Lease
  <2>a. issued[token].expires \in Int /\ vouched[token] + CachingSeconds \in Int
    BY <1>1
  <2>2. Lease(token) \in {issued[token].expires, vouched[token] + CachingSeconds}
    BY <2>1, <2>a, MinPair
  <2>3. row.expires <= issued[token].expires
    BY <1>3 DEF Good
  <2>4. QED
    BY <1>1, <1>2, <2>2, <2>3
<1>4. CASE ~issued[token].stated
  BY <1>1, <1>2, <1>4 DEF Lease
<1>5. QED
  BY <1>3, <1>4

(* A thread that passes does so while the lease of its token runs.         *)
LEMMA PassesOnLease ==
  ASSUME Granted, NEW r \in Requests, Passes(r), req[r].token \in Tokens
  PROVE  now < Lease(req[r].token)
<1> DEFINE token == req[r].token
           row == req[r].row
<1>1. Typing /\ Copies
  BY DEF Granted
<1>2. row \in Rows \ {None} /\ ~IsExpired(row, now)
  BY <1>1 DEF Passes, Typing, Shape, Thread
<1>3. Good(row, issued[token], vouched[token])
  BY <1>1, <1>2 DEF Copies
<1>4. now \in Nat /\ row.expires \in Nat
  BY <1>1, <1>2, TimeAssumption DEF Typing, Shape, Rows
<1>5. now < row.expires
  BY <1>2, <1>4 DEF IsExpired
<1> HIDE DEF row, token
<1>6. Lease(token) \in Nat /\ row.expires <= Lease(token)
  BY <1>1, <1>2, <1>3, WithinLease DEF token
<1>7. now < Lease(token)
  BY <1>4, <1>5, <1>6
<1>8. QED
  BY <1>7 DEF token

(* A new lease is no longer than an answer of now allows.                  *)
LEMMA NewLease ==
  ASSUME Typing, NEW token \in Tokens, issued' = issued, vouched'[token] = now
  PROVE  /\ Lease(token)' <= now + CachingSeconds
         /\ Limit(token) # None => Lease(token)' <= Limit(token)
<1>1. /\ now \in Nat /\ now # None /\ CachingSeconds \in Nat
      /\ issued[token].expires \in Nat
  BY TimeAssumption, CachingAssumption, GrantsAssumption DEF Typing, Shape
<1>2. CASE issued[token].stated
  <2>1. Lease(token)' = Min({issued[token].expires, now + CachingSeconds})
    BY <1>1, <1>2 DEF Lease
  <2>a. issued[token].expires \in Int /\ now + CachingSeconds \in Int
    BY <1>1
  <2>2. /\ Lease(token)' \in {issued[token].expires, now + CachingSeconds}
        /\ Lease(token)' <= issued[token].expires
        /\ Lease(token)' <= now + CachingSeconds
    BY <2>1, <2>a, MinPair
  <2>3. QED
    BY <1>2, <2>2 DEF Limit
<1>3. CASE ~issued[token].stated
  <2>1. Lease(token)' = now + CachingSeconds /\ Limit(token) = None
    BY <1>1, <1>3 DEF Lease, Limit
  <2>2. QED
    BY <1>1, <2>1
<1>4. QED
  BY <1>2, <1>3

LEMMA OneThread ==
  ASSUME NEW r \in Requests, \A x \in Requests \ {r} : req'[x] = req[x]
  PROVE  /\ Words' = [Words EXCEPT ![r] = Word(r)']
         /\ Entries' = [Entries EXCEPT ![r] = Entry(r)']
  BY DEF Words, Entries, Word, Entry

LEMMA SameTerms ==
  ASSUME UNCHANGED <<issued, vouched>>
  PROVE  UNCHANGED <<Limits, Terms>>
<1>1. \A token \in Tokens : Lease(token)' = Lease(token) /\ Limit(token)' = Limit(token)
  BY DEF Lease, Limit
<1>2. QED
  BY <1>1 DEF Limits, Terms

(* The steps of the leases, in the words of the threads.                   *)
Quiet == UNCHANGED <<issued, vouched, active, now>>

LEMMA StepLoses ==
  ASSUME Quiet, NEW r \in Requests, \A x \in Requests \ {r} : req'[x] = req[x],
         Entry(r)' = Entry(r), Word(r)' \in {Word(r), None}
  PROVE  LeaseStep
<1>1. /\ Words' = [Words EXCEPT ![r] = Word(r)']
      /\ Entries' = [Entries EXCEPT ![r] = Entry(r)']
  BY OneThread
<1>2. UNCHANGED <<Limits, Terms, Entries, active, now>>
  BY <1>1, SameTerms DEF Quiet, Entries
<1>3. CASE Word(r)' = None
  <2>1. Leases!Lose(r)
    BY <1>1, <1>2, <1>3
       DEF Leases!Lose, Words, Entries, Limits, Terms, Word, Entry, Limit
  <2>2. QED
    BY <2>1 DEF LeaseStep, Leases!Next
<1>4. CASE Word(r)' = Word(r)
  <2>1. UNCHANGED Words
    BY <1>1, <1>4 DEF Words
  <2>2. QED
    BY <1>2, <2>1
       DEF LeaseStep, Leases!promise, Words, Entries, Limits, Terms, Word, Entry, Limit
<1>5. QED
  BY <1>3, <1>4

LEMMA StepVouches ==
  ASSUME Quiet, NEW r \in Requests, \A x \in Requests \ {r} : req'[x] = req[x],
         Entry(r)' = Entry(r), Word(r)' \in active, active \subseteq Tokens
  PROVE  LeaseStep
<1>1. /\ Words' = [Words EXCEPT ![r] = Word(r)']
      /\ Entries' = [Entries EXCEPT ![r] = Entry(r)']
  BY OneThread
<1>2. UNCHANGED <<Limits, Terms, Entries, active, now>>
  BY <1>1, SameTerms DEF Quiet, Entries
<1>3. PICK token \in active : token = Word(r)'
  OBVIOUS
<1>4. Leases!Vouch(r, token)
  BY <1>1, <1>2, <1>3
     DEF Leases!Vouch, Words, Entries, Limits, Terms, Word, Entry, Limit
<1>5. token \in Tokens
  BY <1>3
<1>6. QED
  BY <1>4, <1>5 DEF LeaseStep, Leases!Next

LEMMA StepLetsIn ==
  ASSUME Quiet, NEW r \in Requests, \A x \in Requests \ {r} : req'[x] = req[x],
         Word(r)' = Word(r), NEW token \in Tokens, Entry(r)' = token, now < Lease(token)
  PROVE  LeaseStep
<1>1. /\ Words' = [Words EXCEPT ![r] = Word(r)']
      /\ Entries' = [Entries EXCEPT ![r] = Entry(r)']
  BY OneThread
<1>2. UNCHANGED <<Limits, Terms, Words, active, now>>
  BY <1>1, SameTerms DEF Quiet, Words
<1>3. Entries' = [Entries EXCEPT ![r] = token] /\ now < Terms[token]
  BY <1>1 DEF Terms
<1>4. Leases!LetIn(r, token)
  BY <1>2, <1>3
     DEF Leases!LetIn, Words, Entries, Limits, Terms, Word, Entry, Limit
<1>5. QED
  BY <1>4 DEF LeaseStep, Leases!Next

LEMMA StepCloses ==
  ASSUME Quiet, NEW r \in Requests, \A x \in Requests \ {r} : req'[x] = req[x],
         Word(r)' = None, Entry(r)' = None
  PROVE  LeaseStep
<1>1. /\ Words' = [Words EXCEPT ![r] = None] /\ Entries' = [Entries EXCEPT ![r] = None]
  BY OneThread
<1>2. UNCHANGED <<Limits, Terms, active, now>>
  BY SameTerms DEF Quiet
<1>3. Leases!Close(r)
  BY <1>1, <1>2
     DEF Leases!Close, Words, Entries, Limits, Terms, Word, Entry, Limit
<1>4. QED
  BY <1>3 DEF LeaseStep, Leases!Next

(* An active answer that arrives.                                          *)
LEMMA StepLearns ==
  ASSUME Typing, UNCHANGED <<issued, active, now>>, NEW r \in Requests,
         \A x \in Requests \ {r} : req'[x] = req[x], NEW token \in Tokens,
         Word(r) = token, Word(r)' = None, Entry(r)' = Entry(r),
         vouched' = [vouched EXCEPT ![token] = now]
  PROVE  LeaseStep
<1>1. /\ Words' = [Words EXCEPT ![r] = None] /\ Words[r] = token
      /\ Entries' = [Entries EXCEPT ![r] = Entry(r)]
  BY OneThread DEF Words
<1>2. UNCHANGED <<Limits, Entries, active, now>>
  BY <1>1 DEF Limits, Limit, Entries
<1>3. vouched'[token] = now /\ \A x \in Tokens \ {token} : vouched'[x] = vouched[x]
  BY DEF Typing, Shape
<1>4. \A x \in Tokens \ {token} : Lease(x)' = Lease(x)
  BY <1>3 DEF Lease
<1>5. Terms' = [Terms EXCEPT ![token] = Terms'[token]] /\ Terms'[token] = Lease(token)'
  BY <1>4 DEF Terms
<1>6. /\ Terms'[token] <= now + CachingSeconds
      /\ Limits[token] # None => Terms'[token] <= Limits[token]
  BY <1>3, <1>5, NewLease DEF Limits
<1>7. Words[r] # None
  <2>1. token # None
    BY TokensAssumption
  <2>2. QED
    BY <1>1, <2>1
<1>8. Leases!Learn(r)
  BY <1>1, <1>2, <1>5, <1>6, <1>7
     DEF Leases!Learn, Words, Entries, Limits, Terms, Word, Entry, Limit
<1>9. QED
  BY <1>8 DEF LeaseStep, Leases!Next

LEMMA LeaseNext == Granted /\ [Next]_vars => LeaseStep
<1> SUFFICES ASSUME Granted, [Next]_vars PROVE LeaseStep
  OBVIOUS
<1>0. Typing /\ Held /\ active \subseteq Tokens
  BY DEF Granted, Typing, Shape
<1>a. ASSUME NEW r \in Requests, req[r].pc # "done" PROVE Entry(r) = None
  BY <1>0, <1>a DEF Held, Holds, Entry
<1>b. ASSUME NEW r \in Requests, NEW pc, NEW row, NEW answer, Moved(r, pc, row, answer)
      PROVE  /\ Entry(r)' = Entry(r)
             /\ \A x \in Requests \ {r} : req'[x] = req[x]
             /\ Word(r)' = IF answer = "active" THEN req[r].token ELSE None
  BY <1>0, <1>b DEF Moved, Entry, Word, Typing, Shape, Thread
<1>c. ASSUME NEW r \in Requests, NEW outcome, Decided(r, outcome)
      PROVE  /\ Word(r)' = Word(r)
             /\ \A x \in Requests \ {r} : req'[x] = req[x]
             /\ Entry(r)' = IF outcome = "token" THEN req[r].token ELSE None
  BY <1>0, <1>c DEF Decided, Entry, Word, Typing, Shape, Thread
<1>1. ASSUME NEW r \in Requests, NEW view \in site, NEW method \in Methods,
             NEW token \in Tokens \union {None}, NEW login \in BOOLEAN,
             Arrive(r, view, method, token, login)
      PROVE  LeaseStep
  <2>1. /\ \A x \in Requests \ {r} : req'[x] = req[x]
        /\ Word(r)' = None /\ Entry(r)' = None
    BY <1>0, <1>1, ArriveFacts DEF Word, Entry
  <2>2. Quiet /\ Entry(r) = None
    BY <1>a, <1>1 DEF Arrive, At, Quiet
  <2>3. QED
    BY <2>1, <2>2, StepLoses
<1>2. ASSUME NEW r \in Requests, Load(r) PROVE LeaseStep
  <2>1. PICK pc \in {"ask", "judge"} : Moved(r, pc, cache[req[r].token], req[r].answer)
    BY <1>0, <1>2, LoadFacts
  <2>2. Quiet /\ Word(r)' = Word(r)
    BY <1>b, <1>2, <2>1 DEF Load, Quiet, Word
  <2>3. QED
    BY <1>b, <2>1, <2>2, StepLoses
<1>3. ASSUME NEW r \in Requests, Answer(r) PROVE LeaseStep
  <2>1. PICK answer \in {"none", "active"} :
          /\ Moved(r, "receive", req[r].row, answer)
          /\ answer = "active" => req[r].token \in active
    BY <1>0, <1>3, AnswerFacts
  <2>2. Quiet
    BY <1>3 DEF Answer, Quiet
  <2>3. CASE answer = "active"
    BY <1>0, <1>b, <2>1, <2>2, <2>3, StepVouches
  <2>4. CASE answer = "none"
    BY <1>b, <2>1, <2>2, <2>4, StepLoses
  <2>5. QED
    BY <2>3, <2>4
<1>4. ASSUME NEW r \in Requests, LoseAnswer(r) PROVE LeaseStep
  <2>1. Moved(r, "receive", req[r].row, "none")
    BY <1>0, <1>4, LoseAnswerFacts
  <2>2. Quiet
    BY <1>4 DEF LoseAnswer, Quiet
  <2>3. QED
    BY <1>b, <2>1, <2>2, StepLoses
<1>5. ASSUME NEW r \in Requests, Receive(r) PROVE LeaseStep
  <2>1. req[r].token \in Tokens /\ UNCHANGED <<issued, active, now>>
    BY <1>0, <1>5, ReceiveFacts DEF Receive
  <2>2. CASE /\ req[r].answer = "active"
             /\ vouched' = [vouched EXCEPT ![req[r].token] = now]
             /\ Moved(r, "judge", Learnt(req[r].token), "none")
    <3>1. Word(r) = req[r].token
      BY <2>2 DEF Word
    <3>2. /\ Entry(r)' = Entry(r) /\ Word(r)' = None
          /\ \A x \in Requests \ {r} : req'[x] = req[x]
      BY <1>b, <2>2
    <3>3. QED
      BY <1>0, <2>1, <2>2, <3>1, <3>2, StepLearns
  <2>3. CASE UNCHANGED <<cache, vouched>> /\ Moved(r, "judge", None, "none")
    <3>1. Quiet
      BY <2>1, <2>3 DEF Quiet
    <3>2. QED
      BY <1>b, <2>3, <3>1, StepLoses
  <2>4. QED
    BY <1>0, <1>5, <2>2, <2>3, ReceiveFacts
<1>6. ASSUME NEW r \in Requests, NEW outcome \in Outcomes, Decided(r, outcome), Quiet,
             req[r].pc \in {"judge", "permit"}, outcome = "token" => Passes(r)
      PROVE  LeaseStep
  <2>1. Word(r)' = Word(r) /\ Entry(r) = None /\ req[r].token \in Tokens
    BY <1>0, <1>a, <1>c, <1>6 DEF Held, Holds, Busy
  <2>2. CASE outcome = "token"
    <3>1. now < Lease(req[r].token)
      BY <1>6, <2>1, <2>2, PassesOnLease
    <3>2. QED
      BY <1>c, <1>6, <2>1, <2>2, <3>1, StepLetsIn
  <2>3. CASE outcome # "token"
    BY <1>c, <1>6, <2>1, <2>3, StepLoses
  <2>4. QED
    BY <2>2, <2>3
<1>7. ASSUME NEW r \in Requests, Judge(r) PROVE LeaseStep
  <2>1. req[r].pc = "judge" /\ Quiet
    BY <1>7 DEF Judge, At, Quiet
  <2>2. CASE Moved(r, "permit", req[r].row, req[r].answer)
    <3>1. Word(r)' = Word(r)
      BY <1>b, <2>2 DEF Word
    <3>2. QED
      BY <1>b, <2>1, <2>2, <3>1, StepLoses
  <2>3. CASE /\ req[r].row # None /\ IsValid(req[r].row, Scopes(r), now)
             /\ req[r].view.kind \notin Permissions
             /\ Decided(r, "token")
    <3>1. Passes(r) /\ "token" \in Outcomes
      BY <1>0, <2>1, <2>3, JudgePasses DEF Outcomes
    <3>2. QED
      BY <1>6, <2>1, <2>3, <3>1
  <2>4. CASE \E outcome \in Outcomes \ {"none", "token"} : Decided(r, outcome)
    BY <1>6, <2>1, <2>4
  <2>5. QED
    BY <1>0, <1>7, <2>2, <2>3, <2>4, JudgeFacts
<1>8. ASSUME NEW r \in Requests, Permit(r) PROVE LeaseStep
  <2>1. req[r].pc = "permit" /\ Quiet
    BY <1>8 DEF Permit, At, Quiet
  <2>2. PICK outcome \in {"token", "denied"} :
          /\ Decided(r, outcome)
          /\ outcome = "token" => TokenPermits(req[r].view, req[r].method, req[r].row, now)
    BY <1>0, <1>8, PermitFacts
  <2>3. outcome = "token" => Passes(r)
    BY <1>0, <1>8, <2>2, PermitFacts, PermitPasses
  <2>4. outcome \in Outcomes
    BY DEF Outcomes
  <2>5. QED
    BY <1>6, <2>1, <2>2, <2>3, <2>4
<1>9. ASSUME NEW r \in Requests, Reply(r) PROVE LeaseStep
  <2>1. /\ req'[r] = Idle /\ \A x \in Requests \ {r} : req'[x] = req[x]
        /\ Quiet
    BY <1>0, <1>9, ReplyFacts DEF Reply, Quiet
  <2>2. Word(r)' = None /\ Entry(r)' = None
    BY <2>1 DEF Word, Entry, Idle
  <2>3. QED
    BY <2>1, <2>2, StepCloses
<1>10. ASSUME UNCHANGED <<req, issued, vouched>>
       PROVE  UNCHANGED <<Limits, Terms, Words, Entries>>
  BY <1>10, SameTerms DEF Words, Entries, Word, Entry
<1>11. ASSUME NEW token \in Tokens, Revoke(token) PROVE LeaseStep
  <2>1. UNCHANGED <<Limits, Terms, Words, Entries, now>> /\ active' = active \ {token}
    BY <1>10, <1>11 DEF Revoke
  <2>2. Leases!Withdraw(token)
    BY <2>1 DEF Leases!Withdraw, Words, Entries, Limits, Terms, Word, Entry, Limit
  <2>3. QED
    BY <2>2 DEF LeaseStep, Leases!Next
<1>12. ASSUME UNCHANGED <<req, issued, vouched, active, now>> PROVE LeaseStep
  <2>1. UNCHANGED <<Limits, Terms, Words, Entries, active, now>>
    BY <1>10, <1>12
  <2>2. QED
    BY <2>1
       DEF LeaseStep, Leases!promise, Words, Entries, Limits, Terms, Word, Entry, Limit
<1>13. CASE Tick
  <2>1. UNCHANGED <<Limits, Terms, Words, Entries, active>> /\ now' = now + 1
    BY <1>10, <1>13 DEF Tick
  <2>2. Leases!Tick
    BY <2>1 DEF Leases!Tick, Words, Entries, Limits, Terms, Word, Entry, Limit
  <2>3. QED
    BY <2>2 DEF LeaseStep, Leases!Next
<1>14. CASE SelectExpired
  BY <1>12, <1>14 DEF SelectExpired
<1>15. CASE DeleteSelected
  BY <1>12, <1>15 DEF DeleteSelected
<1>16. CASE UNCHANGED vars
  BY <1>12, <1>16 DEF vars
<1>17. QED
  BY <1>1, <1>2, <1>3, <1>4, <1>5, <1>7, <1>8, <1>9, <1>11, <1>13, <1>14, <1>15, <1>16 DEF Next

LEMMA LeaseInit == Init => Leases!Init
<1> SUFFICES ASSUME Init PROVE Leases!Init
  OBVIOUS
<1>1. ASSUME NEW token \in Tokens
      PROVE  Limit(token) \in Nat \union {None} /\ Lease(token) = 0
  BY GrantsAssumption DEF Init, Limit, Lease
<1>2. ASSUME NEW r \in Requests PROVE Word(r) = None /\ Entry(r) = None
  BY DEF Init, Idle, Word, Entry
<1>3. Limits \in [Tokens -> Nat \union {None}] /\ Terms = [token \in Tokens |-> 0]
  BY <1>1 DEF Limits, Terms
<1>4. Words = [r \in Requests |-> None] /\ Entries = [r \in Requests |-> None]
  BY <1>2 DEF Words, Entries
<1>5. QED
  BY <1>3, <1>4 DEF Init, Leases!Init, Words, Entries, Limits, Terms, Word, Entry, Limit

(* ResourceServer implements TokenLease: with all its rows, copies and     *)
(* late answers, a view opens only on a lease that runs, and only an       *)
(* active answer of the authorization server renews a lease.               *)
THEOREM LeaseRefinement == Spec => ImplementsLeases
<1>1. Granted /\ [Next]_vars => [Leases!Next]_(Leases!promise)
  BY LeaseNext DEF LeaseStep
<1>2. QED
  BY <1>1, AlwaysGranted, LeaseInit, PTL DEF Spec, ImplementsLeases, Leases!Spec

-----------------------------------------------------------------------------
(* A revoked token about which no active answer is under way.              *)
Final(token) ==
  /\ token \notin active
  /\ \A r \in Requests : req[r].token = token => req[r].answer # "active"

RevokedRunsOut ==
  [][\A token \in Tokens : Final(token) =>
       /\ Final(token)'
       /\ Lease(token)' = Lease(token) /\ Lease(token) <= now + CachingSeconds
       /\ \A r \in Requests : req[r].token = token /\ Opens(r) => now < Lease(token)]_vars

LEMMA LeaseBound ==
  ASSUME Typing, Copies, NEW token \in Tokens
  PROVE  Lease(token) <= now + CachingSeconds
<1>1. now \in Nat /\ CachingSeconds \in Nat /\ issued[token].expires \in Nat
  BY TimeAssumption, CachingAssumption, GrantsAssumption DEF Typing, Shape
<1>2. CASE vouched[token] = None
  BY <1>1, <1>2 DEF Lease
<1>3. CASE vouched[token] # None
  <2>1. vouched[token] \in Nat /\ vouched[token] <= now
    BY <1>3 DEF Typing, Shape, Copies
  <2>2. vouched[token] + CachingSeconds <= now + CachingSeconds
    BY <1>1, <2>1
  <2>3. CASE issued[token].stated
    <3>1. Lease(token) = Min({issued[token].expires, vouched[token] + CachingSeconds})
      BY <1>3, <2>3 DEF Lease
    <3>2. issued[token].expires \in Int /\ vouched[token] + CachingSeconds \in Int
      BY <1>1, <2>1
    <3>3. /\ Lease(token) \in {issued[token].expires, vouched[token] + CachingSeconds}
          /\ Lease(token) <= vouched[token] + CachingSeconds
      BY <3>1, <3>2, MinPair
    <3>4. QED
      BY <1>1, <2>1, <2>2, <3>3
  <2>4. CASE ~issued[token].stated
    BY <1>3, <2>2, <2>4 DEF Lease
  <2>5. QED
    BY <2>3, <2>4
<1>4. QED
  BY <1>2, <1>3

(* Revocation reaches the resource server in time: once a token is revoked *)
(* and no active answer about it is under way, the last moment at which it *)
(* may open a view is fixed for good and at most CachingSeconds ahead,     *)
(* whatever rows are stored, copied or deleted.                            *)
THEOREM RevokedRunsOutAlways == Spec => RevokedRunsOut
<1>1. ASSUME Granted, [Next]_vars, NEW token \in Tokens, Final(token)
      PROVE  /\ Final(token)'
             /\ Lease(token)' = Lease(token) /\ Lease(token) <= now + CachingSeconds
             /\ \A r \in Requests : req[r].token = token /\ Opens(r) => now < Lease(token)
  <2>1. Typing /\ Copies /\ Effects
    BY <1>1, StepEffects DEF Granted
  <2>2. token \notin active'
    BY <1>1, <2>1 DEF Final, Effects
  <2>3. ASSUME NEW r \in Requests, req'[r].token = token PROVE req'[r].answer # "active"
    <3>1. CASE Fresh(r)
      BY <3>1 DEF Fresh
    <3>2. CASE Onward(r)
      BY <1>1, <2>3, <3>2 DEF Onward, Final
    <3>3. QED
      BY <2>1, <3>1, <3>2 DEF Effects
  <2>4. Final(token)'
    BY <2>2, <2>3 DEF Final
  <2>5. Kept(token) /\ issued' = issued
    BY <1>1, <2>1 DEF Effects, Renewed, Final
  <2>6. Lease(token)' = Lease(token)
    BY <2>5 DEF Kept, Lease
  <2>7. ASSUME NEW r \in Requests, req[r].token = token, Opens(r) PROVE now < Lease(token)
    <3>1. Passes(r)
      BY <2>1, <2>7 DEF Effects, Fresh, Onward, Opens
    <3>2. QED
      BY <1>1, <2>7, <3>1, PassesOnLease
  <2>8. QED
    BY <2>1, <2>4, <2>6, <2>7, LeaseBound
<1>2. Granted /\ [Next]_vars =>
        [\A token \in Tokens : Final(token) =>
           /\ Final(token)'
           /\ Lease(token)' = Lease(token) /\ Lease(token) <= now + CachingSeconds
           /\ \A r \in Requests : req[r].token = token /\ Opens(r) => now < Lease(token)]_vars
  BY <1>1
<1>3. QED
  BY <1>2, AlwaysGranted, PTL DEF Spec, RevokedRunsOut
=============================================================================
