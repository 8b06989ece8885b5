--------------------------- MODULE CodeLifecycle ---------------------------
(***************************************************************************)
(* What the authorization code grant promises, seen from outside: a code   *)
(* is swapped for tokens by at most one request.  A request claims a valid *)
(* code, then answers its client with the tokens or is lost; a code that   *)
(* nobody claims is dead once it has expired.                              *)
(***************************************************************************)
CONSTANT Codes

VARIABLE phase \* of each code

Init == phase = [c \in Codes |-> "unissued"]

Move(c, from, to) == phase[c] = from /\ phase' = [phase EXCEPT ![c] = to]

Issue(c)  == Move(c, "unissued", "valid")
Claim(c)  == Move(c, "valid", "claimed")
Answer(c) == Move(c, "claimed", "answered")
Lose(c)   == Move(c, "claimed", "dead")
Expire(c) == Move(c, "valid", "dead")

Next == \E c \in Codes : Issue(c) \/ Claim(c) \/ Answer(c) \/ Lose(c) \/ Expire(c)

Spec == Init /\ [][Next]_phase
=============================================================================
