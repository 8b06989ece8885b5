---------------------------- MODULE MCSessionEnd ----------------------------
(* An instance of SessionEnd for model checking.                           *)
EXTENDS SessionEnd

MCAccounts == {[user |-> "alice", app |-> "web"]}
=============================================================================
