-------------------------- MODULE MCResourceServer --------------------------
(* Instances of ResourceServer for model checking.                         *)
EXTENDS ResourceServer, TLC

CONSTANTS r1, r2

(* A token that reads, which the answers give an expiry, and one that does *)
(* everything, which they do not.                                          *)
MCGrants ==
  {[expires |-> 2, scope |-> {<<"read">>, <<"photos">>, <<"photos", "read">>}, stated |-> TRUE],
   [expires |-> 1, scope |-> {<<"read">>, <<"write">>, <<"photos">>}, stated |-> FALSE]}

Photos(kind) == [kind |-> kind, declared |-> {<<"photos">>}]
Alternatives ==
  [kind |-> "oas", declared |-> [m \in {"GET", "POST"} |->
     IF m = "GET" THEN {{<<"read">>}} ELSE {{<<"write">>}, {<<"photos">>, <<"upload">>}}]]

MCViews      == {Photos(kind) : kind \in Kinds \ {"oas"}} \union {Alternatives}
MCSites      == {{view} : view \in MCViews}
MCDecorated  == {Photos("rw_function")}
MCDecoratedSite == {MCDecorated}

ThreadSymmetry == Permutations({r1, r2})
=============================================================================
