-------------------------- MODULE MCClientRequests --------------------------
(* An instance of ClientRequests for model checking.                       *)
EXTENDS ClientRequests

Uri(scheme, host, port, path, query) ==
  [scheme |-> scheme, host |-> host, port |-> port, path |-> path, query |-> query]
Com(labels) == labels \o <<".", "com">>

Wild     == Uri("https", Com(<<"*", ".", "site">>), 443, "cb", {})
TooWide  == Uri("https", Com(<<"*">>), 443, "cb", {})
Exact    == Uri("https", Com(<<"www", ".", "site">>), 443, "cb", {"env"})
Local    == Uri("http", <<"127.0.0.1">>, 80, "cb", {})
Origin   == Uri("https", Com(<<"www", ".", "site">>), 443, "", {})

Requested ==
  {Uri("https", Com(<<"www", ".", "site">>), 443, "cb", query) : query \in {{}, {"env", "tab"}}}
    \union {Uri("http", <<"127.0.0.1">>, 9999, "cb", {}),
            Uri("https", Com(<<"other">>), 443, "cb", {})}

App(type, grant, secret, redirects, origins) ==
  [type |-> type, grant |-> grant, secret |-> secret, redirects |-> redirects, origins |-> origins]
MCApps ==
  {App("confidential", "authorization-code", "s1", {Wild, Exact}, {Origin}),
   App("public", "authorization-code", "s2", {Local}, {}),
   App("public", "device-code", "s2", {}, {}),
   App("confidential", "client-credentials", "s1", {}, {}),
   App("public", "implicit", "s2", {Exact}, {Origin}),
   App("public", "authorization-code", "s1", {TooWide}, {})}

Secrets == {"s1", "s2"}
Basics(id) == {None} \union [id : {id}, secret : Secrets]
MCTokenRequests ==
  {request \in [id : {"a", "b", None}, secret : Secrets \union {None}, basic : Basics("a"),
                grantType : {"authorization_code", "device_code", "client_credentials"},
                origin : {Origin}] : request.id = None => request.secret = None}

MCAuthRequests ==
  {request \in [id : {"a"}, redirect : Requested \union {None}, responseType : {"code", "token"},
                scope : {"read", "admin"}, challenge : BOOLEAN] :
     request.scope = "admin" => request.challenge}
=============================================================================
