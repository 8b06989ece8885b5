----------------------------- MODULE AccessRules -----------------------------
(***************************************************************************)
(* What a protected view asks of an access token: the checks a token row   *)
(* answers and the scopes each kind of view derives from its declaration   *)
(* and the request method.  A scope is the sequence of its parts, so that  *)
(* "photos:read" is <<"photos", "read">>.                                  *)
(*                                                                         *)
(* Operators named Faulty are definitions with a plausible bug, which no   *)
(* specification uses.                                                     *)
(***************************************************************************)
EXTENDS Integers, Sequences

READ  == "read"   \* the setting READ_SCOPE
WRITE == "write"  \* the setting WRITE_SCOPE

Methods     == {"GET", "POST", "OPTIONS"}
SafeMethods == {"GET", "OPTIONS"}

MethodScope(method) == IF method \in SafeMethods THEN READ ELSE WRITE

(* AbstractAccessToken.is_expired, allow_scopes and is_valid.              *)
FaultyIsExpired(token, time) == time > token.expires
IsExpired(token, time) == time >= token.expires

AllowScopes(token, scopes) == scopes \subseteq token.scope

FaultyIsValid(token, scopes, time) == AllowScopes(token, scopes)
IsValid(token, scopes, time) == ~IsExpired(token, time) /\ AllowScopes(token, scopes)

-----------------------------------------------------------------------------
(* A view is [kind, declared]: declared is a set of scopes, for "oas" a    *)
(* function from methods to alternatives, each of them a set of scopes.    *)
Decorated   == {"function", "rw_function"}                          \* decorators.py
ClassBased  == {"scoped", "rw_view", "client"}                      \* views/mixins.py
Permissions == {"read_write", "resource", "has_scope", "either", "oas"}  \* rest_framework
Kinds       == Decorated \union ClassBased \union Permissions \union {"backend"}

WithMethodScope(view, method) == view.declared \union {<<MethodScope(method)>>}

(* The scopes verify_request is called with.  A decorated read-write view  *)
(* hands over the list it keeps; the REST framework and the Django backend *)
(* authenticate with no scope at all.                                      *)
VerifiedScopes(view, method, kept) ==
  CASE view.kind \in {"function", "scoped", "client"} -> view.declared
    [] view.kind = "rw_function" -> kept
    [] view.kind = "rw_view" -> WithMethodScope(view, method)
    [] OTHER -> {}

(* get_scopes of the permission classes.                                   *)
PermissionScopes(view, method) ==
  CASE view.kind = "read_write" -> WithMethodScope(view, method)
    [] view.kind = "resource" -> {Append(scope, MethodScope(method)) : scope \in view.declared}
    [] OTHER -> view.declared

(* has_permission of the classes, for a request its token authenticated.   *)
TokenPermits(view, method, token, time) ==
  IF view.kind = "oas"
  THEN /\ method \in DOMAIN view.declared
       /\ \E alternative \in view.declared[method] : IsValid(token, alternative, time)
  ELSE IsValid(token, PermissionScopes(view, method), time)
=============================================================================
