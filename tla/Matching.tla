------------------------------ MODULE Matching ------------------------------
(***************************************************************************)
(* Which URIs an application may register, and which requested ones its    *)
(* registered URIs stand for.  A URI is [scheme, host, port, path, query]: *)
(* a host is the sequence of its atoms, dots and a wildcard among them     *)
(* (<<"*", "-pr", ".", "example", ".", "org">>), a query a set of pairs.   *)
(* An address such as 127.0.0.1 is one atom.                               *)
(*                                                                         *)
(* Operators named Faulty are definitions with a plausible bug, which no   *)
(* specification uses.                                                     *)
(***************************************************************************)
EXTENDS Integers, SequencesExt

CONSTANTS
  AllowWildcards,  \* ALLOW_URI_WILDCARDS
  RedirectSchemes, \* ALLOWED_REDIRECT_URI_SCHEMES
  OriginSchemes    \* ALLOWED_SCHEMES

Loopback == {<<"127.0.0.1">>, <<"::1">>}

Count(host, atom) == Cardinality({i \in DOMAIN host : host[i] = atom})
Wildcard(host)    == Len(host) > 0 /\ host[1] = "*"

(* redirect_to_uri_allowed, for one registered URI and for a set of them.  *)
HostMatches(host, allowed) ==
  IF AllowWildcards /\ Wildcard(allowed) THEN IsSuffix(Tail(allowed), host) ELSE host = allowed

PortMatches(uri, allowed) ==
  (allowed.scheme = "http" /\ allowed.host \in Loopback) \/ uri.port = allowed.port

UriMatches(uri, allowed) ==
  /\ uri.scheme = allowed.scheme
  /\ HostMatches(uri.host, allowed.host)
  /\ PortMatches(uri, allowed)
  /\ uri.path = allowed.path
  /\ allowed.query \subseteq uri.query

RedirectAllowed(uri, uris) == \E allowed \in uris : UriMatches(uri, allowed)

(* is_origin_allowed: scheme and netloc, a wildcard is not looked at.      *)
OriginAllowed(origin, origins) ==
  /\ origin.scheme \in OriginSchemes
  /\ \E allowed \in origins :
       allowed.scheme = origin.scheme /\ allowed.host = origin.host /\ allowed.port = origin.port

-----------------------------------------------------------------------------
(* AllowedURIValidator: at most one wildcard, at the start of a host of    *)
(* three parts or more.  With wildcards off only Django's pattern is left, *)
(* which no host that begins with one fits, but whose end is open.  The    *)
(* fragment, which a redirect URI may have, and the letters of a host are  *)
(* left out.                                                               *)
FaultyWildcardValid(host) ==
  Count(host, "*") = 1 /\ Wildcard(host) /\ Count(host, ".") >= 1
WildcardValid(host) ==
  Count(host, "*") = 1 /\ Wildcard(host) /\ Count(host, ".") >= 2

UriValid(uri, schemes, bare) ==
  /\ uri.scheme \in schemes
  /\ bare => uri.path = "" /\ uri.query = {}
  /\ "*" \in Range(uri.host) =>
       IF AllowWildcards THEN WildcardValid(uri.host) ELSE ~Wildcard(uri.host)

(* AbstractApplication.clean, without the signing algorithms.              *)
NeedsRedirect == {"authorization-code", "implicit", "openid-hybrid"}

Clean(app) ==
  /\ \A uri \in app.redirects : UriValid(uri, RedirectSchemes, FALSE)
  /\ app.grant \in NeedsRedirect => app.redirects # {}
  /\ \A uri \in app.origins : UriValid(uri, OriginSchemes, TRUE)

(* The domain of a host, for what is said of it: its last n labels.        *)
LastLabels(host, n) ==
  LET kept == {i \in DOMAIN host : Count(SubSeq(host, i, Len(host)), ".") < n}
  IN  SubSeq(host, Min(kept), Len(host))
=============================================================================
