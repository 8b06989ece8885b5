--------------------------- MODULE MatchingProofs ---------------------------
(***************************************************************************)
(* What Matching does to hosts of any length: a wildcard lets its own host *)
(* through, and all it lets through has the domain it was registered with. *)
(***************************************************************************)
EXTENDS Matching, TLAPS, SequenceTheorems, FiniteSetTheorems, WellFoundedInduction

(* A registered URI stands for itself, wildcard or not.                    *)
LEMMA TailIsSuffix ==
  ASSUME NEW host \in Seq(STRING), Len(host) > 0
  PROVE  IsSuffix(Tail(host), host)
<1> DEFINE tail == Tail(host)
           n == Len(host)
<1>1. /\ tail \in Seq(STRING) /\ Len(tail) = n - 1 /\ n \in Nat /\ n # 0
      /\ \A i \in 1 .. n - 1 : tail[i] = host[i + 1]
  <2>1. host # <<>>
    OBVIOUS
  <2>2. QED
    BY <2>1, HeadTailProperties
<1> HIDE DEF tail, n
<1>2. /\ Reverse(tail) = [i \in 1 .. n - 1 |-> tail[n - 1 - i + 1]]
      /\ Reverse(host) = [i \in 1 .. n |-> host[n - i + 1]]
  BY <1>1 DEF Reverse, n
<1>3. Reverse(tail) \in Seq(STRING) /\ Len(Reverse(tail)) = n - 1
  <2>1. \A i \in 1 .. n - 1 : n - 1 - i + 1 \in 1 .. n - 1 /\ tail[n - 1 - i + 1] \in STRING
    BY <1>1
  <2>2. QED
    BY <1>1, <1>2, <2>1
<1>4. Reverse(host) \in Seq(STRING) /\ Len(Reverse(host)) = n
  <2>1. \A i \in 1 .. n : n - i + 1 \in 1 .. n /\ host[n - i + 1] \in STRING
    BY <1>1 DEF n
  <2>2. QED
    BY <1>1, <1>2, <2>1
<1>5. \A i \in 1 .. n - 1 : Reverse(tail)[i] = Reverse(host)[i]
  <2> TAKE i \in 1 .. n - 1
  <2>1. n - 1 - i + 1 \in 1 .. n - 1 /\ n - 1 - i + 1 + 1 = n - i + 1
    BY <1>1
  <2>2. tail[n - 1 - i + 1] = host[n - i + 1]
    BY <1>1, <2>1
  <2>3. QED
    BY <1>1, <1>2, <2>2
<1>6. SubSeq(Reverse(tail), 1, n - 1) = SubSeq(Reverse(host), 1, n - 1)
  <2> DEFINE s == Reverse(tail)
             t == Reverse(host)
  <2>1. s \in Seq(STRING) /\ t \in Seq(STRING) /\ Len(s) = n - 1 /\ Len(t) = n
    BY <1>3, <1>4
  <2>2. \A i \in 1 .. n - 1 : s[i] = t[i]
    BY <1>5
  <2> HIDE DEF s, t
  <2>3. SubSeq(s, 1, n - 1) = [i \in 1 .. n - 1 |-> s[i]]
    BY <1>1, <2>1
  <2>4. SubSeq(t, 1, n - 1) = [i \in 1 .. n - 1 |-> t[i]]
    BY <1>1, <2>1
  <2>5. QED
    BY <2>2, <2>3, <2>4 DEF s, t
<1>7. QED
  BY <1>1, <1>3, <1>4, <1>6 DEF IsSuffix, IsPrefix, tail

LEMMA MatchesItself ==
  ASSUME NEW uri, uri.host \in Seq(STRING)
  PROVE  UriMatches(uri, uri)
<1>1. HostMatches(uri.host, uri.host)
  BY TailIsSuffix DEF HostMatches, Wildcard
<1>2. QED
  BY <1>1 DEF UriMatches, PortMatches

-----------------------------------------------------------------------------
(* The end of t that IsSuffix compares with s is s, position by position.  *)
LEMMA SuffixPoints ==
  ASSUME NEW s \in Seq(STRING), NEW t \in Seq(STRING), IsSuffix(s, t)
  PROVE  /\ Len(s) <= Len(t)
         /\ \A i \in 1 .. Len(s) : s[i] = t[i + (Len(t) - Len(s))]
<1> DEFINE m == Len(s)
           n == Len(t)
           rs == Reverse(s)
           rt == Reverse(t)
<1>1. m \in Nat /\ n \in Nat
  OBVIOUS
<1>2. /\ rs = [i \in 1 .. m |-> s[m - i + 1]] /\ rt = [i \in 1 .. n |-> t[n - i + 1]]
  BY DEF Reverse
<1>3. rs \in Seq(STRING) /\ rt \in Seq(STRING) /\ Len(rs) = m /\ Len(rt) = n
  <2>1. \A i \in 1 .. m : m - i + 1 \in 1 .. m /\ s[m - i + 1] \in STRING
    BY <1>1
  <2>2. \A i \in 1 .. n : n - i + 1 \in 1 .. n /\ t[n - i + 1] \in STRING
    BY <1>1
  <2> HIDE DEF rs, rt
  <2>3. QED
    BY <1>1, <1>2, <2>1, <2>2
<1>4. m <= n /\ SubSeq(rs, 1, m) = SubSeq(rt, 1, m)
  BY <1>3 DEF IsSuffix, IsPrefix
<1> HIDE DEF rs, rt
<1>5. \A i \in 1 .. m : rs[i] = rt[i]
  <2>1. SubSeq(rs, 1, m) = [i \in 1 .. m |-> rs[i]] /\ SubSeq(rt, 1, m) = [i \in 1 .. m |-> rt[i]]
    BY <1>1, <1>3, <1>4
  <2> HIDE DEF m, n
  <2>2. QED
    BY <1>4, <2>1
<1>6. ASSUME NEW i \in 1 .. m PROVE s[i] = t[i + (n - m)]
  <2>1. m - i + 1 \in 1 .. m /\ m - i + 1 \in 1 .. n
        /\ m - (m - i + 1) + 1 = i /\ n - (m - i + 1) + 1 = i + (n - m)
    BY <1>1, <1>4
  <2>2. rs[m - i + 1] = rt[m - i + 1]
    BY <1>5, <2>1
  <2> HIDE DEF m, n
  <2>3. QED
    BY <1>2, <2>1, <2>2
<1>7. QED
  BY <1>4, <1>6

-----------------------------------------------------------------------------
(* The dots of a host from position i on, as positions of the host.        *)
DotsFrom(host, i) == {k \in i .. Len(host) : host[k] = "."}

LEMMA CountFrom ==
  ASSUME NEW host \in Seq(STRING), NEW i \in 1 .. Len(host)
  PROVE  /\ IsFiniteSet(DotsFrom(host, i))
         /\ Count(SubSeq(host, i, Len(host)), ".") = Cardinality(DotsFrom(host, i))
         /\ Cardinality(DotsFrom(host, i)) \in Nat
<1> DEFINE n == Len(host)
           rest == SubSeq(host, i, n)
           S == {k \in DOMAIN rest : rest[k] = "."}
           T == DotsFrom(host, i)
           f == [k \in S |-> k + (i - 1)]
<1>1. n \in Nat /\ i \in Nat /\ 1 <= i /\ i <= n
  OBVIOUS
<1>2. /\ DOMAIN rest = 1 .. n - i + 1
      /\ \A k \in 1 .. n - i + 1 : rest[k] = host[k + (i - 1)]
  BY <1>1
<1>3. S \subseteq 1 .. n - i + 1 /\ \A k \in S : rest[k] = "." 
  BY <1>2
<1> HIDE DEF n, rest
<1>4. IsFiniteSet(S)
  <2>1. IsFiniteSet(1 .. n - i + 1)
    BY <1>1, FS_Interval
  <2>2. QED
    BY <1>3, <2>1, FS_Subset
<1>5. f \in Bijection(S, T)
  <2>1. \A k \in S : k + (i - 1) \in T
    BY <1>1, <1>2, <1>3 DEF DotsFrom, n
  <2>2. \A k \in T : k - (i - 1) \in S /\ k = (k - (i - 1)) + (i - 1)
    BY <1>1, <1>2 DEF DotsFrom, n
  <2>3. \A k, l \in S : k + (i - 1) = l + (i - 1) => k = l
    BY <1>1, <1>3
  <2> HIDE DEF S, T
  <2>4. f \in [S -> T]
    BY <2>1
  <2>5. f \in Injection(S, T)
    BY <2>3, <2>4 DEF Injection, IsInjective
  <2>6. \A k \in T : \E l \in S : f[l] = k
    BY <2>2
  <2>7. QED
    BY <2>4, <2>5, <2>6 DEF Bijection, Surjection
<1>6. IsFiniteSet(T) /\ Cardinality(T) = Cardinality(S)
  <2> HIDE DEF S, T, f
  <2>1. QED
  BY <1>4, <1>5, FS_Bijection DEF ExistsBijection
<1>7. Cardinality(T) \in Nat
  BY <1>6, FS_CardinalityType
<1>8. Count(rest, ".") = Cardinality(S)
  BY DEF Count
<1>9. QED
  BY <1>6, <1>7, <1>8 DEF n, rest

LEMMA FewerDots ==
  ASSUME NEW host \in Seq(STRING), NEW i \in 1 .. Len(host), NEW j \in 1 .. Len(host), i <= j
  PROVE  Cardinality(DotsFrom(host, j)) <= Cardinality(DotsFrom(host, i))
<1>1. DotsFrom(host, j) \subseteq DotsFrom(host, i)
  BY DEF DotsFrom
<1>2. QED
  BY <1>1, CountFrom, FS_Subset

LEMMA MinExists ==
  ASSUME NEW S \in SUBSET Nat, S # {}
  PROVE  Min(S) \in S /\ \A y \in S : Min(S) <= y
<1>1. \E x \in S : \A y \in S : ~(<<y, x>> \in OpToRel(<, Nat))
  BY NatLessThanWellFounded, WFMin
<1>2. PICK x \in S : \A y \in S : ~(<<y, x>> \in OpToRel(<, Nat))
  BY <1>1
<1>3. ASSUME NEW y \in S PROVE x <= y
  <2>1. ~(y < x)
    <3>1. <<y, x>> \in Nat \X Nat /\ <<y, x>>[1] = y /\ <<y, x>>[2] = x
      OBVIOUS
    <3>2. y < x => <<y, x>> \in OpToRel(<, Nat)
      BY <3>1 DEF OpToRel
    <3>3. QED
      BY <1>2, <3>2
  <2>2. QED
    BY <2>1
<1>4. QED
  BY <1>3 DEF Min

(* Where the last two labels of a host begin: fewer than two dots follow.  *)
Kept(host) == {i \in DOMAIN host : Count(SubSeq(host, i, Len(host)), ".") < 2}

LEMMA KeptPositions ==
  ASSUME NEW host \in Seq(STRING), Len(host) > 0
  PROVE  /\ Kept(host) \in SUBSET Nat
         /\ Len(host) \in Kept(host)
         /\ \A i \in 1 .. Len(host) : i \in Kept(host) <=> Cardinality(DotsFrom(host, i)) < 2
<1> DEFINE n == Len(host)
<1>1. n \in 1 .. n /\ DOMAIN host = 1 .. n /\ n \in Nat
  OBVIOUS
<1>2. \A i \in 1 .. n : i \in Kept(host) <=> Cardinality(DotsFrom(host, i)) < 2
  BY <1>1, CountFrom DEF Kept
<1>3. DotsFrom(host, n) \in SUBSET {n}
  BY <1>1 DEF DotsFrom
<1>4. Cardinality(DotsFrom(host, n)) <= 1
  <2>1. IsFiniteSet({n}) /\ Cardinality({n}) = 1
    BY FS_Singleton
  <2> HIDE DEF n
  <2>2. QED
    BY <1>3, <2>1, FS_Subset
<1>5. n \in Kept(host)
  BY <1>1, <1>2, <1>4, CountFrom
<1>6. Kept(host) \in SUBSET Nat
  BY <1>1 DEF Kept
<1>7. QED
  BY <1>2, <1>5, <1>6

(* Hosts with the same end after a wildcard that two dots follow have the  *)
(* same last two labels.                                                   *)
LEMMA SameLastLabels ==
  ASSUME NEW host \in Seq(STRING), NEW allowed \in Seq(STRING),
         Len(allowed) > 0, allowed[1] # ".", Count(allowed, ".") >= 2,
         IsSuffix(Tail(allowed), host)
  PROVE  LastLabels(allowed, 2) = LastLabels(host, 2)
<1> DEFINE n == Len(allowed)
           m == Len(host)
           d == m - n
<1>1. n \in Nat /\ m \in Nat /\ d \in Int /\ n >= 1
  OBVIOUS
<1>2. n - 1 <= m /\ \A i \in 2 .. n : allowed[i] = host[i + d]
  <2> DEFINE tail == Tail(allowed)
  <2>1. tail \in Seq(STRING) /\ Len(tail) = n - 1 /\ \A i \in 1 .. n - 1 : tail[i] = allowed[i + 1]
    <3>1. allowed # <<>>
      OBVIOUS
    <3>2. QED
      BY <3>1, HeadTailProperties
  <2>2. Len(tail) <= m /\ \A i \in 1 .. Len(tail) : tail[i] = host[i + (m - Len(tail))]
    BY <2>1, SuffixPoints
  <2> HIDE DEF tail
  <2>3. ASSUME NEW i \in 2 .. n PROVE allowed[i] = host[i + d]
    <3>1. i - 1 \in 1 .. n - 1 /\ (i - 1) + 1 = i /\ (i - 1) + (m - (n - 1)) = i + d
      BY <1>1
    <3>2. tail[i - 1] = host[(i - 1) + (m - (n - 1))] /\ tail[i - 1] = allowed[(i - 1) + 1]
      BY <2>1, <2>2, <3>1
    <3> HIDE DEF n, m, d
    <3>3. QED
      BY <3>1, <3>2
  <2>4. n - 1 <= m
    BY <2>1, <2>2
  <2>5. QED
    BY <2>3, <2>4
<1>3. ASSUME NEW i \in 2 .. n
      PROVE  /\ i + d \in 1 .. m
             /\ SubSeq(allowed, i, n) = SubSeq(host, i + d, m)
  <2>1. i + d \in 1 .. m /\ n - i = m - (i + d)
    BY <1>1, <1>2
  <2>2. SubSeq(allowed, i, n) = [k \in 1 .. n - i + 1 |-> allowed[k + i - 1]]
    BY <1>1
  <2>3. SubSeq(host, i + d, m) = [k \in 1 .. m - (i + d) + 1 |-> host[k + (i + d) - 1]]
    BY <1>1, <2>1
  <2>4. \A k \in 1 .. n - i + 1 : /\ k + i - 1 \in 2 .. n
                                  /\ (k + i - 1) + d = k + (i + d) - 1
    BY <1>1
  <2> HIDE DEF n, m, d
  <2>5. \A k \in 1 .. n - i + 1 : allowed[k + i - 1] = host[k + (i + d) - 1]
    BY <1>2, <2>4
  <2>6. QED
    BY <2>1, <2>2, <2>3, <2>5
<1>4. /\ n >= 2
      /\ \A i \in {1, 2} : Cardinality(DotsFrom(allowed, i)) \in Nat
                         /\ Cardinality(DotsFrom(allowed, i)) >= 2
  <2>1. SubSeq(allowed, 1, n) = allowed /\ 1 \in 1 .. n
    BY <1>1
  <2>2. /\ Count(allowed, ".") = Cardinality(DotsFrom(allowed, 1))
        /\ Cardinality(DotsFrom(allowed, 1)) \in Nat
    <3>1. Count(SubSeq(allowed, 1, n), ".") = Cardinality(DotsFrom(allowed, 1))
      BY <2>1, CountFrom
    <3>2. QED
      BY <2>1, <3>1, CountFrom
  <2>3. DotsFrom(allowed, 1) = DotsFrom(allowed, 2)
    BY <1>1 DEF DotsFrom
  <2>4. n # 1
    <3> SUFFICES ASSUME n = 1 PROVE FALSE
      OBVIOUS
    <3>1. DotsFrom(allowed, 2) = {}
      BY DEF DotsFrom
    <3>2. Cardinality(DotsFrom(allowed, 2)) = 0
      BY <3>1, FS_EmptySet
    <3>3. QED
      BY <2>2, <2>3, <3>2
  <2> HIDE DEF n
  <2>5. n >= 2
    BY <1>1, <2>4
  <2>6. Cardinality(DotsFrom(allowed, 1)) >= 2
    BY <2>2
  <2>7. QED
    BY <2>2, <2>3, <2>5, <2>6
<1>5. ASSUME NEW i \in 2 .. n
      PROVE  Cardinality(DotsFrom(allowed, i)) = Cardinality(DotsFrom(host, i + d))
  <2>1. i \in 1 .. n /\ i + d \in 1 .. m
    BY <1>1, <1>3
  <2>2. Count(SubSeq(allowed, i, n), ".") = Count(SubSeq(host, i + d, m), ".")
    BY <1>3
  <2>3. Count(SubSeq(allowed, i, n), ".") = Cardinality(DotsFrom(allowed, i))
    BY <2>1, CountFrom
  <2>4. Count(SubSeq(host, i + d, m), ".") = Cardinality(DotsFrom(host, i + d))
    BY <2>1, CountFrom
  <2>5. QED
    BY <2>2, <2>3, <2>4
<1>6. m > 0 /\ 2 + d \in 1 .. m
  BY <1>1, <1>3, <1>4
<1> HIDE DEF n, m, d
<1>7. /\ Kept(allowed) \in SUBSET Nat /\ Kept(allowed) # {}
      /\ Kept(host) \in SUBSET Nat /\ Kept(host) # {}
      /\ Kept(allowed) \subseteq 1 .. n /\ Kept(host) \subseteq 1 .. m
  <2>1. Kept(allowed) \subseteq 1 .. n /\ Kept(host) \subseteq 1 .. m
    BY DEF Kept, n, m
  <2>2. QED
    BY <1>6, <2>1, KeptPositions DEF m
<1>8. ASSUME NEW i \in Kept(allowed) PROVE i \in 3 .. n /\ i + d \in Kept(host)
  <2>1. i \in 1 .. n /\ Cardinality(DotsFrom(allowed, i)) < 2
    BY <1>7, KeptPositions DEF n
  <2>2. i # 1 /\ i # 2
    BY <1>4, <2>1
  <2>3. i \in 3 .. n /\ i \in 2 .. n
    BY <1>1, <2>1, <2>2
  <2>4. i + d \in 1 .. m /\ Cardinality(DotsFrom(host, i + d)) < 2
    BY <1>3, <1>5, <2>1, <2>3
  <2>5. QED
    BY <1>6, <2>3, <2>4, KeptPositions DEF m
<1>9. ASSUME NEW j \in Kept(host) PROVE j - d \in Kept(allowed)
  <2>1. j \in 1 .. m /\ Cardinality(DotsFrom(host, j)) < 2
    BY <1>6, <1>7, KeptPositions DEF m
  <2>2. Cardinality(DotsFrom(host, 2 + d)) >= 2
    BY <1>1, <1>4, <1>5
  <2>3. CASE j <= 2 + d
    <3>1. Cardinality(DotsFrom(host, 2 + d)) <= Cardinality(DotsFrom(host, j))
      BY <1>6, <2>1, <2>3, FewerDots DEF m
    <3>2. Cardinality(DotsFrom(host, 2 + d)) \in Nat /\ Cardinality(DotsFrom(host, j)) \in Nat
      BY <1>6, <2>1, CountFrom DEF m
    <3>3. QED
      BY <2>1, <2>2, <3>1, <3>2
  <2>4. CASE ~(j <= 2 + d)
    <3>1. j - d \in 2 .. n /\ (j - d) + d = j /\ j - d \in 1 .. n
      BY <1>1, <2>1, <2>4 DEF d
    <3>2. Cardinality(DotsFrom(allowed, j - d)) < 2
      BY <1>5, <2>1, <3>1
    <3>3. QED
      BY <3>1, <3>2, KeptPositions DEF n
  <2>5. QED
    BY <2>3, <2>4
<1> DEFINE a == Min(Kept(allowed))
           b == Min(Kept(host))
<1>10. /\ a \in Kept(allowed) /\ \A i \in Kept(allowed) : a <= i
       /\ b \in Kept(host) /\ \A j \in Kept(host) : b <= j
  BY <1>7, MinExists
<1> HIDE DEF a, b
<1>11. b = a + d /\ a \in 2 .. n
  <2>1. b <= a + d /\ a <= b - d
    BY <1>8, <1>9, <1>10
  <2>2. a \in 3 .. n /\ b \in 1 .. m
    BY <1>7, <1>8, <1>10
  <2>3. QED
    BY <1>1, <2>1, <2>2
<1>12. SubSeq(allowed, a, n) = SubSeq(host, b, m)
  BY <1>3, <1>11
<1>13. LastLabels(allowed, 2) = SubSeq(allowed, a, n) /\ LastLabels(host, 2) = SubSeq(host, b, m)
  BY DEF LastLabels, Kept, a, b, n, m
<1>14. QED
  BY <1>12, <1>13

-----------------------------------------------------------------------------
(* A redirect URI that a cleaned registered URI lets through is in its     *)
(* domain: a wildcard with two dots after it cannot reach another one.  It *)
(* keeps the port too, loopback addresses apart, and the registered query  *)
(* (redirect_to_uri_allowed, AllowedURIValidator).                         *)
THEOREM MatchStaysInDomain ==
  ASSUME NEW uri, NEW allowed, NEW schemes, NEW bare \in BOOLEAN,
         uri.host \in Seq(STRING), allowed.host \in Seq(STRING),
         UriValid(allowed, schemes, bare), UriMatches(uri, allowed)
  PROVE  /\ uri.scheme = allowed.scheme
         /\ uri.path = allowed.path
         /\ LastLabels(allowed.host, 2) = LastLabels(uri.host, 2)
         /\ uri.port = allowed.port \/ (uri.scheme = "http" /\ uri.host \in Loopback)
         /\ allowed.query \subseteq uri.query
<1>1. HostMatches(uri.host, allowed.host)
  BY DEF UriMatches
<1>2. CASE AllowWildcards /\ Wildcard(allowed.host)
  <2>1. Len(allowed.host) > 0 /\ allowed.host[1] = "*"
    BY <1>2 DEF Wildcard
  <2>2. "*" \in Range(allowed.host)
    BY <2>1 DEF Range
  <2>3. Count(allowed.host, ".") >= 2
    BY <1>2, <2>2 DEF UriValid, WildcardValid
  <2>4. IsSuffix(Tail(allowed.host), uri.host)
    BY <1>1, <1>2 DEF HostMatches
  <2>5. LastLabels(allowed.host, 2) = LastLabels(uri.host, 2)
    BY <2>1, <2>3, <2>4, SameLastLabels
  <2>6. allowed.host \notin Loopback
    BY <2>1 DEF Loopback
  <2>7. QED
    BY <2>5, <2>6 DEF UriMatches, PortMatches
<1>3. CASE ~(AllowWildcards /\ Wildcard(allowed.host))
  <2>1. uri.host = allowed.host
    BY <1>1, <1>3 DEF HostMatches
  <2>2. QED
    BY <2>1 DEF UriMatches, PortMatches
<1>4. QED
  BY <1>2, <1>3
=============================================================================
