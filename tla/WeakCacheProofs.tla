-------------------------- MODULE WeakCacheProofs --------------------------
(***************************************************************************)
(* The four properties of WeakCache, for any keys, objects and capacities. *)
(* The invariant relates the entries of the cache to the uses: what of it  *)
(* a cache that was always loose keeps, and what order one that was always *)
(* strict keeps.                                                           *)
(***************************************************************************)
EXTENDS WeakCache, SequenceTheorems, WellFoundedInduction, TLAPS

-----------------------------------------------------------------------------
(***************************************************************************)
(* What Only does, for every sequence.  Its recursion is climbed with      *)
(* Least: the theorems of the library that take a property as an operator  *)
(* cannot be used, but those about the sets of well-founded induction can. *)
(***************************************************************************)

(* Every set of natural numbers that is not empty has a least element. *)
LEMMA Least ==
  ASSUME NEW S \in SUBSET Nat, S # {}
  PROVE  \E m \in S : \A k \in S : m <= k
<1>1. PICK m \in S : \A k \in S : ~(<<k, m>> \in OpToRel(<, Nat))
  BY NatLessThanWellFounded, WFMin
<1>2. \A k \in S : ~(k < m)
  BY <1>1, Zenon DEF OpToRel
<1> QED BY <1>2

(* Induction, stated with a set for the property. *)
LEMMA Climb ==
  ASSUME NEW S, 0 \in S, \A n \in Nat : n \in S => n + 1 \in S
  PROVE  Nat \subseteq S
<1> SUFFICES ASSUME ~(Nat \subseteq S) PROVE FALSE
  OBVIOUS
<1>1. PICK m \in Nat \ S : \A k \in Nat \ S : m <= k
  BY Least
<1>2. m # 0 /\ m - 1 \in Nat
  BY <1>1
<1>3. m - 1 \in S
  BY <1>1, <1>2
<1> QED BY <1>2, <1>3

(* t lists the elements of the first n elements of s that are in keep, at  *)
(* the places that f gives.                                                *)
Lists(t, f, s, n, keep) ==
  /\ f \in [DOMAIN t -> 1 .. n]
  /\ \A k \in DOMAIN t : t[k] = s[f[k]] /\ s[f[k]] \in keep
  /\ \A j, k \in DOMAIN t : j < k => f[j] < f[k]
  /\ \A m \in 1 .. n : s[m] \in keep => \E k \in DOMAIN t : f[k] = m

(* One step of the recursion that defines Only. *)
Kept(s, keep, g, m) ==
  IF m = 0 THEN <<>> ELSE IF s[m] \in keep THEN Append(g[m - 1], s[m]) ELSE g[m - 1]

(* There is a function that satisfies the recursion. *)
LEMMA OnlyDefined ==
  ASSUME NEW S, NEW s \in Seq(S), NEW keep
  PROVE  \E g : g = [m \in 0 .. Len(s) |-> Kept(s, keep, g, m)] /\ Only(s, keep) = g[Len(s)]
<1> DEFINE upto(n) == \E g : g = [m \in 0 .. n |-> Kept(s, keep, g, m)]
           Good == {n \in Nat : upto(n)}
<1>1. 0 \in Good
  <2> DEFINE g == [m \in 0 .. 0 |-> <<>>]
  <2>1. g = [m \in 0 .. 0 |-> Kept(s, keep, g, m)]
    BY DEF Kept
  <2> QED BY <2>1
<1>2. ASSUME NEW n \in Nat, n \in Good PROVE n + 1 \in Good
  <2>1. PICK g : g = [m \in 0 .. n |-> Kept(s, keep, g, m)]
    BY <1>2
  <2> DEFINE x == IF s[n + 1] \in keep THEN Append(g[n], s[n + 1]) ELSE g[n]
             h == [m \in 0 .. n + 1 |-> IF m = n + 1 THEN x ELSE g[m]]
  <2>2. \A m \in 0 .. n : h[m] = g[m]
    OBVIOUS
  <2>3. ASSUME NEW m \in 0 .. n + 1 PROVE h[m] = Kept(s, keep, h, m)
    <3>1. CASE m = n + 1
      <4>1. h[m] = x /\ h[m - 1] = g[n] /\ m # 0 /\ s[m] = s[n + 1]
        BY <2>2, <3>1
      <4> HIDE DEF h
      <4> QED BY <4>1, <3>1 DEF Kept
    <3>2. CASE m # n + 1
      <4>1. m \in 0 .. n /\ g[m] = Kept(s, keep, g, m) /\ h[m] = g[m]
        BY <2>1, <2>2, <3>2
      <4>2. m # 0 => h[m - 1] = g[m - 1]
        BY <2>2, <3>2
      <4> HIDE DEF h
      <4> QED BY <4>1, <4>2 DEF Kept
    <3> QED BY <3>1, <3>2
  <2>4. h = [m \in 0 .. n + 1 |-> Kept(s, keep, h, m)]
    <3>1. h = [m \in 0 .. n + 1 |-> h[m]]
      OBVIOUS
    <3> HIDE DEF h
    <3> QED BY <2>3, <3>1
  <2> HIDE DEF h
  <2> QED BY <2>4
<1>3. Len(s) \in Good
  <2> HIDE DEF Good
  <2> QED BY <1>1, <1>2, Climb
<1>4. upto(Len(s))
  BY <1>3
<1> DEFINE G == CHOOSE g : g = [m \in 0 .. Len(s) |-> Kept(s, keep, g, m)]
<1>5. G = [m \in 0 .. Len(s) |-> Kept(s, keep, G, m)]
  BY <1>4
<1>6. Only(s, keep) = G[Len(s)]
  BY DEF Only, Kept
<1> HIDE DEF G
<1> QED BY <1>5, <1>6

(* Only(s, keep) has the elements of s in keep, each at its place, in the  *)
(* order of s.                                                             *)
LEMMA OnlyLists ==
  ASSUME NEW S, NEW s \in Seq(S), NEW keep
  PROVE  /\ Only(s, keep) \in Seq(S)
         /\ \E f : Lists(Only(s, keep), f, s, Len(s), keep)
<1>1. PICK g : g = [m \in 0 .. Len(s) |-> Kept(s, keep, g, m)] /\ Only(s, keep) = g[Len(s)]
  BY OnlyDefined
<1> DEFINE good(n) == g[n] \in Seq(S) /\ \E f : Lists(g[n], f, s, n, keep)
           Good == {n \in Nat : n <= Len(s) => good(n)}
<1>2. 0 \in Good
  <2>1. g[0] = <<>>
    BY <1>1 DEF Kept
  <2>2. DOMAIN << >> = {} /\ 1 .. 0 = {}
    <3>1. << >> \in Seq(S) /\ Len(<< >>) = 0
      OBVIOUS
    <3> QED BY <3>1
  <2>3. PICK f : f \in [{} -> {}]
    BY [k \in {} |-> 0] \in [{} -> {}]
  <2>4. f \in [DOMAIN << >> -> 1 .. 0]
    BY <2>2, <2>3
  <2>5. \A k : k \notin DOMAIN << >> /\ k \notin 1 .. 0
    BY <2>2
  <2>6. /\ \A k \in DOMAIN << >> : << >>[k] = s[f[k]] /\ s[f[k]] \in keep
        /\ \A j, k \in DOMAIN << >> : j < k => f[j] < f[k]
        /\ \A m \in 1 .. 0 : s[m] \in keep => \E k \in DOMAIN << >> : f[k] = m
    BY <2>5, Zenon
  <2>7. Lists(<< >>, f, s, 0, keep)
    BY <2>4, <2>6 DEF Lists
  <2>8. << >> \in Seq(S)
    OBVIOUS
  <2>9. good(0)
    BY <2>1, <2>7, <2>8, Zenon
  <2> QED BY <2>9
<1>3. ASSUME NEW n \in Nat, n \in Good PROVE n + 1 \in Good
  <2> SUFFICES ASSUME n + 1 <= Len(s) PROVE good(n + 1)
    OBVIOUS
  <2>1. g[n] \in Seq(S) /\ n + 1 \in 1 .. Len(s) /\ s[n + 1] \in S
    BY <1>3
  <2>2. PICK f : Lists(g[n], f, s, n, keep)
    BY <1>3
  <2>3. g[n + 1] = IF s[n + 1] \in keep THEN Append(g[n], s[n + 1]) ELSE g[n]
    <3>1. n + 1 \in 0 .. Len(s) /\ n + 1 # 0 /\ (n + 1) - 1 = n
      BY <2>1
    <3> QED BY <1>1, <3>1 DEF Kept
  <2> DEFINE t == g[n]  L == Len(g[n])
  <2>4. L \in Nat /\ DOMAIN t = 1 .. L
    BY <2>1
  <2>5. CASE s[n + 1] \in keep
    <3> DEFINE u == Append(t, s[n + 1])
               h == [k \in 1 .. L + 1 |-> IF k = L + 1 THEN n + 1 ELSE f[k]]
    <3>1. u \in Seq(S) /\ DOMAIN u = 1 .. L + 1 /\ u[L + 1] = s[n + 1] /\ \A k \in 1 .. L : u[k] = t[k]
      BY <2>1, <2>4
    <3>2. h \in [1 .. L + 1 -> 1 .. n + 1] /\ h[L + 1] = n + 1 /\ \A k \in 1 .. L : h[k] = f[k] /\ f[k] \in 1 .. n
      <4>1. \A k \in 1 .. L : f[k] \in 1 .. n /\ f[k] \in 1 .. n + 1 /\ k # L + 1 /\ k \in 1 .. L + 1
        BY <2>2, <2>4 DEF Lists
      <4>2. L + 1 \in 1 .. L + 1 /\ n + 1 \in 1 .. n + 1
        BY <2>4
      <4> QED BY <4>1, <4>2
    <3> HIDE DEF u, h
    <3>3. \A k \in 1 .. L + 1 : k = L + 1 \/ k \in 1 .. L
      BY <2>4
    <3>4. \A k \in 1 .. L + 1 : u[k] = s[h[k]] /\ s[h[k]] \in keep
      BY <2>2, <2>4, <2>5, <3>1, <3>2, <3>3 DEF Lists
    <3>5. \A j, k \in 1 .. L + 1 : j < k => h[j] < h[k]
      <4> SUFFICES ASSUME NEW j \in 1 .. L + 1, NEW k \in 1 .. L + 1, j < k PROVE h[j] < h[k]
        OBVIOUS
      <4>1. j \in 1 .. L
        BY <2>4
      <4>2. CASE k = L + 1
        BY <3>2, <4>1, <4>2
      <4>3. CASE k \in 1 .. L
        BY <2>2, <2>4, <3>2, <4>1, <4>3 DEF Lists
      <4> QED BY <3>3, <4>2, <4>3
    <3>6. ASSUME NEW m \in 1 .. n + 1, s[m] \in keep PROVE \E k \in 1 .. L + 1 : h[k] = m
      <4>1. CASE m = n + 1
        BY <2>4, <3>2, <4>1
      <4>2. CASE m # n + 1
        <5>1. PICK k \in 1 .. L : f[k] = m
          BY <2>2, <2>4, <3>6, <4>2 DEF Lists
        <5> QED BY <3>2, <5>1, <2>4
      <4> QED BY <4>1, <4>2
    <3>7. Lists(u, h, s, n + 1, keep)
      BY <3>1, <3>2, <3>4, <3>5, <3>6 DEF Lists
    <3> QED BY <2>3, <2>5, <3>1, <3>7 DEF u
  <2>6. CASE s[n + 1] \notin keep
    <3>1. Lists(t, f, s, n + 1, keep)
      <4>1. f \in [DOMAIN t -> 1 .. n + 1]
        BY <2>2 DEF Lists
      <4>2. \A m \in 1 .. n + 1 : s[m] \in keep => m \in 1 .. n
        BY <2>6
      <4> QED BY <2>2, <4>1, <4>2 DEF Lists
    <3> QED BY <2>1, <2>3, <2>6, <3>1
  <2> QED BY <2>5, <2>6
<1>4. Len(s) \in Good
  <2> HIDE DEF Good
  <2> QED BY <1>2, <1>3, Climb
<1> QED BY <1>1, <1>4

(* Only, one element at a time. *)
LEMMA OnlyAppend ==
  ASSUME NEW S, NEW s \in Seq(S), NEW e \in S, NEW keep
  PROVE  Only(Append(s, e), keep) = IF e \in keep THEN Append(Only(s, keep), e) ELSE Only(s, keep)
<1> DEFINE t == Append(s, e)  N == Len(s)
<1>1. t \in Seq(S) /\ Len(t) = N + 1 /\ t[N + 1] = e /\ \A i \in 1 .. N : t[i] = s[i]
  BY AppendProperties
<1>2. N \in Nat
  OBVIOUS
<1> HIDE DEF t, N
<1>3. PICK g : g = [m \in 0 .. N |-> Kept(s, keep, g, m)] /\ Only(s, keep) = g[N]
  BY OnlyDefined DEF N
<1>4. PICK h : h = [m \in 0 .. N + 1 |-> Kept(t, keep, h, m)] /\ Only(t, keep) = h[N + 1]
  BY <1>1, OnlyDefined
<1> DEFINE Same == {n \in Nat : n <= N => h[n] = g[n]}
<1>5. 0 \in Same
  BY <1>2, <1>3, <1>4 DEF Kept
<1>6. ASSUME NEW n \in Nat, n \in Same PROVE n + 1 \in Same
  <2> SUFFICES ASSUME n + 1 <= N PROVE h[n + 1] = g[n + 1]
    OBVIOUS
  <2>1. h[n] = g[n] /\ t[n + 1] = s[n + 1] /\ (n + 1) - 1 = n /\ n + 1 # 0
    BY <1>1, <1>2, <1>6
  <2>2. h[n + 1] = Kept(t, keep, h, n + 1) /\ g[n + 1] = Kept(s, keep, g, n + 1)
    <3>1. n + 1 \in 0 .. N + 1 /\ n + 1 \in 0 .. N
      BY <1>2
    <3> QED BY <1>3, <1>4, <3>1
  <2> QED BY <2>1, <2>2 DEF Kept
<1>7. h[N] = g[N]
  <2> HIDE DEF Same
  <2>1. N \in Same
    BY <1>2, <1>5, <1>6, Climb
  <2> QED BY <1>2, <2>1 DEF Same
<1>8. h[N + 1] = IF e \in keep THEN Append(h[N], e) ELSE h[N]
  <2>1. h[N + 1] = Kept(t, keep, h, N + 1)
    <3>1. N + 1 \in 0 .. N + 1
      BY <1>2
    <3> QED BY <1>4, <3>1
  <2>2. N + 1 # 0 /\ (N + 1) - 1 = N
    BY <1>2
  <2> QED BY <1>1, <2>1, <2>2 DEF Kept
<1> QED BY <1>3, <1>4, <1>7, <1>8 DEF t

LEMMA OnlyEmpty ==
  ASSUME NEW keep
  PROVE  Only(<<>>, keep) = <<>>
<1>1. << >> \in Seq({}) /\ Len(<< >>) = 0
  OBVIOUS
<1>2. PICK g : g = [m \in 0 .. 0 |-> Kept(<<>>, keep, g, m)] /\ Only(<<>>, keep) = g[0]
  BY <1>1, OnlyDefined
<1>3. g[0] = Kept(<<>>, keep, g, 0)
  <2>1. 0 \in 0 .. 0
    OBVIOUS
  <2> QED BY <1>2, <2>1
<1> QED BY <1>2, <1>3 DEF Kept

(* Induction over sequences, stated with a set for the property. *)
LEMMA Grow ==
  ASSUME NEW S, NEW P, << >> \in P,
         \A s \in Seq(S) : \A e \in S : s \in P => Append(s, e) \in P
  PROVE  Seq(S) \subseteq P
<1> DEFINE Good == {n \in Nat : \A s \in Seq(S) : Len(s) = n => s \in P}
<1>1. 0 \in Good
  <2>1. ASSUME NEW s \in Seq(S), Len(s) = 0 PROVE s \in P
    BY <2>1, EmptySeq
  <2> QED BY <2>1
<1>2. ASSUME NEW n \in Nat, n \in Good PROVE n + 1 \in Good
  <2>1. ASSUME NEW s \in Seq(S), Len(s) = n + 1 PROVE s \in P
    <3>1. s # <<>>
      BY <2>1, EmptySeq
    <3>2. PICK t \in Seq(S), e \in S : s = Append(t, e)
      BY <3>1, SequenceEmptyOrAppend
    <3>3. Len(t) = n
      BY <2>1, <3>2, AppendProperties
    <3> QED BY <1>2, <3>2, <3>3
  <2> QED BY <2>1
<1>3. Nat \subseteq Good
  <2> HIDE DEF Good
  <2> QED BY <1>1, <1>2, Climb
<1> QED BY <1>3

LEMMA OnlyIn ==
  ASSUME NEW S, NEW s \in Seq(S), NEW keep
  PROVE  /\ Only(s, keep) \in Seq(S)
         /\ Range(Only(s, keep)) = Range(s) \cap keep
<1>1. Only(s, keep) \in Seq(S)
  BY OnlyLists
<1>2. PICK f : Lists(Only(s, keep), f, s, Len(s), keep)
  BY OnlyLists
<1>3. DOMAIN s = 1 .. Len(s)
  OBVIOUS
<1> QED BY <1>1, <1>2, <1>3 DEF Lists, Range

(* Removing elements of two sequences put together. *)
LEMMA OnlyConcat ==
  ASSUME NEW S, NEW s \in Seq(S), NEW t \in Seq(S), NEW keep
  PROVE  Only(s \o t, keep) = Only(s, keep) \o Only(t, keep)
<1> DEFINE P == {u \in Seq(S) : Only(s \o u, keep) = Only(s, keep) \o Only(u, keep)}
<1>1. << >> \in P
  <2>1. << >> \in Seq(S)
    OBVIOUS
  <2>2. s \o <<>> = s /\ Only(s, keep) \o <<>> = Only(s, keep)
    BY ConcatEmptySeq, OnlyIn
  <2> QED BY <2>1, <2>2, OnlyEmpty
<1>2. ASSUME NEW u \in Seq(S), NEW e \in S, u \in P PROVE Append(u, e) \in P
  <2>1. s \o Append(u, e) = Append(s \o u, e) /\ s \o u \in Seq(S) /\ Append(u, e) \in Seq(S)
    <3>1. Append(u, e) = u \o <<e>> /\ <<e>> \in Seq(S)
      BY AppendIsConcat
    <3>2. s \o u \in Seq(S) /\ Append(u, e) \in Seq(S)
      BY ConcatProperties, AppendProperties
    <3>3. Append(s \o u, e) = (s \o u) \o <<e>>
      BY <3>2, AppendIsConcat
    <3> QED BY <3>1, <3>2, <3>3, ConcatAssociative
  <2>2. Only(s \o Append(u, e), keep)
          = IF e \in keep THEN Append(Only(s, keep) \o Only(u, keep), e) ELSE Only(s, keep) \o Only(u, keep)
    <3>1. Only(s \o u, keep) = Only(s, keep) \o Only(u, keep)
      BY <1>2
    <3>2. Only(Append(s \o u, e), keep) = IF e \in keep THEN Append(Only(s \o u, keep), e) ELSE Only(s \o u, keep)
      BY <2>1, OnlyAppend
    <3> QED BY <2>1, <3>1, <3>2
  <2>3. Only(Append(u, e), keep) = IF e \in keep THEN Append(Only(u, keep), e) ELSE Only(u, keep)
    BY OnlyAppend
  <2>4. Append(Only(s, keep) \o Only(u, keep), e) = Only(s, keep) \o Append(Only(u, keep), e)
    <3> DEFINE a == Only(s, keep)  b == Only(u, keep)
    <3>1. a \in Seq(S) /\ b \in Seq(S) /\ <<e>> \in Seq(S)
      BY OnlyIn
    <3> HIDE DEF a, b
    <3>2. Append(a \o b, e) = (a \o b) \o <<e>> /\ Append(b, e) = b \o <<e>>
      BY <3>1, AppendIsConcat, ConcatProperties
    <3> DEFINE o == <<e>>
    <3>3. o \in Seq(S)
      BY <3>1
    <3>4. Append(a \o b, e) = (a \o b) \o o /\ Append(b, e) = b \o o
      BY <3>2
    <3> HIDE DEF o
    <3>5. a \in Seq(S) /\ b \in Seq(S)
      BY <3>1
    <3>6. (a \o b) \o o = a \o (b \o o)
      BY <3>3, <3>5, ConcatAssociative, SMTT(30)
    <3>7. Append(a \o b, e) = a \o Append(b, e)
      BY <3>4, <3>6, Zenon
    <3> QED BY <3>7 DEF a, b
  <2> QED BY <2>1, <2>2, <2>3, <2>4
<1>3. Seq(S) \subseteq P
  <2> HIDE DEF P
  <2> QED BY <1>1, <1>2, Grow
<1> QED BY <1>3

(* Removing elements twice. *)
LEMMA OnlyOnly ==
  ASSUME NEW S, NEW s \in Seq(S), NEW A, NEW B
  PROVE  Only(Only(s, A), B) = Only(s, A \cap B)
<1> DEFINE P == {u \in Seq(S) : Only(Only(u, A), B) = Only(u, A \cap B)}
<1>1. << >> \in P
  BY OnlyEmpty
<1>2. ASSUME NEW u \in Seq(S), NEW e \in S, u \in P PROVE Append(u, e) \in P
  <2>1. Only(u, A) \in Seq(S) /\ Append(u, e) \in Seq(S)
    BY OnlyIn, AppendProperties
  <2>2. Only(Append(u, e), A) = IF e \in A THEN Append(Only(u, A), e) ELSE Only(u, A)
    BY OnlyAppend
  <2>3. Only(Append(Only(u, A), e), B) = IF e \in B THEN Append(Only(Only(u, A), B), e) ELSE Only(Only(u, A), B)
    BY <2>1, OnlyAppend
  <2>4. Only(Append(u, e), A \cap B) = IF e \in A \cap B THEN Append(Only(u, A \cap B), e) ELSE Only(u, A \cap B)
    BY OnlyAppend
  <2>5. Only(Only(u, A), B) = Only(u, A \cap B)
    BY <1>2
  <2>6. Only(Only(Append(u, e), A), B) = Only(Append(u, e), A \cap B)
    <3>1. CASE e \in A /\ e \in B
      BY <2>2, <2>3, <2>4, <2>5, <3>1, Zenon
    <3>2. CASE e \in A /\ e \notin B
      BY <2>2, <2>3, <2>4, <2>5, <3>2, Zenon
    <3>3. CASE e \notin A
      BY <2>2, <2>4, <2>5, <3>3, Zenon
    <3> QED BY <3>1, <3>2, <3>3, Zenon
  <2> QED BY <2>1, <2>6
<1>3. Seq(S) \subseteq P
  <2> HIDE DEF P
  <2> QED BY <1>1, <1>2, Grow
<1> QED BY <1>3

(* Removing nothing. *)
LEMMA OnlyAll ==
  ASSUME NEW S, NEW s \in Seq(S), NEW keep, Range(s) \subseteq keep
  PROVE  Only(s, keep) = s
<1> DEFINE P == {u \in Seq(S) : Range(u) \subseteq keep => Only(u, keep) = u}
<1>1. << >> \in P
  BY OnlyEmpty
<1>2. ASSUME NEW u \in Seq(S), NEW e \in S, u \in P PROVE Append(u, e) \in P
  <2>1. Append(u, e) \in Seq(S) /\ Range(Append(u, e)) = Range(u) \cup {e}
    BY AppendProperties, SMTT(30) DEF Range
  <2>2. Only(Append(u, e), keep) = IF e \in keep THEN Append(Only(u, keep), e) ELSE Only(u, keep)
    BY OnlyAppend
  <2> QED BY <1>2, <2>1, <2>2
<1>3. Seq(S) \subseteq P
  <2> HIDE DEF P
  <2> QED BY <1>1, <1>2, Grow
<1> QED BY <1>3

-----------------------------------------------------------------------------
(* The invariant *)

Living    == {x \in Entry : x.obj # Dead}
Others(k) == {x \in Entry : x.key # k}
NotOf(o)  == {x \in Entry : x.obj # o}

Distinct(s) == \A i, j \in DOMAIN s : s[i].key = s[j].key => i = j

(* s is the end of t. *)
Ends(s, t) == \E u \in Seq(Entry) : t = u \o s

(* Entries c that go with the uses u. *)
Agree(c, u) ==
  /\ c \in Seq(Entry) /\ u \in Seq(Entry) /\ Distinct(c) /\ Distinct(u)
  /\ Range(u) \subseteq Living
  /\ \A x \in Range(c) : x.obj # Dead => x \in Range(u)

(* Nothing that is in use is missing. *)
Full(c, u) == \A x \in Range(u) : x.obj \notin Falsy => x \in Range(c)

WInv ==
  /\ Agree(cache, uses) /\ items \in Seq(Entry)
  /\ capacity \in Capacities /\ loose \in BOOLEAN /\ broken \in BOOLEAN
  /\ modes \subseteq BOOLEAN /\ loose \in modes
  /\ modes = {TRUE} => Full(cache, uses)
  /\ modes = {FALSE} => Ends(Alive(cache), uses)

-----------------------------------------------------------------------------
(* Which elements a sequence without some of its entries has.              *)
LEMMA Range1 ==
  ASSUME NEW S, NEW s \in Seq(S), NEW e \in S
  PROVE  Append(s, e) \in Seq(S) /\ Range(Append(s, e)) = Range(s) \cup {e}
BY AppendProperties DEF Range

LEMMA RangeEntry ==
  ASSUME NEW s \in Seq(Entry)
  PROVE  /\ Range(s) \subseteq Entry
         /\ KeysOf(s) = {x.key : x \in Range(s)}
         /\ \A x \in Range(s) : x.key \in Keys /\ x.obj \in Objects \cup {Dead}
<1>1. Range(s) \subseteq Entry
  BY RangeOfSeq
<1>2. KeysOf(s) = {x.key : x \in Range(s)}
  BY Zenon DEF Range, KeysOf
<1>3. \A x \in Entry : x.key \in Keys /\ x.obj \in Objects \cup {Dead}
  BY DEF Entry
<1> QED BY <1>1, <1>2, <1>3

LEMMA DistinctOnly ==
  ASSUME NEW s \in Seq(Entry), Distinct(s), NEW keep
  PROVE  Distinct(Only(s, keep))
<1> DEFINE t == Only(s, keep)
<1>1. PICK f : Lists(t, f, s, Len(s), keep)
  BY OnlyLists
<1>2. t \in Seq(Entry) /\ DOMAIN s = 1 .. Len(s) /\ DOMAIN t = 1 .. Len(t) /\ Len(t) \in Nat
  BY OnlyLists
<1> HIDE DEF t
<1>3. ASSUME NEW i \in DOMAIN t, NEW j \in DOMAIN t, t[i].key = t[j].key PROVE i = j
  <2>1. f[i] = f[j]
    BY <1>1, <1>2, <1>3 DEF Lists, Distinct
  <2>2. ~(i < j) /\ ~(j < i)
    <3>1. f[i] \in 1 .. Len(s)
      BY <1>1 DEF Lists
    <3> QED BY <1>1, <2>1, <3>1 DEF Lists
  <2> QED BY <1>2, <2>2
<1> QED BY <1>3 DEF t, Distinct

LEMMA DistinctAppend ==
  ASSUME NEW s \in Seq(Entry), Distinct(s), NEW e \in Entry, e.key \notin KeysOf(s)
  PROVE  Distinct(Append(s, e))
<1> DEFINE t == Append(s, e)
<1>1. DOMAIN t = 1 .. Len(s) + 1 /\ t[Len(s) + 1] = e /\ \A i \in 1 .. Len(s) : t[i] = s[i]
  BY AppendProperties
<1>2. DOMAIN s = 1 .. Len(s) /\ Len(s) \in Nat
  OBVIOUS
<1>3. \A i \in 1 .. Len(s) : s[i].key # e.key
  BY <1>2 DEF KeysOf
<1>4. \A i \in DOMAIN t : i = Len(s) + 1 \/ i \in 1 .. Len(s)
  BY <1>1, <1>2
<1> HIDE DEF t
<1> QED BY <1>1, <1>2, <1>3, <1>4 DEF t, Distinct

LEMMA AtIs ==
  ASSUME NEW s \in Seq(Entry), Distinct(s), NEW k \in KeysOf(s)
  PROVE  /\ At(s, k) \in Range(s) /\ At(s, k).key = k
         /\ \A x \in Range(s) : x.key = k => x = At(s, k)
<1>1. \E x \in Range(s) : x.key = k
  BY DEF KeysOf, Range
<1>2. \A x, y \in Range(s) : x.key = y.key => x = y
  BY DEF Distinct, Range
<1> QED BY <1>1, <1>2 DEF At

LEMMA OmitIs ==
  ASSUME NEW s \in Seq(Entry), NEW k
  PROVE  /\ Omit(s, k) = Only(s, Others(k)) /\ Omit(s, k) \in Seq(Entry)
         /\ Range(Omit(s, k)) = {x \in Range(s) : x.key # k}
         /\ k \notin KeysOf(Omit(s, k))
         /\ Distinct(s) => Distinct(Omit(s, k))
<1>1. Omit(s, k) = Only(s, Others(k))
  BY DEF Omit, Others
<1>2. Omit(s, k) \in Seq(Entry) /\ Range(Omit(s, k)) = Range(s) \cap Others(k)
  BY <1>1, OnlyIn
<1>3. Range(Omit(s, k)) = {x \in Range(s) : x.key # k}
  BY <1>2, RangeEntry DEF Others
<1> QED BY <1>1, <1>2, <1>3, RangeEntry, DistinctOnly

LEMMA AliveIs ==
  ASSUME NEW s \in Seq(Entry)
  PROVE  /\ Alive(s) = Only(s, Living) /\ Alive(s) \in Seq(Entry)
         /\ Range(Alive(s)) = {x \in Range(s) : x.obj # Dead}
<1>1. Alive(s) = Only(s, Living)
  BY DEF Alive, Living
<1>2. Alive(s) \in Seq(Entry) /\ Range(Alive(s)) = Range(s) \cap Living
  BY <1>1, OnlyIn
<1> QED BY <1>1, <1>2, RangeEntry DEF Living

(* Only asks of an element what keep says of it. *)
LEMMA OnlySame ==
  ASSUME NEW S, NEW s \in Seq(S), NEW A, NEW B, Range(s) \cap A = Range(s) \cap B
  PROVE  Only(s, A) = Only(s, B)
<1>1. Only(s, Range(s)) = s
  BY OnlyAll
<1>2. Only(s, A) = Only(s, Range(s) \cap A) /\ Only(s, B) = Only(s, Range(s) \cap B)
  BY <1>1, OnlyOnly
<1> QED BY <1>2

-----------------------------------------------------------------------------
(* Ends.                                                                   *)
LEMMA EndsOnly ==
  ASSUME NEW s \in Seq(Entry), NEW t \in Seq(Entry), Ends(s, t), NEW keep
  PROVE  Ends(Only(s, keep), Only(t, keep))
<1>1. PICK u \in Seq(Entry) : t = u \o s
  BY DEF Ends
<1>2. Only(t, keep) = Only(u, keep) \o Only(s, keep)
  BY <1>1, OnlyConcat
<1> QED BY <1>2, OnlyIn DEF Ends

LEMMA EndsAppend ==
  ASSUME NEW s \in Seq(Entry), NEW t \in Seq(Entry), Ends(s, t), NEW e \in Entry
  PROVE  Ends(Append(s, e), Append(t, e))
<1>1. PICK u \in Seq(Entry) : t = u \o s
  BY DEF Ends
<1>2. Append(s, e) = s \o <<e>> /\ Append(t, e) = t \o <<e>> /\ <<e>> \in Seq(Entry)
  BY AppendIsConcat
<1>3. Append(t, e) = u \o Append(s, e)
  BY <1>1, <1>2, ConcatAssociative
<1> QED BY <1>3 DEF Ends

LEMMA EndsEnds ==
  ASSUME NEW r \in Seq(Entry), NEW s \in Seq(Entry), NEW t \in Seq(Entry), Ends(r, s), Ends(s, t)
  PROVE  Ends(r, t)
<1>1. PICK u \in Seq(Entry) : s = u \o r
  BY DEF Ends
<1>2. PICK v \in Seq(Entry) : t = v \o s
  BY DEF Ends
<1>3. t = (v \o u) \o r
  BY <1>1, <1>2, ConcatAssociative, SMTT(30)
<1>4. v \o u \in Seq(Entry)
  OBVIOUS
<1> QED BY <1>3, <1>4 DEF Ends

LEMMA EndsIsSuffix ==
  ASSUME NEW s \in Seq(Entry), NEW t \in Seq(Entry), Ends(s, t)
  PROVE  IsSuffix(s, t)
<1>1. PICK u \in Seq(Entry) : t = u \o s
  BY DEF Ends
<1>2. Len(t) = Len(u) + Len(s) /\ \A i \in 1 .. Len(s) : t[Len(u) + i] = s[i]
  <2>1. Len(t) = Len(u) + Len(s) /\ Len(u) \in Nat /\ Len(s) \in Nat
    BY <1>1, ConcatProperties
  <2>2. ASSUME NEW i \in 1 .. Len(s) PROVE t[Len(u) + i] = s[i]
    <3>1. Len(u) + i \in 1 .. Len(u) + Len(s) /\ ~(Len(u) + i <= Len(u)) /\ (Len(u) + i) - Len(u) = i
      BY <2>1
    <3> QED BY <1>1, <3>1, ConcatProperties
  <2> QED BY <2>1, <2>2
<1> DEFINE a == Reverse(s)  b == Reverse(t)
<1>3. /\ a \in Seq(Entry) /\ Len(a) = Len(s)
      /\ b \in Seq(Entry) /\ Len(b) = Len(t)
  <2>1. a \in [1 .. Len(s) -> Entry] /\ b \in [1 .. Len(t) -> Entry]
    BY DEF Reverse
  <2>2. Len(s) \in Nat /\ Len(t) \in Nat
    OBVIOUS
  <2>3. DOMAIN a = 1 .. Len(s) /\ DOMAIN b = 1 .. Len(t)
    BY <2>1, Zenon
  <2> HIDE DEF a, b
  <2>4. a \in Seq(Entry) /\ b \in Seq(Entry)
    <3>1. \A n \in Nat : [1 .. n -> Entry] \subseteq Seq(Entry)
      BY SeqDef, Zenon
    <3> QED BY <2>1, <2>2, <3>1
  <2>5. DOMAIN a = 1 .. Len(a) /\ Len(a) \in Nat /\ DOMAIN b = 1 .. Len(b) /\ Len(b) \in Nat
    BY <2>4
  <2>6. Len(a) = Len(s) /\ Len(b) = Len(t)
    BY <2>2, <2>3, <2>5, LenProperties, <2>4
  <2> QED BY <2>4, <2>6
<1>4. \A i \in 1 .. Len(s) : a[i] = b[i]
  <2> SUFFICES ASSUME NEW i \in 1 .. Len(s) PROVE a[i] = b[i]
    OBVIOUS
  <2>1. Len(u) \in Nat /\ Len(s) \in Nat /\ i \in 1 .. Len(t)
    BY <1>2
  <2>2. a[i] = s[(Len(s) - i) + 1] /\ b[i] = t[(Len(t) - i) + 1]
    BY <2>1 DEF Reverse
  <2>3. (Len(t) - i) + 1 = Len(u) + ((Len(s) - i) + 1) /\ (Len(s) - i) + 1 \in 1 .. Len(s)
    <3>1. ASSUME NEW n \in Nat, NEW m \in Nat, NEW j \in 1 .. m
          PROVE  ((n + m) - j) + 1 = n + ((m - j) + 1) /\ (m - j) + 1 \in 1 .. m
      OBVIOUS
    <3> QED BY <1>2, <2>1, <3>1
  <2> QED BY <1>2, <2>2, <2>3
<1> HIDE DEF a, b
<1>5. Len(s) <= Len(t) /\ Len(s) \in Nat
  BY <1>2, <1>1
<1>6. SubSeq(a, 1, Len(s)) = SubSeq(b, 1, Len(s))
  <2> DEFINE p == SubSeq(a, 1, Len(s))  q == SubSeq(b, 1, Len(s))
  <2>1. p \in Seq(Entry) /\ Len(p) = Len(s) /\ \A i \in 1 .. Len(s) : p[i] = a[i]
    BY <1>3, <1>5
  <2>2. q \in Seq(Entry) /\ Len(q) = Len(s) /\ \A i \in 1 .. Len(s) : q[i] = b[i]
    BY <1>3, <1>5
  <2> HIDE DEF p, q
  <2>3. p = q
    BY <1>4, <2>1, <2>2, SeqEqual
  <2> QED BY <2>3 DEF p, q
<1> QED BY <1>3, <1>5, <1>6 DEF a, b, IsSuffix, IsPrefix

-----------------------------------------------------------------------------
(* The steps, on entries c and uses u: what they change at once keeps the  *)
(* two together, and keeps each of the two promises.                       *)
Kept2(c, u, d, v) ==
  /\ Agree(d, v)
  /\ Full(c, u) => Full(d, v)
  /\ Ends(Alive(c), u) => Ends(Alive(d), v)

(* An entry is the most recent one now.                                    *)
LEMMA Renewed ==
  ASSUME NEW c, NEW u, Agree(c, u), NEW k \in Keys, NEW o \in Objects
  PROVE  LET e == [key |-> k, obj |-> o] IN
         Kept2(c, u, Append(Omit(c, k), e), Append(Omit(u, k), e))
<1> DEFINE e == [key |-> k, obj |-> o]  d == Append(Omit(c, k), e)  v == Append(Omit(u, k), e)
<1>1. /\ c \in Seq(Entry) /\ Distinct(c) /\ u \in Seq(Entry) /\ Distinct(u)
      /\ Range(u) \subseteq Living /\ \A x \in Range(c) : x.obj # Dead => x \in Range(u)
  BY DEF Agree
<1>2. e \in Entry /\ e \in Living /\ e.key = k /\ e.obj = o
  BY WeakCacheAssumption DEF Entry, Living
<1>3. /\ Omit(c, k) \in Seq(Entry) /\ Range(Omit(c, k)) = {x \in Range(c) : x.key # k}
      /\ Omit(u, k) \in Seq(Entry) /\ Range(Omit(u, k)) = {x \in Range(u) : x.key # k}
      /\ Distinct(Omit(c, k)) /\ Distinct(Omit(u, k))
      /\ k \notin KeysOf(Omit(c, k)) /\ k \notin KeysOf(Omit(u, k))
  BY <1>1, OmitIs
<1> HIDE DEF e
<1>4. /\ d \in Seq(Entry) /\ Range(d) = {x \in Range(c) : x.key # k} \cup {e}
      /\ v \in Seq(Entry) /\ Range(v) = {x \in Range(u) : x.key # k} \cup {e}
  BY <1>2, <1>3, Range1
<1>5. Distinct(d) /\ Distinct(v)
  BY <1>2, <1>3, DistinctAppend
<1>6. Agree(d, v)
  BY <1>1, <1>2, <1>4, <1>5 DEF Agree
<1>7. Full(c, u) => Full(d, v)
  BY <1>4 DEF Full
<1>8. ASSUME Ends(Alive(c), u) PROVE Ends(Alive(d), v)
  <2>1. Alive(d) = Append(Omit(Alive(c), k), e)
    <3>1. Alive(d) = Append(Only(Omit(c, k), Living), e)
      <4>1. Alive(d) = Only(d, Living)
        BY <1>4, AliveIs
      <4> QED BY <1>2, <1>3, <4>1, OnlyAppend
    <3>2. Only(Omit(c, k), Living) = Only(c, Others(k) \cap Living)
      BY <1>1, OmitIs, OnlyOnly
    <3>3. Omit(Alive(c), k) = Only(c, Living \cap Others(k))
      BY <1>1, OmitIs, AliveIs, OnlyOnly
    <3>4. Living \cap Others(k) = Others(k) \cap Living
      OBVIOUS
    <3> QED BY <3>1, <3>2, <3>3, <3>4
  <2>2. Ends(Omit(Alive(c), k), Omit(u, k)) /\ Omit(Alive(c), k) \in Seq(Entry)
    BY <1>1, <1>8, AliveIs, OmitIs, EndsOnly
  <2> QED BY <1>2, <1>3, <2>1, <2>2, EndsAppend
<1> HIDE DEF d, v
<1>9. Kept2(c, u, d, v)
  BY <1>6, <1>7, <1>8 DEF Kept2
<1> QED BY <1>9 DEF d, v, e

(* A key is forgotten. *)
LEMMA Forgotten ==
  ASSUME NEW c, NEW u, Agree(c, u), NEW k
  PROVE  Kept2(c, u, Omit(c, k), Omit(u, k))
<1>1. /\ c \in Seq(Entry) /\ Distinct(c) /\ u \in Seq(Entry) /\ Distinct(u)
      /\ Range(u) \subseteq Living /\ \A x \in Range(c) : x.obj # Dead => x \in Range(u)
  BY DEF Agree
<1>2. /\ Omit(c, k) \in Seq(Entry) /\ Range(Omit(c, k)) = {x \in Range(c) : x.key # k}
      /\ Omit(u, k) \in Seq(Entry) /\ Range(Omit(u, k)) = {x \in Range(u) : x.key # k}
      /\ Distinct(Omit(c, k)) /\ Distinct(Omit(u, k))
  BY <1>1, OmitIs
<1>3. ASSUME Ends(Alive(c), u) PROVE Ends(Alive(Omit(c, k)), Omit(u, k))
  <2>1. Alive(Omit(c, k)) = Only(c, Others(k) \cap Living)
    BY <1>1, <1>2, OmitIs, AliveIs, OnlyOnly
  <2>2. Omit(Alive(c), k) = Only(c, Living \cap Others(k))
    BY <1>1, OmitIs, AliveIs, OnlyOnly
  <2>3. Living \cap Others(k) = Others(k) \cap Living
    OBVIOUS
  <2>4. Ends(Omit(Alive(c), k), Omit(u, k))
    BY <1>1, <1>3, AliveIs, OmitIs, EndsOnly
  <2> QED BY <2>1, <2>2, <2>3, <2>4
<1> QED BY <1>1, <1>2, <1>3 DEF Agree, Full, Kept2

(* Only dead entries are dropped. *)
LEMMA Dropped ==
  ASSUME NEW c, NEW u, Agree(c, u), NEW keep, \A x \in Range(c) : x.obj # Dead => x \in keep
  PROVE  Kept2(c, u, Only(c, keep), u)
<1>1. /\ c \in Seq(Entry) /\ Distinct(c) /\ u \in Seq(Entry) /\ Distinct(u)
      /\ Range(u) \subseteq Living /\ \A x \in Range(c) : x.obj # Dead => x \in Range(u)
  BY DEF Agree
<1>2. Only(c, keep) \in Seq(Entry) /\ Range(Only(c, keep)) = Range(c) \cap keep /\ Distinct(Only(c, keep))
  BY <1>1, OnlyIn, DistinctOnly
<1>3. \A x \in Range(u) : x.obj # Dead
  BY <1>1 DEF Living
<1>4. Alive(Only(c, keep)) = Alive(c)
  <2>1. Alive(Only(c, keep)) = Only(c, keep \cap Living) /\ Alive(c) = Only(c, Living)
    BY <1>1, <1>2, AliveIs, OnlyOnly
  <2>2. Range(c) \cap (keep \cap Living) = Range(c) \cap Living
    BY DEF Living
  <2> QED BY <1>1, <2>1, <2>2, OnlySame
<1> QED BY <1>1, <1>2, <1>3, <1>4 DEF Agree, Full, Kept2

(* expire looks at the n oldest entries. *)
LEMMA Expired ==
  ASSUME NEW c \in Seq(Entry), Distinct(c), NEW n \in 1 .. Len(c)
  PROVE  \E keep : /\ Alive(SubSeq(c, 1, n)) \o SubSeq(c, n + 1, Len(c)) = Only(c, keep)
                   /\ \A x \in Range(c) : x.obj # Dead => x \in keep
<1> DEFINE a == SubSeq(c, 1, n)  b == SubSeq(c, n + 1, Len(c))  N == Len(c)  keep == Living \cup Range(b)
<1>1. N \in Nat /\ n \in Nat /\ n <= N /\ DOMAIN c = 1 .. N
  OBVIOUS
<1>2. /\ a \in Seq(Entry) /\ Len(a) = n /\ \A i \in 1 .. n : a[i] = c[i]
      /\ b \in Seq(Entry) /\ Len(b) = N - n /\ \A i \in 1 .. N - n : b[i] = c[n + i]
  OBVIOUS
<1>3. DOMAIN a = 1 .. n /\ DOMAIN b = 1 .. N - n
  BY <1>2
<1>4. c = a \o b
  <2>1. 1 \in 1 .. N + 1 /\ n \in 1 - 1 .. N /\ N \in n .. N
    BY <1>1
  <2> QED BY <2>1, SubSeqFull, ConcatAdjacentSubSeq
<1>5. Range(a) \cap Range(b) = {}
  <2> SUFFICES ASSUME NEW i \in 1 .. n, NEW j \in 1 .. N - n, a[i] = b[j] PROVE FALSE
    BY <1>3, Zenon DEF Range
  <2> HIDE DEF a, b, N
  <2>1. i \in 1 .. N /\ n + j \in 1 .. N /\ i # n + j
    BY <1>1
  <2>2. c[i] = c[n + j]
    BY <1>2
  <2> QED BY <1>1, <2>1, <2>2 DEF Distinct
<1> HIDE DEF a, b
<1>6. Only(c, keep) = Only(a, keep) \o Only(b, keep)
  BY <1>2, <1>4, OnlyConcat, SMTT(30)
<1>7. Only(b, keep) = b
  BY <1>2, OnlyAll
<1>8. Only(a, keep) = Alive(a)
  <2>1. Range(a) \cap keep = Range(a) \cap Living
    BY <1>5
  <2> QED BY <1>2, <2>1, AliveIs, OnlySame, SMTT(30)
<1>9. \A x \in Range(c) : x.obj # Dead => x \in keep
  BY RangeEntry DEF Living
<1> HIDE DEF keep
<1>10. Alive(a) \o b = Only(c, keep)
  BY <1>6, <1>7, <1>8
<1> QED BY <1>9, <1>10 DEF a, b

(* An object dies. *)
DeadAt(k) == [key |-> k, obj |-> Dead]

(* What becomes of x. *)
Becomes(x, o) == IF x.obj = o THEN DeadAt(x.key) ELSE x

LEMMA KilledIs ==
  ASSUME NEW s \in Seq(Entry), NEW o \in Objects
  PROVE  /\ Killed(s, o) \in Seq(Entry)
         /\ DOMAIN Killed(s, o) = DOMAIN s
         /\ \A i \in DOMAIN s : Killed(s, o)[i] = Becomes(s[i], o)
<1> DEFINE t == Killed(s, o)
<1>1. DOMAIN s = 1 .. Len(s) /\ Len(s) \in Nat /\ \A i \in 1 .. Len(s) : s[i] \in Entry
  BY ElementOfSeq
<1>2. DOMAIN t = 1 .. Len(s)
  BY <1>1 DEF Killed
<1>3. \A i \in 1 .. Len(s) : t[i] = IF s[i].obj = o THEN [s[i] EXCEPT !.obj = Dead] ELSE s[i]
  BY <1>1 DEF Killed
<1>4. \A x \in Entry : [x EXCEPT !.obj = Dead] = DeadAt(x.key)
  BY DEF Entry, DeadAt
<1>5. \A x \in Entry : DeadAt(x.key) \in Entry
  BY DEF Entry, DeadAt
<1>6. t = [i \in 1 .. Len(s) |-> t[i]]
  BY <1>1 DEF Killed
<1> HIDE DEF t
<1>7. \A i \in 1 .. Len(s) : t[i] \in Entry
  <2> SUFFICES ASSUME NEW i \in 1 .. Len(s) PROVE t[i] \in Entry
    OBVIOUS
  <2>1. s[i] \in Entry
    BY <1>1
  <2>2. t[i] = s[i] \/ t[i] = DeadAt(s[i].key)
    BY <1>3, <1>4, <2>1
  <2> QED BY <1>5, <2>1, <2>2
<1>8. t \in [1 .. Len(s) -> Entry]
  BY <1>6, <1>7
<1>9. t \in Seq(Entry)
  BY <1>1, <1>8, SeqDef
<1>10. \A i \in 1 .. Len(s) : t[i] = Becomes(s[i], o)
  BY <1>1, <1>3, <1>4 DEF Becomes
<1> QED BY <1>1, <1>2, <1>9, <1>10 DEF t

LEMMA AliveKilled ==
  ASSUME NEW s \in Seq(Entry), NEW o \in Objects
  PROVE  Alive(Killed(s, o)) = Only(s, Living \cap NotOf(o))
<1> DEFINE P == {r \in Seq(Entry) : Only(Killed(r, o), Living) = Only(r, Living \cap NotOf(o))}
<1>1. << >> \in P
  <2>1. << >> \in Seq(Entry) /\ DOMAIN << >> = {}
    <3>1. << >> \in Seq(Entry) /\ Len(<< >>) = 0
      OBVIOUS
    <3> QED BY <3>1
  <2>2. Killed(<<>>, o) = <<>>
    <3>1. Killed(<<>>, o) \in Seq(Entry) /\ DOMAIN Killed(<<>>, o) = {}
      BY <2>1, KilledIs
    <3>2. Len(Killed(<<>>, o)) = 0
      BY <3>1, LenProperties
    <3> QED BY <3>1, <3>2, EmptySeq
  <2> QED BY <2>1, <2>2, OnlyEmpty
<1>2. ASSUME NEW r \in Seq(Entry), NEW e \in Entry, r \in P PROVE Append(r, e) \in P
  <2> DEFINE d == Becomes(e, o)
             a == Append(r, e)  N == Len(r)
  <2>1. d \in Entry
    BY DEF Becomes, Entry, DeadAt
  <2>2. /\ a \in Seq(Entry) /\ Len(a) = N + 1 /\ a[N + 1] = e /\ \A i \in 1 .. N : a[i] = r[i]
        /\ N \in Nat /\ DOMAIN r = 1 .. N /\ DOMAIN a = 1 .. N + 1
    BY AppendProperties
  <2>3. Killed(a, o) = Append(Killed(r, o), d)
    <3> DEFINE x == Killed(a, o)  y == Append(Killed(r, o), d)
    <3>1. /\ x \in Seq(Entry) /\ DOMAIN x = 1 .. N + 1
          /\ \A i \in 1 .. N + 1 : x[i] = Becomes(a[i], o)
      BY <2>2, KilledIs
    <3>2. /\ Killed(r, o) \in Seq(Entry) /\ DOMAIN Killed(r, o) = 1 .. N
          /\ \A i \in 1 .. N : Killed(r, o)[i] = Becomes(r[i], o)
      BY <2>2, KilledIs
    <3>3. Len(x) = N + 1 /\ Len(Killed(r, o)) = N
      BY <2>2, <3>1, <3>2, LenProperties
    <3>4. /\ y \in Seq(Entry) /\ Len(y) = N + 1 /\ y[N + 1] = d
          /\ \A i \in 1 .. N : y[i] = Killed(r, o)[i]
      BY <2>1, <3>2, <3>3, AppendProperties
    <3>5. ASSUME NEW i \in 1 .. N + 1 PROVE x[i] = y[i]
      <4>1. CASE i = N + 1
        <5> HIDE DEF x, y, a, N
        <5>1. a[i] = e /\ y[i] = d
          BY <2>2, <3>4, <4>1
        <5> QED BY <3>1, <5>1 DEF d
      <4>2. CASE i # N + 1
        <5>1. i \in 1 .. N
          BY <2>2, <4>2
        <5>2. a[i] = r[i] /\ y[i] = Killed(r, o)[i]
          BY <2>2, <3>4, <5>1
        <5> HIDE DEF x, y, a, N, d
        <5> QED BY <3>1, <3>2, <5>1, <5>2
      <4> QED BY <4>1, <4>2
    <3> HIDE DEF x, y, a, N, d
    <3>6. x = y
      BY <3>1, <3>3, <3>4, <3>5, SeqEqual
    <3> QED BY <3>6 DEF x, y
  <2>4. Killed(r, o) \in Seq(Entry)
    BY KilledIs
  <2>5. d \in Living <=> e \in Living \cap NotOf(o)
    <3>1. o # Dead
      BY WeakCacheAssumption
    <3> QED BY <2>1, <3>1 DEF Living, NotOf, DeadAt, Becomes
  <2>6. d \in Living => d = e
    BY DEF Living, DeadAt, Becomes
  <2> HIDE DEF d
  <2>7. Only(Killed(a, o), Living) = IF d \in Living THEN Append(Only(Killed(r, o), Living), d) ELSE Only(Killed(r, o), Living)
    BY <2>1, <2>3, <2>4, OnlyAppend
  <2>8. Only(a, Living \cap NotOf(o)) = IF e \in Living \cap NotOf(o) THEN Append(Only(r, Living \cap NotOf(o)), e) ELSE Only(r, Living \cap NotOf(o))
    BY OnlyAppend
  <2>9. Only(Killed(r, o), Living) = Only(r, Living \cap NotOf(o))
    BY <1>2
  <2>10. Only(Killed(a, o), Living) = Only(a, Living \cap NotOf(o))
    <3>1. CASE d \in Living
      BY <2>5, <2>6, <2>7, <2>8, <2>9, <3>1, Zenon
    <3>2. CASE d \notin Living
      BY <2>5, <2>7, <2>8, <2>9, <3>2, Zenon
    <3> QED BY <3>1, <3>2, Zenon
  <2> QED BY <2>2, <2>10
<1>3. Seq(Entry) \subseteq P
  <2> HIDE DEF P
  <2> QED BY <1>1, <1>2, Grow
<1> QED BY <1>3, KilledIs, AliveIs

LEMMA Died ==
  ASSUME NEW c, NEW u, Agree(c, u), NEW o \in Objects
  PROVE  Kept2(c, u, Killed(c, o), Leaving(u, o))
<1> DEFINE d == Killed(c, o)  v == Leaving(u, o)
<1>1. /\ c \in Seq(Entry) /\ Distinct(c) /\ u \in Seq(Entry) /\ Distinct(u)
      /\ Range(u) \subseteq Living /\ \A x \in Range(c) : x.obj # Dead => x \in Range(u)
  BY DEF Agree
<1>2. v = Only(u, NotOf(o))
  BY DEF Leaving, NotOf
<1>3. v \in Seq(Entry) /\ Range(v) = Range(u) \cap NotOf(o) /\ Distinct(v)
  BY <1>1, <1>2, OnlyIn, DistinctOnly
<1>4. /\ d \in Seq(Entry) /\ DOMAIN d = DOMAIN c
      /\ \A i \in DOMAIN c : d[i] = Becomes(c[i], o)
  BY <1>1, KilledIs
<1> HIDE DEF d, v
<1>5. \A i \in DOMAIN c : d[i].key = c[i].key /\ (c[i].obj = o => d[i].obj = Dead)
  BY <1>4 DEF Becomes, DeadAt
<1>6. Distinct(d)
  BY <1>1, <1>4, <1>5 DEF Distinct
<1>7. ASSUME NEW x \in Range(d), x.obj # Dead PROVE x \in Range(v)
  <2>1. PICK i \in DOMAIN c : x = d[i]
    BY <1>4 DEF Range
  <2>2. c[i].obj # o /\ x = c[i]
    BY <1>4, <1>5, <1>7, <2>1 DEF Becomes
  <2>3. x \in Range(c) /\ x \in Entry
    BY <1>1, <2>2, RangeEntry DEF Range
  <2> QED BY <1>1, <1>3, <1>7, <2>2, <2>3 DEF NotOf
<1>8. Agree(d, v)
  BY <1>1, <1>3, <1>4, <1>6, <1>7 DEF Agree
<1>9. ASSUME Full(c, u), NEW x \in Range(v), x.obj \notin Falsy PROVE x \in Range(d)
  <2>1. x \in Range(c) /\ x.obj # o
    BY <1>3, <1>9 DEF Full, NotOf
  <2>2. PICK i \in DOMAIN c : x = c[i]
    BY <2>1 DEF Range
  <2>3. d[i] = x
    BY <1>4, <2>1, <2>2 DEF Becomes
  <2> QED BY <1>4, <2>3 DEF Range
<1>10. ASSUME Ends(Alive(c), u) PROVE Ends(Alive(d), v)
  <2>1. Alive(d) = Only(Alive(c), NotOf(o))
    <3>1. Alive(d) = Only(c, Living \cap NotOf(o)) /\ Alive(c) = Only(c, Living)
      BY <1>1, AliveKilled, AliveIs DEF d
    <3> QED BY <1>1, <3>1, OnlyOnly
  <2> QED BY <1>1, <1>2, <1>10, <2>1, AliveIs, EndsOnly
<1>11. Kept2(c, u, d, v)
  BY <1>8, <1>9, <1>10 DEF Kept2, Full
<1> QED BY <1>11 DEF d, v

-----------------------------------------------------------------------------
(* Making room.  g[n] is what is left after n looks at most.               *)
Looked(s, g, n) ==
  IF n = 0 THEN s
  ELSE IF Len(s) - Len(g[n - 1]) >= Excess(Len(s)) THEN g[n - 1]
  ELSE Look(g[n - 1])

LEMMA RoomDefined ==
  ASSUME NEW s \in Seq(Entry)
  PROVE  \E g : g = [n \in 0 .. Len(s) |-> Looked(s, g, n)] /\ Room(s) = g[Len(s)]
<1> DEFINE upto(n) == \E g : g = [m \in 0 .. n |-> Looked(s, g, m)]
           Good == {n \in Nat : upto(n)}
<1>1. 0 \in Good
  <2> DEFINE g == [m \in 0 .. 0 |-> s]
  <2>1. g = [m \in 0 .. 0 |-> Looked(s, g, m)]
    BY DEF Looked
  <2> QED BY <2>1
<1>2. ASSUME NEW n \in Nat, n \in Good PROVE n + 1 \in Good
  <2>1. PICK g : g = [m \in 0 .. n |-> Looked(s, g, m)]
    BY <1>2
  <2> DEFINE x == IF Len(s) - Len(g[n]) >= Excess(Len(s)) THEN g[n] ELSE Look(g[n])
             h == [m \in 0 .. n + 1 |-> IF m = n + 1 THEN x ELSE g[m]]
  <2>2. \A m \in 0 .. n : h[m] = g[m]
    OBVIOUS
  <2>3. ASSUME NEW m \in 0 .. n + 1 PROVE h[m] = Looked(s, h, m)
    <3>1. CASE m = n + 1
      <4>1. h[m] = x /\ h[m - 1] = g[n] /\ m # 0
        BY <2>2, <3>1
      <4> HIDE DEF h
      <4> QED BY <4>1 DEF Looked
    <3>2. CASE m # n + 1
      <4>1. m \in 0 .. n /\ g[m] = Looked(s, g, m) /\ h[m] = g[m]
        BY <2>1, <2>2, <3>2
      <4>2. m # 0 => h[m - 1] = g[m - 1]
        BY <2>2, <3>2
      <4> HIDE DEF h
      <4>3. CASE m = 0
        BY <4>1, <4>3 DEF Looked
      <4>4. CASE m # 0
        BY <4>1, <4>2, <4>4 DEF Looked
      <4> QED BY <4>3, <4>4
    <3> QED BY <3>1, <3>2
  <2>4. h = [m \in 0 .. n + 1 |-> Looked(s, h, m)]
    <3>1. h = [m \in 0 .. n + 1 |-> h[m]]
      OBVIOUS
    <3> HIDE DEF h
    <3> QED BY <2>3, <3>1
  <2> HIDE DEF h
  <2> QED BY <2>4
<1>3. Len(s) \in Good
  <2> HIDE DEF Good
  <2> QED BY <1>1, <1>2, Climb
<1>4. upto(Len(s))
  BY <1>3
<1> DEFINE G == CHOOSE g : g = [m \in 0 .. Len(s) |-> Looked(s, g, m)]
<1>5. G = [m \in 0 .. Len(s) |-> Looked(s, G, m)]
  BY <1>4
<1>6. Room(s) = G[Len(s)]
  BY DEF Room, Looked
<1> HIDE DEF G
<1> QED BY <1>5, <1>6

(* One look at the oldest entry h, before w. *)
LEMMA LookIs ==
  ASSUME NEW h \in Entry, NEW w \in Seq(Entry), NEW t, t = <<h>> \o w, Distinct(t)
  PROVE  /\ Look(t) = IF Spares(h) THEN Append(w, h) ELSE w
         /\ Range(t) = Range(w) \cup {h} /\ Len(t) = Len(w) + 1
         /\ Distinct(w) /\ Distinct(Append(w, h))
         /\ Append(w, h) \in Seq(Entry) /\ Range(Append(w, h)) = Range(w) \cup {h}
         /\ Len(Append(w, h)) = Len(w) + 1
<1> DEFINE N == Len(w)
<1>1. N \in Nat /\ <<h>> \in Seq(Entry) /\ Len(<<h>>) = 1 /\ DOMAIN w = 1 .. N /\ <<h>>[1] = h
  OBVIOUS
<1>2. t \in Seq(Entry) /\ Len(t) = N + 1
  BY <1>1, ConcatProperties
<1>3. t[1] = h /\ \A i \in 1 .. N : t[i + 1] = w[i]
  <2>1. \A i \in 1 .. 1 + N : (<<h>> \o w)[i] = IF i <= 1 THEN <<h>>[i] ELSE w[i - 1]
    BY <1>1, ConcatProperties
  <2>2. 1 \in 1 .. 1 + N /\ \A i \in 1 .. N : i + 1 \in 1 .. 1 + N /\ ~(i + 1 <= 1) /\ (i + 1) - 1 = i
    BY <1>1
  <2> HIDE DEF N
  <2> QED BY <1>1, <2>1, <2>2
<1>4. DOMAIN t = 1 .. N + 1
  BY <1>1, <1>2
<1>5. Head(t) = h /\ Tail(t) = w
  <2>1. t # <<>>
    BY <1>1, <1>2
  <2>2. /\ Head(t) = t[1] /\ Tail(t) \in Seq(Entry) /\ Len(Tail(t)) = N
        /\ \A i \in 1 .. N : Tail(t)[i] = t[i + 1]
    BY <1>1, <1>2, <2>1, HeadTailProperties
  <2> HIDE DEF N
  <2> QED BY <1>3, <2>2, SeqEqual DEF N
<1>6. Look(t) = IF Spares(h) THEN Append(w, h) ELSE w
  BY <1>5 DEF Look
<1>7. Distinct(w) /\ \A i \in 1 .. N : w[i].key # h.key
  <2>1. \A i \in 1 .. N : i + 1 \in 1 .. N + 1 /\ 1 \in 1 .. N + 1 /\ i + 1 # 1
    BY <1>1
  <2>2. \A i, j \in 1 .. N : i + 1 = j + 1 => i = j
    BY <1>1
  <2> HIDE DEF N
  <2>3. ASSUME NEW i \in 1 .. N, NEW j \in 1 .. N, w[i].key = w[j].key PROVE i = j
    <3>1. t[i + 1].key = t[j + 1].key
      BY <1>3, <2>3
    <3>2. i + 1 \in DOMAIN t /\ j + 1 \in DOMAIN t
      BY <1>4, <2>1
    <3>3. i + 1 = j + 1
      BY <3>1, <3>2, Zenon DEF Distinct
    <3> QED BY <2>2, <3>3
  <2>4. ASSUME NEW i \in 1 .. N PROVE w[i].key # h.key
    <3>1. w[i] = t[i + 1] /\ h = t[1]
      BY <1>3
    <3>2. i + 1 \in DOMAIN t /\ 1 \in DOMAIN t /\ i + 1 # 1
      BY <1>4, <2>1
    <3>3. t[i + 1].key # t[1].key
      BY <3>2, Zenon DEF Distinct
    <3> QED BY <3>1, <3>3
  <2> QED BY <1>1, <2>3, <2>4 DEF Distinct
<1>8. h.key \notin KeysOf(w)
  BY <1>1, <1>7 DEF KeysOf
<1>9. Range(t) = Range(w) \cup {h}
  <2>1. Range(<<h>>) = {h}
    <3>1. DOMAIN <<h>> = {1}
      BY <1>1
    <3> QED BY <1>1, <3>1 DEF Range
  <2>2. w \in Seq(Entry)
    OBVIOUS
  <2>3. Range(<<h>> \o w) = Range(<<h>>) \cup Range(w)
    <3> DEFINE o == <<h>>
    <3>1. o \in Seq(Entry)
      BY <1>1
    <3> HIDE DEF o
    <3>2. Range(o \o w) = Range(o) \cup Range(w)
      BY <2>2, <3>1, RangeConcatenation
    <3> QED BY <3>2 DEF o
  <2> QED BY <2>1, <2>3
<1>10. Distinct(Append(w, h))
  BY <1>7, <1>8, DistinctAppend
<1>11. Append(w, h) \in Seq(Entry) /\ Range(Append(w, h)) = Range(w) \cup {h}
  BY Range1
<1>12. Len(Append(w, h)) = Len(w) + 1
  BY AppendProperties
<1> QED BY <1>2, <1>6, <1>7, <1>9, <1>10, <1>11, <1>12

(* What Room throws out: no more than the excess, nothing that it spares,  *)
(* and if it spares nothing, the oldest.  If it has thrown out less than   *)
(* the excess it has spared everything there still is.                     *)
RoomLeft(s, t) ==
  /\ t \in Seq(Entry) /\ Distinct(t) /\ Range(t) \subseteq Range(s)
  /\ \A x \in Range(s) : Spares(x) => x \in Range(t)
  /\ (\A x \in Range(s) : ~Spares(x)) => Ends(t, s)
  /\ Len(s) - Len(t) <= Excess(Len(s))

LEMMA RoomIs ==
  ASSUME NEW s \in Seq(Entry), Distinct(s), capacity \in Nat
  PROVE  /\ RoomLeft(s, Room(s))
         /\ \/ Len(s) - Len(Room(s)) >= Excess(Len(s))
            \/ \A x \in Range(Room(s)) : Spares(x)
<1> DEFINE N == Len(s)  ex == Excess(Len(s))
<1>1. N \in Nat /\ ex \in Nat
  BY DEF Excess
<1>2. PICK g : g = [n \in 0 .. N |-> Looked(s, g, n)] /\ Room(s) = g[N]
  BY RoomDefined
<1> DEFINE rest(n, t) == \E v \in Seq(Entry) : t = SubSeq(s, n + 1, N) \o v /\ \A x \in Range(v) : Spares(x)
           good(n) == RoomLeft(s, g[n]) /\ (N - Len(g[n]) >= ex \/ rest(n, g[n]))
           Good == {n \in Nat : n <= N => good(n)}
<1> HIDE DEF N, ex
<1>3. 0 \in Good
  <2>1. g[0] = s
    <3>1. 0 \in 0 .. N
      BY <1>1
    <3> QED BY <1>2, <3>1 DEF Looked
  <2>2. Ends(s, s)
    <3>1. << >> \in Seq(Entry)
      OBVIOUS
    <3> QED BY <3>1, ConcatEmptySeq DEF Ends
  <2>3. RoomLeft(s, s)
    BY <1>1, <2>2 DEF RoomLeft, ex, N
  <2>4. rest(0, s)
    <3>1. << >> \in Seq(Entry) /\ Range(<< >>) = {}
      <4>1. << >> \in Seq(Entry) /\ Len(<< >>) = 0
        OBVIOUS
      <4> QED BY <4>1 DEF Range
    <3>2. SubSeq(s, 0 + 1, N) \o << >> = s
      <4>1. SubSeq(s, 0 + 1, N) = s
        BY SubSeqFull DEF N
      <4> QED BY <4>1, ConcatEmptySeq
    <3> QED BY <3>1, <3>2
  <2> QED BY <2>1, <2>3, <2>4
<1>4. ASSUME NEW n \in Nat, n \in Good PROVE n + 1 \in Good
  <2> HIDE DEF good
  <2> SUFFICES ASSUME n + 1 <= N PROVE good(n + 1)
    OBVIOUS
  <2>1. good(n)
    <3>1. n <= N
      BY <1>1
    <3>2. n <= N => good(n)
      BY <1>4
    <3> QED BY <3>1, <3>2
  <2> USE DEF good
  <2> DEFINE t == g[n]
  <2>2. g[n + 1] = IF N - Len(t) >= ex THEN t ELSE Look(t)
    <3>1. n + 1 \in 0 .. N /\ n + 1 # 0 /\ (n + 1) - 1 = n
      BY <1>1
    <3> QED BY <1>2, <3>1 DEF Looked, ex, N
  <2>3. CASE N - Len(t) >= ex
    BY <2>1, <2>2, <2>3
  <2>4. CASE ~(N - Len(t) >= ex)
    <3>1. PICK v \in Seq(Entry) : t = SubSeq(s, n + 1, N) \o v /\ \A x \in Range(v) : Spares(x)
      BY <2>1, <2>4
    <3> DEFINE h == s[n + 1]  r == SubSeq(s, n + 2, N)  w == r \o v
    <3>2. n + 1 \in 1 .. N /\ N \in n + 1 .. N /\ (n + 1) + 1 = n + 2
      BY <1>1
    <3>3. h \in Entry /\ h \in Range(s)
      <4>1. DOMAIN s = 1 .. N
        BY DEF N
      <4> QED BY <3>2, <4>1, ElementOfSeq DEF Range, N
    <3>4. r \in Seq(Entry)
      BY <1>1, <3>2 DEF N
    <3>5. SubSeq(s, n + 1, N) = <<h>> \o r
      BY <3>2, SubSeqRecursiveFirst DEF N
    <3>6. w \in Seq(Entry) /\ t = <<h>> \o w
      <4>1. <<h>> \in Seq(Entry)
        BY <3>3
      <4> HIDE DEF h, r
      <4>2. t = (<<h>> \o r) \o v
        BY <3>1, <3>5
      <4> HIDE DEF t
      <4> QED BY <3>4, <4>1, <4>2, ConcatAssociative, ConcatProperties
    <3>7. RoomLeft(s, t)
      BY <2>1
    <3> HIDE DEF t, w, r, h, good, rest
    <3>8. /\ Look(t) = IF Spares(h) THEN Append(w, h) ELSE w
          /\ Range(t) = Range(w) \cup {h} /\ Len(t) = Len(w) + 1
          /\ Distinct(w) /\ Distinct(Append(w, h))
          /\ Append(w, h) \in Seq(Entry) /\ Range(Append(w, h)) = Range(w) \cup {h}
          /\ Len(Append(w, h)) = Len(w) + 1
      BY <3>3, <3>6, <3>7, LookIs DEF RoomLeft
    <3>9. Len(w) \in Nat
      BY <3>6
    <3>10. CASE Spares(h)
      <4> DEFINE z == Append(w, h)
      <4>1. RoomLeft(s, z)
        BY <3>3, <3>7, <3>8, <3>10 DEF RoomLeft
      <4>2. rest(n + 1, z)
        <5>1. Append(v, h) \in Seq(Entry) /\ Range(Append(v, h)) = Range(v) \cup {h}
          BY <3>3, Range1
        <5>2. z = r \o Append(v, h)
          <6>1. Append(v, h) = v \o <<h>> /\ z = w \o <<h>> /\ <<h>> \in Seq(Entry)
            BY <3>3, <3>6, AppendIsConcat
          <6>2. w = r \o v
            BY DEF w
          <6>3. (r \o v) \o <<h>> = r \o (v \o <<h>>)
            <7> DEFINE o == <<h>>
            <7>1. o \in Seq(Entry)
              BY <6>1
            <7> HIDE DEF o
            <7>2. (r \o v) \o o = r \o (v \o o)
              BY <3>4, <7>1, ConcatAssociative, SMTT(30)
            <7> QED BY <7>2 DEF o
          <6> HIDE DEF z
          <6> QED BY <6>1, <6>2, <6>3
        <5>3. r = SubSeq(s, (n + 1) + 1, N)
          BY <3>2 DEF r
        <5> HIDE DEF z
        <5> QED BY <3>1, <3>10, <5>1, <5>2, <5>3 DEF rest
      <4>3. g[n + 1] = z
        BY <2>2, <2>4, <3>8, <3>10 DEF t
      <4> HIDE DEF z
      <4> QED BY <4>1, <4>2, <4>3 DEF good
    <3>11. CASE ~Spares(h)
      <4>1. Len(s) - Len(w) <= Excess(Len(s))
        BY <1>1, <2>4, <3>8, <3>9 DEF ex, N
      <4>2. Ends(t, s) => Ends(w, s)
        <5>1. <<h>> \in Seq(Entry)
          BY <3>3
        <5>2. Ends(w, t) /\ t \in Seq(Entry)
          BY <3>6, <3>7, <5>1 DEF Ends, RoomLeft
        <5> QED BY <3>6, <5>2, EndsEnds
      <4>3. RoomLeft(s, w)
        BY <3>6, <3>7, <3>8, <3>11, <4>1, <4>2 DEF RoomLeft
      <4>4. rest(n + 1, w)
        <5>1. r = SubSeq(s, (n + 1) + 1, N)
          BY <3>2 DEF r
        <5> QED BY <3>1, <5>1 DEF rest, w
      <4>5. g[n + 1] = w
        BY <2>2, <2>4, <3>8, <3>11 DEF t
      <4> QED BY <4>3, <4>4, <4>5 DEF good
    <3> QED BY <3>10, <3>11 DEF good
  <2> QED BY <2>3, <2>4
<1>5. good(N)
  <2>1. N \in Good
    <3> HIDE DEF Good
    <3> QED BY <1>1, <1>3, <1>4, Climb
  <2> QED BY <1>1, <2>1
<1>6. ASSUME rest(N, g[N]) PROVE \A x \in Range(g[N]) : Spares(x)
  <2>1. PICK v \in Seq(Entry) : g[N] = SubSeq(s, N + 1, N) \o v /\ \A x \in Range(v) : Spares(x)
    BY <1>6
  <2>2. SubSeq(s, N + 1, N) = << >>
    BY <1>1, SubSeqEmpty
  <2> QED BY <2>1, <2>2, ConcatEmptySeq
<1> QED BY <1>2, <1>5, <1>6 DEF N, ex

LEMMA Roomy ==
  ASSUME NEW c, NEW u, Agree(c, u), capacity \in Nat
  PROVE  /\ Agree(Room(c), u)
         /\ loose => (Full(c, u) => Full(Room(c), u))
         /\ ~loose => (Ends(Alive(c), u) => Ends(Alive(Room(c)), u))
<1>1. /\ c \in Seq(Entry) /\ Distinct(c) /\ u \in Seq(Entry) /\ Distinct(u)
      /\ Range(u) \subseteq Living /\ \A x \in Range(c) : x.obj # Dead => x \in Range(u)
  BY DEF Agree
<1>2. RoomLeft(c, Room(c))
  BY <1>1, RoomIs
<1>3. Agree(Room(c), u)
  BY <1>1, <1>2 DEF Agree, RoomLeft
<1>4. ASSUME loose, Full(c, u), NEW x \in Range(u), x.obj \notin Falsy PROVE x \in Range(Room(c))
  <2>1. x \in Range(c) /\ Spares(x)
    BY <1>1, <1>4 DEF Full, Living, Spares
  <2> QED BY <1>2, <2>1 DEF RoomLeft
<1>5. ASSUME ~loose, Ends(Alive(c), u) PROVE Ends(Alive(Room(c)), u)
  <2>1. Ends(Room(c), c) /\ Room(c) \in Seq(Entry)
    BY <1>2, <1>5 DEF Spares, RoomLeft
  <2>2. Ends(Alive(Room(c)), Alive(c))
    BY <1>1, <2>1, AliveIs, EndsOnly
  <2> QED BY <1>1, <1>5, <2>1, <2>2, AliveIs, EndsEnds
<1> QED BY <1>3, <1>4, <1>5 DEF Full

(* put: the entry is the last one of what is left, which has its key not.  *)
LEMMA StoredIs ==
  ASSUME Agree(cache, uses), capacity \in Nat, NEW k \in Keys, NEW o \in Objects
  PROVE  LET v == Append(Omit(uses, k), [key |-> k, obj |-> o]) IN
         /\ Agree(Stored(k, o), v)
         /\ loose => (Full(cache, uses) => Full(Stored(k, o), v))
         /\ ~loose => (Ends(Alive(cache), uses) => Ends(Alive(Stored(k, o)), v))
<1> DEFINE e == [key |-> k, obj |-> o]  v == Append(Omit(uses, k), e)
           c == IF k \in KeysOf(cache) THEN cache ELSE Room(cache)
<1>1. /\ Agree(c, uses)
      /\ loose => (Full(cache, uses) => Full(c, uses))
      /\ ~loose => (Ends(Alive(cache), uses) => Ends(Alive(c), uses))
  BY Roomy
<1>2. Stored(k, o) = Append(Omit(c, k), e)
  <2>1. CASE k \in KeysOf(cache)
    BY <2>1 DEF Stored
  <2>2. CASE k \notin KeysOf(cache)
    <3>1. cache \in Seq(Entry) /\ RoomLeft(cache, Room(cache))
      BY RoomIs DEF Agree
    <3>2. Room(cache) \in Seq(Entry) /\ Range(Room(cache)) \subseteq Range(cache)
      BY <3>1 DEF RoomLeft
    <3>3. \A x \in Range(Room(cache)) : x.key # k /\ x \in Entry
      BY <2>2, <3>1, <3>2, RangeEntry
    <3>4. Omit(Room(cache), k) = Room(cache)
      <4>1. Range(Room(cache)) \subseteq Others(k)
        BY <3>3 DEF Others
      <4> QED BY <3>2, <4>1, OmitIs, OnlyAll
    <3> QED BY <2>2, <3>4 DEF Stored
  <2> QED BY <2>1, <2>2
<1>3. Kept2(c, uses, Append(Omit(c, k), e), v)
  BY <1>1, Renewed
<1> HIDE DEF c, e, v
<1>4. /\ Agree(Stored(k, o), v)
      /\ loose => (Full(cache, uses) => Full(Stored(k, o), v))
      /\ ~loose => (Ends(Alive(cache), uses) => Ends(Alive(Stored(k, o)), v))
  BY <1>1, <1>2, <1>3 DEF Kept2
<1> QED BY <1>4 DEF v, e

(* A dead entry is dropped. *)
LEMMA Cleaned ==
  ASSUME NEW c, NEW u, Agree(c, u), NEW k, k \in KeysOf(c), At(c, k).obj = Dead
  PROVE  Kept2(c, u, Omit(c, k), u)
<1>1. c \in Seq(Entry) /\ Distinct(c)
  BY DEF Agree
<1>2. ASSUME NEW x \in Range(c), x.obj # Dead PROVE x \in Others(k)
  <2>1. x.key # k /\ x \in Entry
    BY <1>1, <1>2, AtIs, RangeEntry
  <2> QED BY <2>1 DEF Others
<1>3. Omit(c, k) = Only(c, Others(k))
  BY <1>1, OmitIs
<1> QED BY <1>2, <1>3, Dropped

(* get of an entry that is alive puts it and its use to the end. *)
LEMMA Moved ==
  ASSUME NEW c, NEW u, Agree(c, u), NEW k \in Keys, k \in KeysOf(c), At(c, k).obj # Dead
  PROVE  Kept2(c, u, ToEnd(c, k), ToEnd(u, k))
<1>1. /\ c \in Seq(Entry) /\ Distinct(c) /\ u \in Seq(Entry) /\ Distinct(u)
      /\ \A x \in Range(c) : x.obj # Dead => x \in Range(u)
  BY DEF Agree
<1> DEFINE x == At(c, k)
<1>2. x \in Range(c) /\ x.key = k /\ x \in Range(u)
  BY <1>1, AtIs
<1>3. x \in Entry /\ x.obj \in Objects
  BY <1>1, <1>2, RangeEntry
<1>4. k \in KeysOf(u) /\ At(u, k) = x
  <2>1. k \in KeysOf(u)
    BY <1>1, <1>2, RangeEntry
  <2> QED BY <1>1, <1>2, <2>1, AtIs
<1>5. x = [key |-> k, obj |-> x.obj]
  BY <1>2, <1>3 DEF Entry
<1> HIDE DEF x
<1>6. ToEnd(c, k) = Append(Omit(c, k), x) /\ ToEnd(u, k) = Append(Omit(u, k), x)
  BY <1>4 DEF ToEnd, x
<1>7. Kept2(c, u, Append(Omit(c, k), [key |-> k, obj |-> x.obj]), Append(Omit(u, k), [key |-> k, obj |-> x.obj]))
  BY <1>3, Renewed
<1> QED BY <1>5, <1>6, <1>7

-----------------------------------------------------------------------------
(* The invariant, action by action.  Where the modes stay as they are the  *)
(* two promises follow from what a step does to the entries and the uses.  *)
LEMMA Promises ==
  ASSUME WInv, modes' = modes, loose' = loose, capacity' = capacity, broken' \in BOOLEAN, items' \in Seq(Entry),
         Agree(cache', uses'),
         loose => (Full(cache, uses) => Full(cache', uses')),
         ~loose => (Ends(Alive(cache), uses) => Ends(Alive(cache'), uses'))
  PROVE  WInv'
<1>1. modes = {TRUE} => loose
  BY DEF WInv
<1>2. modes = {FALSE} => ~loose
  BY DEF WInv
<1>3. Alive(cache)' = Alive(cache')
  BY DEF Alive, Entry
<1>4. Full(cache, uses)' = Full(cache', uses') /\ Agree(cache, uses)' = Agree(cache', uses')
  BY DEF Full, Agree, Distinct, Living, Entry
<1>5. Ends(Alive(cache), uses)' = Ends(Alive(cache'), uses')
  BY <1>3 DEF Ends, Entry
<1> QED BY <1>1, <1>2, <1>4, <1>5 DEF WInv

LEMMA CapacityIsNat ==
  ASSUME WInv
  PROVE  capacity \in Nat
BY WeakCacheAssumption DEF WInv

LEMMA CleanupStep ==
  ASSUME WInv, NEW k, _cleanup_key_if_expired(k)
  PROVE  /\ Agree(cache', uses)
         /\ loose => (Full(cache, uses) => Full(cache', uses))
         /\ ~loose => (Ends(Alive(cache), uses) => Ends(Alive(cache'), uses))
         /\ KeysOf(cache') \subseteq KeysOf(cache)
<1>1. Agree(cache, uses) /\ cache \in Seq(Entry)
  BY DEF WInv, Agree
<1>2. CASE k \in KeysOf(cache) /\ At(cache, k).obj = Dead
  <2>1. cache' = Omit(cache, k)
    BY <1>2 DEF _cleanup_key_if_expired
  <2>2. Kept2(cache, uses, Omit(cache, k), uses)
    BY <1>1, <1>2, Cleaned
  <2>3. KeysOf(Omit(cache, k)) \subseteq KeysOf(cache)
    BY <1>1, OmitIs, RangeEntry
  <2> QED BY <2>1, <2>2, <2>3 DEF Kept2
<1>3. CASE ~(k \in KeysOf(cache) /\ At(cache, k).obj = Dead)
  <2>1. cache' = cache
    BY <1>3 DEF _cleanup_key_if_expired
  <2> QED BY <1>1, <2>1
<1> QED BY <1>2, <1>3

(* What the steps other than put have in common: they bring no new key.    *)
Keyless == KeysOf(cache') \subseteq KeysOf(cache)

LEMMA GetStep ==
  ASSUME WInv, NEW k \in Keys, Get(k)
  PROVE  WInv' /\ Keyless
<1>1. Agree(cache, uses) /\ cache \in Seq(Entry) /\ Distinct(cache) /\ items \in Seq(Entry) /\ broken \in BOOLEAN
  BY DEF WInv, Agree
<1>2. UNCHANGED <<capacity, loose, items, broken, modes>> /\ k \in KeysOf(cache)
  BY DEF Get
<1>3. KeysOf(Omit(cache, k)) \subseteq KeysOf(cache)
  BY <1>1, OmitIs, RangeEntry
<1>4. CASE At(cache, k).obj = Dead
  <2>1. cache' = Omit(cache, k) /\ uses' = uses
    BY <1>4 DEF Get
  <2>2. Kept2(cache, uses, cache', uses')
    BY <1>1, <1>2, <1>4, <2>1, Cleaned
  <2> QED BY <1>1, <1>2, <1>3, <2>1, <2>2, Promises DEF Kept2, Keyless
<1>5. CASE At(cache, k).obj # Dead
  <2>1. cache' = ToEnd(cache, k) /\ uses' = ToEnd(uses, k)
    BY <1>5 DEF Get
  <2>2. Kept2(cache, uses, cache', uses')
    BY <1>1, <1>2, <1>5, <2>1, Moved
  <2>3. KeysOf(ToEnd(cache, k)) \subseteq KeysOf(cache)
    <3>1. At(cache, k) \in Range(cache) /\ At(cache, k) \in Entry
      BY <1>1, <1>2, AtIs, RangeEntry
    <3>2. Range(ToEnd(cache, k)) \subseteq Range(cache) /\ ToEnd(cache, k) \in Seq(Entry)
      BY <1>1, <1>2, <3>1, OmitIs, Range1 DEF ToEnd
    <3> QED BY <1>1, <3>2, RangeEntry
  <2> QED BY <1>1, <1>2, <2>1, <2>2, <2>3, Promises DEF Kept2, Keyless
<1> QED BY <1>4, <1>5

LEMMA PutStep ==
  ASSUME WInv, NEW k \in Keys, NEW o \in Objects, Put(k, o)
  PROVE  WInv'
<1>1. Agree(cache, uses) /\ items \in Seq(Entry) /\ broken \in BOOLEAN
  BY DEF WInv
<1>2. UNCHANGED <<capacity, loose, items, broken, modes>>
  BY DEF Put
<1>3. cache' = Stored(k, o) /\ uses' = Append(Omit(uses, k), [key |-> k, obj |-> o])
  BY DEF Put
<1>4. /\ Agree(cache', uses')
      /\ loose => (Full(cache, uses) => Full(cache', uses'))
      /\ ~loose => (Ends(Alive(cache), uses) => Ends(Alive(cache'), uses'))
  BY <1>1, <1>3, CapacityIsNat, StoredIs
<1> QED BY <1>1, <1>2, <1>4, Promises

LEMMA ForgetStep ==
  ASSUME WInv, NEW k \in Keys, Forget(k)
  PROVE  WInv' /\ Keyless
<1>1. Agree(cache, uses) /\ cache \in Seq(Entry) /\ items \in Seq(Entry) /\ broken \in BOOLEAN
  BY DEF WInv, Agree
<1>2. UNCHANGED <<capacity, loose, items, broken, modes>>
  BY DEF Forget
<1>3. cache' = Omit(cache, k) /\ uses' = Omit(uses, k)
  BY DEF Forget
<1>4. Kept2(cache, uses, cache', uses')
  BY <1>1, <1>3, Forgotten
<1>5. Keyless
  BY <1>1, <1>3, OmitIs, RangeEntry DEF Keyless
<1> QED BY <1>1, <1>2, <1>4, <1>5, Promises DEF Kept2

LEMMA IterStep ==
  ASSUME WInv, NEW k \in Keys, IterNext(k)
  PROVE  WInv' /\ Keyless
<1>1. _cleanup_key_if_expired(k) /\ UNCHANGED <<capacity, loose, items, broken, uses, modes>>
  BY DEF IterNext
<1>2. items \in Seq(Entry) /\ broken \in BOOLEAN
  BY DEF WInv
<1>3. /\ Agree(cache', uses)
      /\ loose => (Full(cache, uses) => Full(cache', uses))
      /\ ~loose => (Ends(Alive(cache), uses) => Ends(Alive(cache'), uses))
      /\ KeysOf(cache') \subseteq KeysOf(cache)
  BY <1>1, CleanupStep
<1> QED BY <1>1, <1>2, <1>3, Promises DEF Keyless

LEMMA ExpireStep ==
  ASSUME WInv, NEW n \in 1 .. Len(cache), Expire(n)
  PROVE  WInv' /\ Keyless
<1>1. Agree(cache, uses) /\ cache \in Seq(Entry) /\ Distinct(cache) /\ items \in Seq(Entry) /\ broken \in BOOLEAN
  BY DEF WInv, Agree
<1>2. UNCHANGED <<capacity, loose, items, broken, uses, modes>>
  BY DEF Expire
<1>3. PICK keep : cache' = Only(cache, keep) /\ \A x \in Range(cache) : x.obj # Dead => x \in keep
  BY <1>1, Expired DEF Expire
<1>4. Kept2(cache, uses, cache', uses')
  BY <1>1, <1>2, <1>3, Dropped
<1>5. Keyless
  BY <1>1, <1>3, OnlyIn, RangeEntry DEF Keyless
<1> QED BY <1>1, <1>2, <1>4, <1>5, Promises DEF Kept2

LEMMA DieStep ==
  ASSUME WInv, NEW o \in Objects, Die(o)
  PROVE  WInv' /\ Keyless
<1>1. Agree(cache, uses) /\ cache \in Seq(Entry) /\ items \in Seq(Entry) /\ broken \in BOOLEAN
  BY DEF WInv, Agree
<1>2. UNCHANGED <<capacity, loose, broken, modes>>
  BY DEF Die
<1>3. cache' = Killed(cache, o) /\ uses' = Leaving(uses, o) /\ items' = Killed(items, o)
  BY DEF Die
<1>4. Kept2(cache, uses, cache', uses')
  BY <1>1, <1>3, Died
<1>5. items' \in Seq(Entry)
  BY <1>1, <1>3, KilledIs
<1>6. Keyless
  <2>1. /\ cache' \in Seq(Entry) /\ DOMAIN cache' = DOMAIN cache
        /\ \A i \in DOMAIN cache : cache'[i] = Becomes(cache[i], o)
    BY <1>1, <1>3, KilledIs
  <2>2. \A i \in DOMAIN cache : cache'[i].key = cache[i].key
    BY <2>1 DEF Becomes, DeadAt
  <2> QED BY <2>1, <2>2 DEF KeysOf, Keyless
<1> QED BY <1>1, <1>2, <1>4, <1>5, <1>6, Promises DEF Kept2

LEMMA ItemsStep ==
  ASSUME WInv, ItemsBegin \/ ItemsNext
  PROVE  WInv' /\ Keyless
<1>1. /\ Agree(cache, uses) /\ cache \in Seq(Entry) /\ items \in Seq(Entry) /\ broken \in BOOLEAN
      /\ Alive(cache) \in Seq(Entry)
  BY AliveIs DEF WInv, Agree
<1>2. CASE ItemsBegin
  <2>1. items' = cache /\ UNCHANGED <<cache, capacity, loose, broken, uses, modes>>
    BY <1>2 DEF ItemsBegin
  <2> QED BY <1>1, <2>1, Promises DEF Keyless
<1>3. CASE ItemsNext
  <2>1. /\ _cleanup_key_if_expired(Head(items).key) /\ items # <<>>
        /\ (broken' = TRUE /\ items' = <<>>) \/ (broken' = broken /\ items' = Tail(items))
        /\ UNCHANGED <<capacity, loose, uses, modes>>
    BY <1>3 DEF ItemsNext
  <2>2. items' \in Seq(Entry) /\ broken' \in BOOLEAN
    <3>1. Tail(items) \in Seq(Entry) /\ << >> \in Seq(Entry)
      BY <1>1, <2>1
    <3> QED BY <1>1, <2>1, <3>1
  <2>3. /\ Agree(cache', uses)
        /\ loose => (Full(cache, uses) => Full(cache', uses))
        /\ ~loose => (Ends(Alive(cache), uses) => Ends(Alive(cache'), uses))
        /\ KeysOf(cache') \subseteq KeysOf(cache)
    BY <2>1, CleanupStep
  <2> QED BY <2>1, <2>2, <2>3, Promises DEF Keyless
<1> QED BY <1>2, <1>3

LEMMA EmptyAgrees ==
  Agree(<<>>, <<>>) /\ Full(<<>>, <<>>) /\ Ends(Alive(<<>>), <<>>) /\ KeysOf(<<>>) = {}
<1>1. << >> \in Seq(Entry) /\ DOMAIN << >> = {}
  <2>1. << >> \in Seq(Entry) /\ Len(<< >>) = 0
    OBVIOUS
  <2> QED BY <2>1
<1>2. Agree(<<>>, <<>>) /\ Full(<<>>, <<>>)
  BY <1>1 DEF Agree, Full, Distinct, Range
<1>3. Alive(<<>>) = <<>>
  BY OnlyEmpty DEF Alive
<1>4. Ends(<<>>, <<>>)
  BY <1>1, ConcatEmptySeq DEF Ends
<1> QED BY <1>1, <1>2, <1>3, <1>4 DEF KeysOf

LEMMA ModeStep ==
  ASSUME WInv, Clear \/ SetLoose \/ \E c \in Capacities : Resize(c)
  PROVE  WInv' /\ Keyless
<1>1. CASE Clear
  <2>1. cache' = <<>> /\ uses' = <<>> /\ UNCHANGED <<capacity, loose, items, broken, modes>>
    BY <1>1 DEF Clear
  <2>2. items' \in Seq(Entry) /\ broken' \in BOOLEAN
    BY <2>1 DEF WInv
  <2> QED BY <2>1, <2>2, EmptyAgrees, Promises DEF Keyless
<1>2. CASE SetLoose
  <2>1. modes' = {TRUE, FALSE} /\ loose' = ~loose /\ UNCHANGED <<cache, capacity, items, broken, uses>>
    BY <1>2 DEF SetLoose
  <2>2. modes' # {TRUE} /\ modes' # {FALSE} /\ loose' \in BOOLEAN /\ loose' \in modes' /\ modes' \subseteq BOOLEAN
    BY <2>1 DEF WInv
  <2>3. Agree(cache, uses)' = Agree(cache, uses)
    BY <2>1 DEF Agree, Distinct, Living, Entry
  <2>4. (modes = {TRUE})' = FALSE /\ (modes = {FALSE})' = FALSE
    BY <2>2
  <2> QED BY <2>1, <2>2, <2>3, <2>4 DEF WInv, Keyless
<1>3. ASSUME NEW c \in Capacities, Resize(c) PROVE WInv' /\ Keyless
  <2>1. capacity' = c /\ UNCHANGED <<cache, loose, items, broken, uses, modes>>
    BY <1>3 DEF Resize
  <2>2. Agree(cache, uses)' = Agree(cache, uses) /\ Full(cache, uses)' = Full(cache, uses)
    BY <2>1 DEF Agree, Distinct, Living, Entry, Full
  <2>3. Ends(Alive(cache), uses)' = Ends(Alive(cache), uses)
    BY <2>1 DEF Ends, Alive, Entry
  <2> QED BY <2>1, <2>2, <2>3 DEF WInv, Keyless
<1> QED BY <1>1, <1>2, <1>3

(* A step keeps the invariant, and only put brings a new key. *)
LEMMA Steps ==
  ASSUME WInv, [Next]_vars
  PROVE  WInv' /\ (Keyless \/ \E k \in Keys, o \in Objects : Put(k, o))
<1>1. CASE UNCHANGED vars
  <2>1. Agree(cache, uses)' = Agree(cache, uses) /\ Full(cache, uses)' = Full(cache, uses)
    BY <1>1 DEF vars, Agree, Distinct, Living, Entry, Full
  <2>2. Ends(Alive(cache), uses)' = Ends(Alive(cache), uses)
    BY <1>1 DEF vars, Ends, Alive, Entry
  <2> QED BY <1>1, <2>1, <2>2 DEF vars, WInv, Keyless
<1>2. CASE Next
  <2>1. ASSUME NEW k \in Keys, Get(k) PROVE WInv' /\ Keyless
    BY <2>1, GetStep
  <2>2. ASSUME NEW k \in Keys, Forget(k) PROVE WInv' /\ Keyless
    BY <2>2, ForgetStep
  <2>3. ASSUME NEW k \in Keys, IterNext(k) PROVE WInv' /\ Keyless
    BY <2>3, IterStep
  <2>4. ASSUME NEW k \in Keys, NEW o \in Objects, Put(k, o) PROVE WInv'
    BY <2>4, PutStep
  <2>5. ASSUME NEW n \in 1 .. Len(cache), Expire(n) PROVE WInv' /\ Keyless
    BY <2>5, ExpireStep
  <2>6. ASSUME NEW o \in Objects, Die(o) PROVE WInv' /\ Keyless
    BY <2>6, DieStep
  <2>7. ASSUME Clear \/ SetLoose \/ \E c \in Capacities : Resize(c) PROVE WInv' /\ Keyless
    BY <2>7, ModeStep
  <2>8. ASSUME ItemsBegin \/ ItemsNext PROVE WInv' /\ Keyless
    BY <2>8, ItemsStep
  <2> QED BY <1>2, <2>1, <2>2, <2>3, <2>4, <2>5, <2>6, <2>7, <2>8 DEF Next
<1> QED BY <1>1, <1>2

LEMMA InitHolds ==
  ASSUME Init
  PROVE  WInv
<1>1. << >> \in Seq(Entry)
  OBVIOUS
<1> QED BY <1>1, EmptyAgrees DEF Init, WInv

-----------------------------------------------------------------------------
(* The invariant holds in every state, whatever the keys, the objects and  *)
(* the capacities, and whichever objects are false as a condition.         *)
THEOREM UsesFollowed == Spec => []WInv
<1>1. Init => WInv
  BY InitHolds
<1>2. WInv /\ [Next]_vars => WInv'
  BY Steps
<1> QED BY <1>1, <1>2, PTL DEF Spec

(* The variables have their types, and no key has two entries: put removes *)
(* the old one first.                                                      *)
THEOREM TypeCorrect == Spec => []TypeOK
<1>1. WInv => TypeOK
  BY DEF WInv, Agree, Distinct, TypeOK
<1> QED BY <1>1, UsesFollowed, PTL

(* get returns what was last put under the key; while the cache was always *)
(* in loose mode no put throws out what is in use, unless it is false as a *)
(* condition.  trigger_event takes its locks from such a cache.            *)
THEOREM LatestHeld == Spec => []HoldsLatest
<1>1. ASSUME WInv PROVE HoldsLatest
  <2>1. cache \in Seq(Entry) /\ \A x \in Range(cache) : x.obj # Dead => x \in Range(uses)
    BY <1>1 DEF WInv, Agree
  <2>2. Range(Alive(cache)) \subseteq Range(uses)
    BY <2>1, AliveIs
  <2>3. modes = {TRUE} => Full(cache, uses)
    BY <1>1 DEF WInv
  <2> QED BY <2>2, <2>3 DEF HoldsLatest, Full
<1> QED BY <1>1, UsesFollowed, PTL

(* While the cache was always strict it has the most recently used of what *)
(* is alive, in that order: eviction is by least recent use, through any   *)
(* deaths, expirations and forgotten keys.                                 *)
THEOREM RecentKept == Spec => []RecentOnes
<1>1. ASSUME WInv PROVE RecentOnes
  <2>1. cache \in Seq(Entry) /\ uses \in Seq(Entry) /\ Alive(cache) \in Seq(Entry)
    BY <1>1, AliveIs DEF WInv, Agree
  <2>2. modes = {FALSE} => Ends(Alive(cache), uses)
    BY <1>1 DEF WInv
  <2> QED BY <2>1, <2>2, EndsIsSuffix DEF RecentOnes
<1> QED BY <1>1, UsesFollowed, PTL

(* put makes room: the loop stops when enough is gone or everything that   *)
(* is left is in use, and not before and not later.                        *)
LEMMA PutFits ==
  ASSUME WInv, NEW k \in Keys, NEW o \in Objects, Put(k, o), k \notin KeysOf(cache)
  PROVE  /\ \/ Within(Len(cache'))
            \/ loose /\ \A x \in Range(Front(cache')) : x.obj \notin Falsy \cup {Dead}
         /\ Len(cache') > Len(cache) \/ Len(cache') >= capacity
<1> DEFINE r == Room(cache)  e == [key |-> k, obj |-> o]  N == Len(cache)
<1>1. cache' = Append(r, e)
  BY DEF Put, Stored
<1>2. capacity \in Nat /\ cache \in Seq(Entry) /\ Distinct(cache)
  BY CapacityIsNat DEF WInv, Agree
<1>3. /\ RoomLeft(cache, r)
      /\ (N - Len(r) >= Excess(N)) \/ (\A x \in Range(r) : Spares(x))
  BY <1>2, RoomIs
<1>4. r \in Seq(Entry) /\ N - Len(r) <= Excess(N)
  BY <1>3 DEF RoomLeft
<1>5. N \in Nat /\ Len(r) \in Nat /\ e \in Entry
  BY <1>2, <1>4 DEF Entry
<1> HIDE DEF r, e
<1>6. Len(cache') = Len(r) + 1 /\ Front(cache') = r
  <2>1. Len(Append(r, e)) = Len(r) + 1 /\ \A i \in 1 .. Len(r) : Append(r, e)[i] = r[i]
    BY <1>4, <1>5, AppendProperties
  <2>2. Append(r, e) = r \o <<e>> /\ <<e>> \in Seq(Entry)
    BY <1>4, <1>5, AppendIsConcat
  <2>3. SubSeq(Append(r, e), 1, Len(r)) = r
    <3> DEFINE q == SubSeq(Append(r, e), 1, Len(r))
    <3>1. q \in Seq(Entry) /\ Len(q) = Len(r) /\ \A i \in 1 .. Len(r) : q[i] = r[i]
      BY <1>4, <1>5, <2>1, AppendProperties
    <3> HIDE DEF q
    <3>2. q = r
      BY <1>4, <3>1, SeqEqual
    <3> QED BY <3>2 DEF q
  <2> QED BY <1>1, <1>5, <2>1, <2>3 DEF Front
<1>7. Len(cache') > N \/ Len(cache') >= capacity
  BY <1>2, <1>4, <1>5, <1>6 DEF Excess
<1>8. CASE N - Len(r) >= Excess(N)
  <2>1. Len(cache') <= capacity
    BY <1>2, <1>5, <1>6, <1>8 DEF Excess
  <2> QED BY <1>7, <2>1 DEF Within
<1>9. CASE \A x \in Range(r) : Spares(x)
  <2>1. CASE loose
    <3>1. \A x \in Range(Front(cache')) : x.obj \notin Falsy \cup {Dead}
      BY <1>6, <1>9 DEF Spares
    <3> QED BY <1>7, <2>1, <3>1
  <2>2. CASE ~loose
    <3>1. Range(r) = {}
      BY <1>9, <2>2 DEF Spares
    <3>2. Len(r) = 0
      <4>1. DOMAIN r = 1 .. Len(r)
        BY <1>4
      <4>2. 1 \notin 1 .. Len(r)
        BY <3>1, <4>1 DEF Range
      <4> QED BY <1>5, <4>2
    <3> QED BY <1>6, <1>7, <3>2 DEF Within
  <2> QED BY <2>1, <2>2
<1> QED BY <1>3, <1>8, <1>9

(* After a put of a new key the cache is within its capacity again, or it  *)
(* is loose and has nothing but entries in use; and it has thrown out no   *)
(* more than it had to.                                                    *)
THEOREM Fits == Spec => FitsAgain
<1> DEFINE A == KeysOf(cache') \ KeysOf(cache) # {} =>
       /\ Within(Len(cache')) \/ (loose /\ \A x \in Range(Front(cache')) : x.obj \notin Falsy \cup {Dead})
       /\ Len(cache') > Len(cache) \/ Len(cache') >= capacity
<1>1. ASSUME WInv, [Next]_vars PROVE [A]_vars
  <2>1. CASE Keyless
    BY <2>1 DEF Keyless
  <2>2. ASSUME NEW k \in Keys, NEW o \in Objects, Put(k, o) PROVE A
    <3>1. CASE k \notin KeysOf(cache)
      BY <1>1, <2>2, <3>1, PutFits
    <3>2. CASE k \in KeysOf(cache)
      <4>1. cache \in Seq(Entry)
        BY <1>1 DEF WInv, Agree
      <4> DEFINE e == [key |-> k, obj |-> o]
      <4>2. cache' = Append(Omit(cache, k), e) /\ e \in Entry /\ e.key = k
        BY <2>2, <3>2 DEF Put, Stored, Entry
      <4>3. Omit(cache, k) \in Seq(Entry) /\ Range(Omit(cache, k)) \subseteq Range(cache)
        BY <4>1, OmitIs
      <4> HIDE DEF e
      <4>4. cache' \in Seq(Entry) /\ Range(cache') \subseteq Range(cache) \cup {e}
        BY <4>2, <4>3, Range1
      <4>5. KeysOf(cache') \subseteq KeysOf(cache)
        <5>1. KeysOf(cache') = {x.key : x \in Range(cache')} /\ KeysOf(cache) = {x.key : x \in Range(cache)}
          BY <4>1, <4>4, RangeEntry
        <5>2. ASSUME NEW x \in Range(cache') PROVE x.key \in KeysOf(cache)
          <6>1. CASE x = e
            BY <3>2, <4>2, <6>1
          <6>2. CASE x \in Range(cache)
            BY <5>1, <6>2
          <6> QED BY <4>4, <6>1, <6>2
        <5> QED BY <5>1, <5>2
      <4> QED BY <4>5
    <3> QED BY <3>1, <3>2
  <2> QED BY <1>1, <2>1, <2>2, Steps
<1>2. Spec => [][A]_vars
  BY <1>1, UsesFollowed, PTL DEF Spec
<1> QED BY <1>2 DEF FitsAgain
=============================================================================
