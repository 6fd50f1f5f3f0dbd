------------------------ MODULE EventDispatchProofs ------------------------
(***************************************************************************)
(* Proof that two dispatches of one event type never overlap.  The lock of *)
(* an event type is found through a pool that forgets it as soon as nobody *)
(* refers to it, so the argument is not that of a single lock: the         *)
(* dispatches under way refer to the lock that the pool has for their      *)
(* event, hence to the same one, and only one of them is its holder.  On   *)
(* this rests the rest: that handlers are called in order and none is      *)
(* skipped, for only the holder of the lock removes from the lists.        *)
(***************************************************************************)
EXTENDS EventDispatch, FiniteSetTheorems, SequenceTheorems, WellFoundedInduction, TLAPS

-----------------------------------------------------------------------------
(***************************************************************************)
(* What is left of a list: as in WeakCacheProofs, Only gives the elements  *)
(* that are kept, each at its place.                                       *)
(***************************************************************************)

(* Every set of natural numbers that is not empty has a least element. *)
LEMMA Least ==
  ASSUME NEW S \in SUBSET Nat, S # {}
  PROVE  \E m \in S : \A k \in S : m <= k
<1>1. PICK m \in S : \A k \in S : ~(<<k, m>> \in OpToRel(<, Nat))
  BY NatLessThanWellFounded, WFMin
<1>2. \A k \in S : ~(k < m)
  BY <1>1, Zenon DEF OpToRel
<1> QED BY <1>2

(* Induction, stated with a set for the property. *)
LEMMA Climb ==
  ASSUME NEW S, 0 \in S, \A n \in Nat : n \in S => n + 1 \in S
  PROVE  Nat \subseteq S
<1> SUFFICES ASSUME ~(Nat \subseteq S) PROVE FALSE
  OBVIOUS
<1>1. PICK m \in Nat \ S : \A k \in Nat \ S : m <= k
  BY Least
<1>2. m # 0 /\ m - 1 \in Nat
  BY <1>1
<1>3. m - 1 \in S
  BY <1>1, <1>2
<1> QED BY <1>2, <1>3

(* t lists the elements of the first n elements of s that are in keep, at  *)
(* the places that f gives.                                                *)
Lists(t, f, s, n, keep) ==
  /\ f \in [DOMAIN t -> 1 .. n]
  /\ \A k \in DOMAIN t : t[k] = s[f[k]] /\ s[f[k]] \in keep
  /\ \A j, k \in DOMAIN t : j < k => f[j] < f[k]
  /\ \A m \in 1 .. n : s[m] \in keep => \E k \in DOMAIN t : f[k] = m

(* One step of the recursion that defines Only. *)
Kept(s, keep, g, m) ==
  IF m = 0 THEN <<>> ELSE IF s[m] \in keep THEN Append(g[m - 1], s[m]) ELSE g[m - 1]

(* There is a function that satisfies the recursion. *)
LEMMA OnlyDefined ==
  ASSUME NEW S, NEW s \in Seq(S), NEW keep
  PROVE  \E g : g = [m \in 0 .. Len(s) |-> Kept(s, keep, g, m)] /\ Only(s, keep) = g[Len(s)]
<1> DEFINE upto(n) == \E g : g = [m \in 0 .. n |-> Kept(s, keep, g, m)]
           Good == {n \in Nat : upto(n)}
<1>1. 0 \in Good
  <2> DEFINE g == [m \in 0 .. 0 |-> <<>>]
  <2>1. g = [m \in 0 .. 0 |-> Kept(s, keep, g, m)]
    BY DEF Kept
  <2> QED BY <2>1
<1>2. ASSUME NEW n \in Nat, n \in Good PROVE n + 1 \in Good
  <2>1. PICK g : g = [m \in 0 .. n |-> Kept(s, keep, g, m)]
    BY <1>2
  <2> DEFINE x == IF s[n + 1] \in keep THEN Append(g[n], s[n + 1]) ELSE g[n]
             h == [m \in 0 .. n + 1 |-> IF m = n + 1 THEN x ELSE g[m]]
  <2>2. \A m \in 0 .. n : h[m] = g[m]
    OBVIOUS
  <2>3. ASSUME NEW m \in 0 .. n + 1 PROVE h[m] = Kept(s, keep, h, m)
    <3>1. CASE m = n + 1
      <4>1. h[m] = x /\ h[m - 1] = g[n] /\ m # 0 /\ s[m] = s[n + 1]
        BY <2>2, <3>1
      <4> HIDE DEF h
      <4> QED BY <4>1, <3>1 DEF Kept
    <3>2. CASE m # n + 1
      <4>1. m \in 0 .. n /\ g[m] = Kept(s, keep, g, m) /\ h[m] = g[m]
        BY <2>1, <2>2, <3>2, SMTT(30)
      <4>2. m # 0 => h[m - 1] = g[m - 1]
        BY <2>2, <3>2
      <4> HIDE DEF h
      <4> QED BY <4>1, <4>2 DEF Kept
    <3> QED BY <3>1, <3>2
  <2>4. h = [m \in 0 .. n + 1 |-> Kept(s, keep, h, m)]
    <3>1. h = [m \in 0 .. n + 1 |-> h[m]]
      OBVIOUS
    <3> HIDE DEF h
    <3> QED BY <2>3, <3>1
  <2> HIDE DEF h
  <2> QED BY <2>4
<1>3. Len(s) \in Good
  <2> HIDE DEF Good
  <2> QED BY <1>1, <1>2, Climb
<1>4. upto(Len(s))
  BY <1>3
<1> DEFINE G == CHOOSE g : g = [m \in 0 .. Len(s) |-> Kept(s, keep, g, m)]
<1>5. G = [m \in 0 .. Len(s) |-> Kept(s, keep, G, m)]
  BY <1>4
<1>6. Only(s, keep) = G[Len(s)]
  BY DEF Only, Kept
<1> HIDE DEF G
<1> QED BY <1>5, <1>6

(* Only(s, keep) has the elements of s in keep, each at its place, in the  *)
(* order of s.                                                             *)
LEMMA OnlyLists ==
  ASSUME NEW S, NEW s \in Seq(S), NEW keep
  PROVE  /\ Only(s, keep) \in Seq(S)
         /\ \E f : Lists(Only(s, keep), f, s, Len(s), keep)
<1>1. PICK g : g = [m \in 0 .. Len(s) |-> Kept(s, keep, g, m)] /\ Only(s, keep) = g[Len(s)]
  BY OnlyDefined
<1> DEFINE good(n) == g[n] \in Seq(S) /\ \E f : Lists(g[n], f, s, n, keep)
           Good == {n \in Nat : n <= Len(s) => good(n)}
<1>2. 0 \in Good
  <2>1. g[0] = <<>>
    BY <1>1 DEF Kept
  <2>2. DOMAIN << >> = {} /\ 1 .. 0 = {}
    <3>1. << >> \in Seq(S) /\ Len(<< >>) = 0
      OBVIOUS
    <3> QED BY <3>1
  <2>3. PICK f : f \in [{} -> {}]
    BY [k \in {} |-> 0] \in [{} -> {}]
  <2>4. f \in [DOMAIN << >> -> 1 .. 0]
    BY <2>2, <2>3
  <2>5. \A k : k \notin DOMAIN << >> /\ k \notin 1 .. 0
    BY <2>2
  <2>6. /\ \A k \in DOMAIN << >> : << >>[k] = s[f[k]] /\ s[f[k]] \in keep
        /\ \A j, k \in DOMAIN << >> : j < k => f[j] < f[k]
        /\ \A m \in 1 .. 0 : s[m] \in keep => \E k \in DOMAIN << >> : f[k] = m
    BY <2>5, Zenon
  <2>7. Lists(<< >>, f, s, 0, keep)
    BY <2>4, <2>6 DEF Lists
  <2>8. << >> \in Seq(S)
    OBVIOUS
  <2>9. good(0)
    BY <2>1, <2>7, <2>8, Zenon
  <2> QED BY <2>9
<1>3. ASSUME NEW n \in Nat, n \in Good PROVE n + 1 \in Good
  <2> SUFFICES ASSUME n + 1 <= Len(s) PROVE good(n + 1)
    OBVIOUS
  <2>1. g[n] \in Seq(S) /\ n + 1 \in 1 .. Len(s) /\ s[n + 1] \in S
    BY <1>3
  <2>2. PICK f : Lists(g[n], f, s, n, keep)
    BY <1>3
  <2>3. g[n + 1] = IF s[n + 1] \in keep THEN Append(g[n], s[n + 1]) ELSE g[n]
    <3>1. n + 1 \in 0 .. Len(s) /\ n + 1 # 0 /\ (n + 1) - 1 = n
      BY <2>1
    <3> QED BY <1>1, <3>1 DEF Kept
  <2> DEFINE t == g[n]  L == Len(g[n])
  <2>4. L \in Nat /\ DOMAIN t = 1 .. L
    BY <2>1
  <2>5. CASE s[n + 1] \in keep
    <3> DEFINE u == Append(t, s[n + 1])
               h == [k \in 1 .. L + 1 |-> IF k = L + 1 THEN n + 1 ELSE f[k]]
    <3>1. u \in Seq(S) /\ DOMAIN u = 1 .. L + 1 /\ u[L + 1] = s[n + 1] /\ \A k \in 1 .. L : u[k] = t[k]
      BY <2>1, <2>4
    <3>2. h \in [1 .. L + 1 -> 1 .. n + 1] /\ h[L + 1] = n + 1 /\ \A k \in 1 .. L : h[k] = f[k] /\ f[k] \in 1 .. n
      <4>1. \A k \in 1 .. L : f[k] \in 1 .. n /\ f[k] \in 1 .. n + 1 /\ k # L + 1 /\ k \in 1 .. L + 1
        BY <2>2, <2>4 DEF Lists
      <4>2. L + 1 \in 1 .. L + 1 /\ n + 1 \in 1 .. n + 1
        BY <2>4
      <4> QED BY <4>1, <4>2
    <3> HIDE DEF u, h
    <3>3. \A k \in 1 .. L + 1 : k = L + 1 \/ k \in 1 .. L
      BY <2>4
    <3>4. \A k \in 1 .. L + 1 : u[k] = s[h[k]] /\ s[h[k]] \in keep
      BY <2>2, <2>4, <2>5, <3>1, <3>2, <3>3 DEF Lists
    <3>5. \A j, k \in 1 .. L + 1 : j < k => h[j] < h[k]
      <4> SUFFICES ASSUME NEW j \in 1 .. L + 1, NEW k \in 1 .. L + 1, j < k PROVE h[j] < h[k]
        OBVIOUS
      <4>1. j \in 1 .. L
        BY <2>4
      <4>2. CASE k = L + 1
        BY <3>2, <4>1, <4>2
      <4>3. CASE k \in 1 .. L
        BY <2>2, <2>4, <3>2, <4>1, <4>3 DEF Lists
      <4> QED BY <3>3, <4>2, <4>3
    <3>6. ASSUME NEW m \in 1 .. n + 1, s[m] \in keep PROVE \E k \in 1 .. L + 1 : h[k] = m
      <4>1. CASE m = n + 1
        BY <2>4, <3>2, <4>1
      <4>2. CASE m # n + 1
        <5>1. PICK k \in 1 .. L : f[k] = m
          BY <2>2, <2>4, <3>6, <4>2 DEF Lists
        <5> QED BY <3>2, <5>1, <2>4
      <4> QED BY <4>1, <4>2
    <3>7. Lists(u, h, s, n + 1, keep)
      BY <3>1, <3>2, <3>4, <3>5, <3>6 DEF Lists
    <3> QED BY <2>3, <2>5, <3>1, <3>7 DEF u
  <2>6. CASE s[n + 1] \notin keep
    <3>1. Lists(t, f, s, n + 1, keep)
      <4>1. f \in [DOMAIN t -> 1 .. n + 1]
        BY <2>2 DEF Lists
      <4>2. \A m \in 1 .. n + 1 : s[m] \in keep => m \in 1 .. n
        BY <2>6
      <4> QED BY <2>2, <4>1, <4>2 DEF Lists
    <3> QED BY <2>1, <2>3, <2>6, <3>1
  <2> QED BY <2>5, <2>6
<1>4. Len(s) \in Good
  <2> HIDE DEF Good
  <2> QED BY <1>2, <1>3, Climb
<1> QED BY <1>1, <1>4

-----------------------------------------------------------------------------
(* The invariant of the lock *)

Active == Inside \cup {"queued"}

Types ==
  /\ pool \in [Events -> Locks \cup {Nobody}]
  /\ holder \in [Locks -> Dispatches \cup {Nobody}]
  /\ queue \in [Locks -> Seq(Dispatches)]
  /\ step \in [Dispatches -> Steps]
  /\ event \in [Dispatches -> Events]
  /\ lock \in [Dispatches -> Locks \cup {Nobody}]
  /\ caller \in [Dispatches -> Dispatches \cup {Nobody}]

(* A dispatch refers to a lock from the call to the return, and it is the  *)
(* one that the pool has.                                                  *)
Refers ==
  \A d \in Dispatches :
    /\ lock[d] # Nobody <=> step[d] \in Active
    /\ step[d] \in Active => pool[event[d]] = lock[d]

(* Who is inside is the holder, and who waits is in the queue once.        *)
Holds == \A d \in Dispatches : step[d] \in Inside => holder[lock[d]] = d
Waits ==
  \A o \in Locks : \A i \in DOMAIN queue[o] :
    /\ step[queue[o][i]] = "queued" /\ lock[queue[o][i]] = o
    /\ \A j \in DOMAIN queue[o] : queue[o][j] = queue[o][i] => j = i

(* A handler awaits one call at a time.                                    *)
Awaits ==
  \A d \in Dispatches :
    step[d] \in Active /\ caller[d] # Nobody =>
      /\ step[caller[d]] = "awaits"
      /\ \A c \in Dispatches : step[c] \in Active /\ caller[c] = caller[d] => c = d

IInv == Types /\ Refers /\ Holds /\ Waits /\ Awaits

-----------------------------------------------------------------------------
(* There is always a lock object that is not in use. *)
LEMMA FreshLock ==
  ASSUME IInv, NEW d \in Dispatches, step[d] = "idle"
  PROVE  \E o \in Locks : o \notin InUse
<1> DEFINE Referring == {c \in Dispatches : lock[c] # Nobody}
           f == [c \in Referring |-> lock[c]]
<1> USE EventDispatchAssumption
<1>1. Referring \subseteq Dispatches \ {d}
  BY DEF IInv, Refers, Types, Active, Inside
<1>2. IsFiniteSet(Dispatches \ {d}) /\ Cardinality(Dispatches \ {d}) = Cardinality(Dispatches) - 1
  BY FS_RemoveElement
<1>3. IsFiniteSet(Referring) /\ Cardinality(Referring) <= Cardinality(Dispatches \ {d})
  BY <1>1, <1>2, FS_Subset
<1>4. f \in Surjection(Referring, InUse)
  BY DEF Surjection, InUse
<1>5. IsFiniteSet(InUse) /\ Cardinality(InUse) <= Cardinality(Referring)
  BY <1>3, <1>4, FS_Surjection
<1>6. /\ Cardinality(Dispatches) \in Nat /\ Cardinality(Locks) \in Nat
      /\ Cardinality(InUse) \in Nat /\ Cardinality(Referring) \in Nat
  BY <1>3, <1>5, FS_CardinalityType
<1>7. Cardinality(InUse) < Cardinality(Locks)
  BY <1>2, <1>3, <1>5, <1>6
<1>8. ~(Locks \subseteq InUse)
  <2>1. SUFFICES ASSUME Locks \subseteq InUse PROVE FALSE
    OBVIOUS
  <2>2. Cardinality(Locks) <= Cardinality(InUse)
    BY <1>5, <2>1, FS_Subset
  <2> QED BY <1>6, <1>7, <2>2
<1> QED BY <1>8

LEMMA Initially == Init => IInv
<1> SUFFICES ASSUME Init PROVE IInv
  OBVIOUS
<1> USE EventDispatchAssumption
<1>1. Types
  BY DEF Init, Types, Steps
<1>2. Refers /\ Holds /\ Awaits
  BY DEF Init, Refers, Holds, Awaits, Active, Inside
<1>3. Waits
  BY DEF Init, Waits
<1> QED BY <1>1, <1>2, <1>3 DEF IInv

(* The loop over priorities and handlers leaves the locks alone. *)
LEMMA LoopStep ==
  ASSUME IInv, NEW d \in Dispatches, NEW s \in Inside \ {"awaits"},
         step[d] \in Inside \ {"awaits"}, step' = [step EXCEPT ![d] = s],
         UNCHANGED locking, UNCHANGED caller
  PROVE  IInv'
<1> USE DEF locking
<1>1. Types'
  BY DEF IInv, Types, Steps
<1>2. \A c \in Dispatches : step'[c] = IF c = d THEN s ELSE step[c]
  BY DEF IInv, Types
<1>3. \A c \in Dispatches : /\ step'[c] \in Active <=> step[c] \in Active
                            /\ step'[c] \in Inside <=> step[c] \in Inside
                            /\ step[c] = "awaits" => step'[c] = "awaits"
  BY <1>2 DEF Active
<1>4. Refers' /\ Holds'
  BY <1>3 DEF IInv, Refers, Holds
<1>5. Waits'
  <2> SUFFICES ASSUME NEW o \in Locks, NEW i \in DOMAIN queue[o]
               PROVE  /\ step'[queue[o][i]] = "queued" /\ lock[queue[o][i]] = o
                      /\ \A j \in DOMAIN queue[o] : queue[o][j] = queue[o][i] => j = i
    BY DEF Waits
  <2>1. queue[o][i] \in Dispatches /\ step[queue[o][i]] = "queued"
    BY DEF IInv, Types, Waits
  <2> QED BY <1>2, <2>1 DEF IInv, Waits, Inside
<1>6. Awaits'
  BY <1>3 DEF IInv, Awaits, Types
<1> QED BY <1>1, <1>4, <1>5, <1>6 DEF IInv

Once(s) == \A i, j \in DOMAIN s : s[i] = s[j] => i = j

LEMMA AppendOnce ==
  ASSUME NEW S, NEW s \in Seq(S), NEW x \in S, Once(s), \A k \in DOMAIN s : s[k] # x
  PROVE  Once(Append(s, x))
<1> SUFFICES ASSUME NEW i \in DOMAIN Append(s, x), NEW j \in DOMAIN Append(s, x),
                    Append(s, x)[i] = Append(s, x)[j]
             PROVE  i = j
  BY DEF Once
<1>1. /\ DOMAIN s = 1 .. Len(s) /\ Len(s) \in Nat /\ DOMAIN Append(s, x) = 1 .. Len(s) + 1
      /\ Append(s, x)[Len(s) + 1] = x /\ \A k \in 1 .. Len(s) : Append(s, x)[k] = s[k]
  OBVIOUS
<1>2. (i = Len(s) + 1 \/ i \in 1 .. Len(s)) /\ (j = Len(s) + 1 \/ j \in 1 .. Len(s))
  BY <1>1
<1>3. \A k \in 1 .. Len(s) : Append(s, x)[k] # x
  BY <1>1
<1> QED BY <1>1, <1>2, <1>3 DEF Once

(* Taking the element at i out of a sequence leaves the others, in it once.*)
LEMMA RemoveOnce ==
  ASSUME NEW S, NEW s \in Seq(S), NEW i \in DOMAIN s, Once(s)
  PROVE  /\ Dropping(s, i) \in Seq(S) /\ Once(Dropping(s, i))
         /\ \A k \in DOMAIN Dropping(s, i) : /\ Dropping(s, i)[k] # s[i]
                                            /\ \E m \in DOMAIN s : Dropping(s, i)[k] = s[m]
<1> DEFINE t == Dropping(s, i)
           at(k) == IF k < i THEN k ELSE k + 1
<1>1. DOMAIN s = 1 .. Len(s) /\ Len(s) \in Nat /\ i \in 1 .. Len(s) /\ \A m \in 1 .. Len(s) : s[m] \in S
  OBVIOUS
<1>2. /\ DOMAIN t = 1 .. Len(s) - 1
      /\ \A k \in 1 .. Len(s) - 1 : t[k] = s[at(k)] /\ at(k) \in 1 .. Len(s) /\ at(k) # i
  BY <1>1 DEF Dropping
<1>3. t \in Seq(S)
  BY <1>1 DEF Dropping
<1> HIDE DEF t
<1>4. ASSUME NEW k \in DOMAIN t
      PROVE  t[k] # s[i] /\ \E m \in DOMAIN s : t[k] = s[m]
  <2>1. t[k] = s[at(k)] /\ at(k) \in DOMAIN s /\ at(k) # i
    BY <1>1, <1>2
  <2> HIDE DEF at
  <2> QED BY <2>1 DEF Once
<1>5. Once(t)
  <2> SUFFICES ASSUME NEW j \in DOMAIN t, NEW k \in DOMAIN t, t[j] = t[k]
               PROVE  j = k
    BY DEF Once
  <2>1. at(j) = at(k)
    <3>1. s[at(j)] = s[at(k)] /\ at(j) \in DOMAIN s /\ at(k) \in DOMAIN s
      BY <1>1, <1>2
    <3> HIDE DEF at
    <3> QED BY <3>1 DEF Once
  <2> QED BY <1>1, <1>2, <2>1
<1> QED BY <1>3, <1>4, <1>5 DEF t

(* A call shares the lock that is in use, or brings a new one. *)
LEMMA TriggerStep ==
  ASSUME IInv, NEW d \in Dispatches, NEW e \in Events, NEW by \in Dispatches \cup {Nobody},
         Trigger(d, e, by)
  PROVE  IInv'
<1> USE EventDispatchAssumption
<1> DEFINE o    == _repo_lock(e)
           free == holder[o] = Nobody
<1>1. o \in Locks /\ (o \notin InUse \/ o = pool[e])
  BY FreshLock DEF _repo_lock, IInv, Types, InUse, Trigger
<1>2. /\ step[d] = "idle"
      /\ event' = [event EXCEPT ![d] = e] /\ caller' = [caller EXCEPT ![d] = by]
      /\ pool' = [pool EXCEPT ![e] = o] /\ lock' = [lock EXCEPT ![d] = o]
      /\ holder' = IF free THEN [holder EXCEPT ![o] = d] ELSE holder
      /\ queue' = IF free THEN queue ELSE [queue EXCEPT ![o] = Append(@, d)]
      /\ by # Nobody => by \in Dispatches /\ step[by] = "handler"
  BY DEF Trigger, MayTrigger
<1>3. by # d
  BY <1>2
<1>4. step' = [c \in Dispatches |-> IF c = d THEN IF free THEN "locked" ELSE "queued"
                                   ELSE IF c = by THEN "awaits" ELSE step[c]]
  <2>1. step \in [Dispatches -> Steps]
    BY DEF IInv, Types
  <2>2. step' = LET now == [step EXCEPT ![d] = IF free THEN "locked" ELSE "queued"]
                IN  IF by = Nobody THEN now ELSE [now EXCEPT ![by] = "awaits"]
    BY DEF Trigger
  <2>3. CASE by = Nobody
    BY <1>3, <2>1, <2>2, <2>3
  <2>4. CASE by # Nobody
    BY <1>2, <1>3, <2>1, <2>2, <2>4
  <2> QED BY <2>3, <2>4
<1> HIDE DEF o
<1>5. \A c \in Dispatches \ {d} :
        /\ step'[c] \in Active <=> step[c] \in Active
        /\ step'[c] \in Inside <=> step[c] \in Inside
        /\ step[c] = "queued" <=> step'[c] = "queued"
        /\ lock'[c] = lock[c] /\ event'[c] = event[c] /\ caller'[c] = caller[c]
  BY <1>2, <1>4 DEF Active, Inside, IInv, Types
<1>6. /\ lock'[d] = o /\ event'[d] = e /\ caller'[d] = by /\ pool'[e] = o
      /\ step'[d] = IF free THEN "locked" ELSE "queued"
  BY <1>2, <1>4 DEF IInv, Types
<1>7. Types'
  <2>1. step' \in [Dispatches -> Steps]
    BY <1>4 DEF IInv, Types, Steps, Inside
  <2>2. queue' \in [Locks -> Seq(Dispatches)]
    BY <1>1, <1>2 DEF IInv, Types
  <2> QED BY <1>1, <1>2, <2>1, <2>2 DEF IInv, Types
<1>8. \A c \in Dispatches \ {d} : step[c] \in Active => pool'[event[c]] = lock[c]
  <2> SUFFICES ASSUME NEW c \in Dispatches \ {d}, step[c] \in Active, event[c] = e
               PROVE  o = lock[c]
    BY <1>1, <1>2 DEF IInv, Types, Refers
  <2>1. pool[e] = lock[c] /\ lock[c] # Nobody
    BY DEF IInv, Refers
  <2> QED BY <1>1, <2>1 DEF InUse, _repo_lock, o
<1>9. Refers'
  <2>1. \A c \in Dispatches \ {d} : lock'[c] # Nobody <=> step'[c] \in Active
    BY <1>5 DEF IInv, Refers
  <2>2. lock'[d] # Nobody /\ step'[d] \in Active
    BY <1>1, <1>6 DEF Active, Inside
  <2> QED BY <1>5, <1>6, <1>8, <2>1, <2>2 DEF Refers
<1>10. Holds'
  <2> SUFFICES ASSUME NEW c \in Dispatches, step'[c] \in Inside PROVE holder'[lock'[c]] = c
    BY DEF Holds
  <2>1. CASE c = d
    BY <1>1, <1>2, <1>6, <2>1 DEF Inside, IInv, Types
  <2>2. CASE c # d
    <3>1. step[c] \in Inside /\ holder[lock[c]] = c /\ lock'[c] = lock[c] /\ lock[c] \in Locks
      BY <1>5, <2>2 DEF IInv, Holds, Refers, Active, Types
    <3> QED BY <1>1, <1>2, <3>1 DEF IInv, Types
  <2> QED BY <2>1, <2>2
<1>11. Waits'
  <2> SUFFICES ASSUME NEW q \in Locks, NEW i \in DOMAIN queue'[q]
               PROVE  /\ step'[queue'[q][i]] = "queued" /\ lock'[queue'[q][i]] = q
                      /\ \A j \in DOMAIN queue'[q] : queue'[q][j] = queue'[q][i] => j = i
    BY DEF Waits
  <2>1. \A k \in DOMAIN queue[q] : queue[q][k] \in Dispatches \ {d} /\ step[queue[q][k]] = "queued"
    BY <1>2 DEF IInv, Types, Waits
  <2>2. \A k \in DOMAIN queue[q] : step'[queue[q][k]] = "queued" /\ lock'[queue[q][k]] = q
    BY <1>5, <2>1 DEF IInv, Waits
  <2>3. CASE queue'[q] = queue[q]
    BY <2>2, <2>3 DEF IInv, Waits
  <2>4. CASE queue'[q] # queue[q]
    <3>1. q = o /\ ~free /\ queue'[q] = Append(queue[q], d)
      BY <1>1, <1>2, <2>4 DEF IInv, Types
    <3>2. queue[q] \in Seq(Dispatches)
      BY DEF IInv, Types
    <3>3. /\ DOMAIN queue'[q] = 1 .. Len(queue[q]) + 1 /\ queue'[q][Len(queue[q]) + 1] = d
          /\ \A k \in 1 .. Len(queue[q]) : queue'[q][k] = queue[q][k]
          /\ DOMAIN queue[q] = 1 .. Len(queue[q]) /\ Len(queue[q]) \in Nat
      BY <3>1, <3>2
    <3>4. step'[d] = "queued" /\ lock'[d] = q
      BY <1>6, <3>1
    <3>5. \A k \in DOMAIN queue'[q] : step'[queue'[q][k]] = "queued" /\ lock'[queue'[q][k]] = q
      <4> SUFFICES ASSUME NEW k \in DOMAIN queue'[q] PROVE step'[queue'[q][k]] = "queued" /\ lock'[queue'[q][k]] = q
        OBVIOUS
      <4>1. k = Len(queue[q]) + 1 \/ k \in 1 .. Len(queue[q])
        BY <3>3
      <4> QED BY <2>2, <3>3, <3>4, <4>1
    <3>6. Once(queue[q]) /\ \A k \in DOMAIN queue[q] : queue[q][k] # d
      BY <2>1 DEF IInv, Waits, Once
    <3>7. Once(queue'[q])
      BY <3>1, <3>2, <3>6, AppendOnce
    <3> QED BY <3>5, <3>7 DEF Once
  <2> QED BY <2>3, <2>4
<1>12. Awaits'
  <2> SUFFICES ASSUME NEW c \in Dispatches, step'[c] \in Active, caller'[c] # Nobody
               PROVE  /\ step'[caller'[c]] = "awaits"
                      /\ \A b \in Dispatches : step'[b] \in Active /\ caller'[b] = caller'[c] => b = c
    BY DEF Awaits
  <2>1. by # Nobody => \A b \in Dispatches \ {d} : step[b] \in Active => caller[b] # by
    BY <1>2 DEF IInv, Awaits
  <2>2. CASE c = d
    BY <1>2, <1>3, <1>4, <1>5, <1>6, <2>1, <2>2
  <2>3. CASE c # d
    <3>1. step[caller[c]] = "awaits" /\ caller[c] \in Dispatches /\ caller[c] # d /\ caller'[c] = caller[c]
      BY <1>2, <1>5, <2>3 DEF IInv, Awaits, Types
    <3>2. step'[caller[c]] = "awaits"
      BY <1>4, <3>1
    <3>3. caller[c] # by
      BY <1>2, <3>1
    <3> QED BY <1>5, <1>6, <2>3, <3>1, <3>2, <3>3 DEF IInv, Awaits
  <2> QED BY <2>2, <2>3
<1> QED BY <1>7, <1>9, <1>10, <1>11, <1>12 DEF IInv

(* A call that ends, or is given up, leaves its lock to the first that     *)
(* waits and goes back to the handler that made it.                        *)
LEMMA ReturnStep ==
  ASSUME IInv, NEW d \in Dispatches, Close(d) \/ Withdraw(d)
  PROVE  IInv'
<1> USE EventDispatchAssumption
<1> DEFINE o     == lock[d]
           first == IF step[d] = "closing" THEN Handover(o) ELSE Nobody
<1>1. /\ step[d] \in {"closing", "queued"} /\ o \in Locks
      /\ event' = event /\ caller' = caller /\ lock' = [lock EXCEPT ![d] = Nobody]
      /\ pool' = [e \in Events |-> IF pool[e] \in InUse' THEN pool[e] ELSE Nobody]
  BY DEF Close, Withdraw, Returns, IInv, Types, Refers, Active, Inside
<1>2. first # Nobody =>
        /\ queue[o] # <<>> /\ first = queue[o][1] /\ 1 \in DOMAIN queue[o] /\ first \in Dispatches
        /\ step[first] = "queued" /\ lock[first] = o /\ first # d
  BY <1>1 DEF Handover, IInv, Types, Waits
<1>3. caller[d] # Nobody => caller[d] \in Dispatches /\ step[caller[d]] = "awaits" /\ caller[d] # d
  BY <1>1 DEF IInv, Types, Awaits, Active, Inside
<1>4. step' = [c \in Dispatches |-> IF c = d THEN "over" ELSE IF c = caller[d] THEN "handler"
                                   ELSE IF c = first THEN "locked" ELSE step[c]]
  <2>1. step \in [Dispatches -> Steps]
    BY DEF IInv, Types
  <2>2. step' = LET now == IF first = Nobody THEN step ELSE [step EXCEPT ![first] = "locked"]
                IN  IF caller[d] = Nobody THEN [now EXCEPT ![d] = "over"]
                    ELSE [now EXCEPT ![d] = "over", ![caller[d]] = "handler"]
    BY DEF Close, Withdraw, Returns
  <2> HIDE DEF first
  <2>3. CASE first = Nobody
    BY <1>3, <2>1, <2>2, <2>3
  <2>4. CASE first # Nobody
    <3>1. first \in Dispatches /\ first # d /\ first # caller[d]
      BY <1>2, <1>3, <2>4
    <3>2. CASE caller[d] = Nobody
      BY <2>1, <2>2, <2>4, <3>1, <3>2
    <3>3. CASE caller[d] # Nobody
      BY <1>3, <2>1, <2>2, <2>4, <3>1, <3>3
    <3> QED BY <3>2, <3>3
  <2> QED BY <2>3, <2>4
<1>5. holder' = IF step[d] = "closing" THEN [holder EXCEPT ![o] = first] ELSE holder
  BY DEF Close, Withdraw
<1>6. \A q \in Locks :
        /\ queue'[q] \in Seq(Dispatches) /\ Once(queue'[q])
        /\ \A k \in DOMAIN queue'[q] : /\ \E m \in DOMAIN queue[q] : queue'[q][k] = queue[q][m]
                                        /\ queue'[q][k] \notin {d, first}
  <2> SUFFICES ASSUME NEW q \in Locks
               PROVE  /\ queue'[q] \in Seq(Dispatches) /\ Once(queue'[q])
                      /\ \A k \in DOMAIN queue'[q] : /\ \E m \in DOMAIN queue[q] : queue'[q][k] = queue[q][m]
                                                      /\ queue'[q][k] \notin {d, first}
    OBVIOUS
  <2>1. queue[q] \in Seq(Dispatches) /\ Once(queue[q])
    BY DEF IInv, Types, Waits, Once
  <2>2. \A k \in DOMAIN queue[q] : queue[q][k] \in Dispatches /\ (queue[q][k] \in {d, first} => q = o)
    BY <1>1, <1>2, <2>1 DEF IInv, Waits
  <2>3. \A k \in DOMAIN queue[q] : step[queue[q][k]] = "queued"
    BY DEF IInv, Waits
  <2>4. CASE q # o \/ (step[d] = "closing" /\ first = Nobody)
    <3>1. queue'[q] = queue[q]
      BY <1>1, <2>4 DEF Close, Withdraw, IInv, Types
    <3>2. \A k \in DOMAIN queue[q] : queue[q][k] \notin {d, first}
      BY <2>2, <2>3, <2>4
    <3> QED BY <2>1, <3>1, <3>2
  <2>5. CASE q = o /\ step[d] = "closing" /\ first # Nobody
    <3>1. queue'[q] = Tail(queue[q]) /\ queue[q] # <<>>
      BY <1>1, <1>2, <2>5 DEF Close, Withdraw, IInv, Types
    <3>2. /\ DOMAIN queue[q] = 1 .. Len(queue[q]) /\ Len(queue[q]) \in Nat /\ Len(queue[q]) # 0
          /\ queue'[q] \in Seq(Dispatches) /\ DOMAIN queue'[q] = 1 .. Len(queue[q]) - 1
          /\ \A k \in DOMAIN queue'[q] : queue'[q][k] = queue[q][k + 1]
      BY <2>1, <3>1
    <3>3. \A k \in DOMAIN queue'[q] : k + 1 \in DOMAIN queue[q] /\ k + 1 # 1
      BY <3>2
    <3>4. first = queue[q][1] /\ 1 \in DOMAIN queue[q] /\ step[d] # "queued"
      BY <1>2, <2>5
    <3>5. Once(queue'[q])
      <4> SUFFICES ASSUME NEW j \in DOMAIN queue'[q], NEW k \in DOMAIN queue'[q], queue'[q][j] = queue'[q][k]
                   PROVE  j = k
        BY DEF Once
      <4>1. queue[q][j + 1] = queue[q][k + 1] /\ j + 1 \in DOMAIN queue[q] /\ k + 1 \in DOMAIN queue[q]
        BY <3>2, <3>3
      <4>2. j + 1 = k + 1
        BY <2>1, <4>1 DEF Once
      <4> QED BY <3>2, <4>2
    <3>6. \A k \in DOMAIN queue'[q] : queue'[q][k] # first /\ queue'[q][k] # d
      <4> SUFFICES ASSUME NEW k \in DOMAIN queue'[q]
                   PROVE  queue'[q][k] # first /\ queue'[q][k] # d
        OBVIOUS
      <4>1. queue'[q][k] = queue[q][k + 1] /\ k + 1 \in DOMAIN queue[q] /\ k + 1 # 1
        BY <3>2, <3>3
      <4>2. queue[q][k + 1] # queue[q][1]
        BY <2>1, <3>4, <4>1 DEF Once
      <4>3. step[queue[q][k + 1]] = "queued"
        BY <2>3, <4>1
      <4> QED BY <3>4, <4>1, <4>2, <4>3
    <3> QED BY <3>2, <3>3, <3>5, <3>6
  <2>6. CASE q = o /\ step[d] = "queued"
    <3>1. PICK i \in DOMAIN queue[q] : /\ queue[q][i] = d
                                       /\ queue' = [queue EXCEPT ![q] = Dropping(@, i)]
      BY <2>6 DEF Close, Withdraw
    <3>2. queue'[q] = Dropping(queue[q], i)
      BY <3>1 DEF IInv, Types
    <3>3. first = Nobody
      BY <2>6
    <3>4. /\ queue'[q] \in Seq(Dispatches) /\ Once(queue'[q])
          /\ \A k \in DOMAIN queue'[q] : /\ queue'[q][k] # queue[q][i]
                                        /\ \E m \in DOMAIN queue[q] : queue'[q][k] = queue[q][m]
      BY <2>1, <3>2, RemoveOnce
    <3>5. \A k \in DOMAIN queue'[q] : queue'[q][k] \notin {d, first}
      BY <2>2, <3>1, <3>3, <3>4
    <3> QED BY <3>4, <3>5
  <2> QED BY <1>1, <2>4, <2>5, <2>6
<1> HIDE DEF first, o
<1>7. \A c \in Dispatches \ {d} :
        /\ lock'[c] = lock[c] /\ (step'[c] \in Active <=> step[c] \in Active)
        /\ step'[c] \in Inside <=> step[c] \in Inside \/ c = first
        /\ step'[c] = "queued" <=> step[c] = "queued" /\ c # first
  BY <1>1, <1>2, <1>3, <1>4 DEF Active, Inside, IInv, Types
<1>8. lock'[d] = Nobody /\ step'[d] = "over" /\ step'[d] \notin Active /\ step'[d] \notin Inside
  BY <1>1, <1>4 DEF IInv, Types, Active, Inside
<1>9. Types'
  <2>1. step' \in [Dispatches -> Steps]
    BY <1>4 DEF IInv, Types, Steps, Inside
  <2>2. queue' \in [Locks -> Seq(Dispatches)]
    <3>1. DOMAIN queue' = Locks /\ queue' = [q \in DOMAIN queue' |-> queue'[q]]
      BY DEF Close, Withdraw, IInv, Types
    <3> QED BY <1>6, <3>1
  <2>3. holder' \in [Locks -> Dispatches \cup {Nobody}]
    BY <1>1, <1>2, <1>5 DEF IInv, Types
  <2>4. pool' \in [Events -> Locks \cup {Nobody}]
    BY <1>1 DEF IInv, Types
  <2> QED BY <1>1, <2>1, <2>2, <2>3, <2>4 DEF IInv, Types
<1>10. Refers'
  <2> SUFFICES ASSUME NEW c \in Dispatches
               PROVE  /\ lock'[c] # Nobody <=> step'[c] \in Active
                      /\ step'[c] \in Active => pool'[event'[c]] = lock'[c]
    BY DEF Refers
  <2>1. CASE c = d
    BY <1>8, <2>1
  <2>2. CASE c # d
    <3>1. lock'[c] # Nobody <=> step'[c] \in Active
      BY <1>7, <2>2 DEF IInv, Refers
    <3>2. step'[c] \in Active => pool[event[c]] = lock'[c] /\ lock'[c] \in InUse'
      BY <1>7, <2>2, <3>1 DEF IInv, Refers, InUse
    <3>3. event'[c] = event[c] /\ event[c] \in Events
      BY <1>1 DEF IInv, Types
    <3> QED BY <1>1, <3>1, <3>2, <3>3
  <2> QED BY <2>1, <2>2
<1>11. Holds'
  <2> SUFFICES ASSUME NEW c \in Dispatches, step'[c] \in Inside PROVE holder'[lock'[c]] = c
    BY DEF Holds
  <2>1. c # d /\ lock'[c] = lock[c] /\ lock[c] \in Locks
    BY <1>7, <1>8 DEF IInv, Types, Refers, Active
  <2>2. CASE c = first
    BY <1>1, <1>2, <1>5, <2>1, <2>2 DEF IInv, Types, first
  <2>3. CASE c # first
    <3>1. step[c] \in Inside /\ holder[lock[c]] = c
      BY <1>7, <2>1, <2>3 DEF IInv, Holds
    <3>2. step[d] = "closing" => holder[o] = d
      BY DEF IInv, Holds, Inside, o
    <3> QED BY <1>1, <1>5, <2>1, <3>1, <3>2 DEF IInv, Types
  <2> QED BY <2>2, <2>3
<1>12. Waits'
  <2> SUFFICES ASSUME NEW q \in Locks, NEW i \in DOMAIN queue'[q]
               PROVE  /\ step'[queue'[q][i]] = "queued" /\ lock'[queue'[q][i]] = q
                      /\ \A j \in DOMAIN queue'[q] : queue'[q][j] = queue'[q][i] => j = i
    BY DEF Waits
  <2>1. PICK m \in DOMAIN queue[q] : queue'[q][i] = queue[q][m]
    BY <1>6
  <2>2. step[queue[q][m]] = "queued" /\ lock[queue[q][m]] = q /\ queue[q][m] \in Dispatches
    BY DEF IInv, Types, Waits
  <2>3. queue'[q][i] \notin {d, first} /\ Once(queue'[q])
    BY <1>6
  <2> QED BY <1>7, <2>1, <2>2, <2>3 DEF Once
<1>13. Awaits'
  <2> SUFFICES ASSUME NEW c \in Dispatches, step'[c] \in Active, caller[c] # Nobody
               PROVE  /\ step'[caller[c]] = "awaits"
                      /\ \A b \in Dispatches : step'[b] \in Active /\ caller[b] = caller[c] => b = c
    BY <1>1 DEF Awaits
  <2>1. c # d /\ step[c] \in Active
    BY <1>7, <1>8
  <2>2. step[caller[c]] = "awaits" /\ caller[c] \in Dispatches /\ caller[c] # caller[d]
    BY <1>1, <2>1 DEF IInv, Awaits, Types, Active, Inside
  <2>3. caller[c] # d /\ caller[c] # first
    BY <1>1, <1>2, <2>2
  <2>4. step'[caller[c]] = "awaits"
    BY <1>4, <2>2, <2>3
  <2> QED BY <1>7, <1>8, <2>1, <2>4 DEF IInv, Awaits
<1> QED BY <1>9, <1>10, <1>11, <1>12, <1>13 DEF IInv

(* What changes none of these variables. *)
LEMMA OtherStep ==
  ASSUME IInv, UNCHANGED <<locking, step, caller>>
  PROVE  IInv'
BY DEF IInv, Types, Refers, Holds, Waits, Awaits, locking

(* Every step of a dispatch inside the lock. *)
LEMMA ProceedStep ==
  ASSUME IInv, NEW d \in Dispatches, Proceed(d)
  PROVE  IInv'
<1> DEFINE Goes(s) == /\ step[d] \in Inside \ {"awaits"} /\ step' = [step EXCEPT ![d] = s]
                      /\ UNCHANGED locking /\ UNCHANGED caller
<1>1. CASE Start(d)
  <2>1. Goes("rounds")
    BY <1>1 DEF Start, Inside
  <2> QED BY <2>1, LoopStep DEF Inside
<1>2. CASE NextRound(d)
  <2>1. Goes("list")
    BY <1>2 DEF NextRound, Inside
  <2> QED BY <2>1, LoopStep DEF Inside
<1>3. CASE RoundEnds(d)
  <2>1. Goes("rounds")
    BY <1>3 DEF RoundEnds, Inside
  <2> QED BY <2>1, LoopStep DEF Inside
<1>4. CASE AllRounds(d)
  <2>1. Goes("closing")
    BY <1>4 DEF AllRounds, Inside
  <2> QED BY <2>1, LoopStep DEF Inside
<1>5. CASE PassOver(d)
  BY <1>5, OtherStep DEF PassOver
<1>6. CASE Unresolved(d)
  <2>1. Goes("list")
    BY <1>6 DEF Unresolved, Live, More, Continue, Inside
  <2> QED BY <2>1, LoopStep DEF Inside
<1>7. CASE CannotBuild(d)
  <2>1. Goes("closing")
    BY <1>7 DEF CannotBuild, Live, More, Stop, Inside
  <2> QED BY <2>1, LoopStep DEF Inside
<1>8. CASE Call(d)
  <2>1. Goes("handler")
    BY <1>8 DEF Call, Live, More, Inside
  <2> QED BY <2>1, LoopStep DEF Inside
<1>9. CASE HandlerEnds(d)
  <2>1. step[d] = "handler" /\ ((\E how \in Ends : Stop(d, how)) \/ Continue(d))
    BY <1>9 DEF HandlerEnds, EndsWith, Raises, Ends
  <2>2. Goes("closing") \/ Goes("list")
    BY <2>1 DEF Stop, Continue, Inside
  <2> QED BY <2>2, LoopStep DEF Inside
<1>10. CASE Close(d)
  BY <1>10, ReturnStep
<1> QED
  BY <1>1, <1>2, <1>3, <1>4, <1>5, <1>6, <1>7, <1>8, <1>9, <1>10 DEF Proceed

(* The locks, the pool, the queues and the calls in progress always agree. *)
THEOREM LocksAgree == Spec => []IInv
<1>1. IInv /\ [Next]_vars => IInv'
  <2> SUFFICES ASSUME IInv, [Next]_vars PROVE IInv'
    OBVIOUS
  <2>1. ASSUME NEW h \in Handlers, Register(h) \/ Expire(h) PROVE IInv'
    BY <2>1, OtherStep DEF Register, Expire
  <2>2. ASSUME NEW d \in Dispatches, Proceed(d) PROVE IInv'
    BY <2>2, ProceedStep
  <2>3. ASSUME NEW d \in Dispatches, Withdraw(d) PROVE IInv'
    BY <2>3, ReturnStep
  <2>4. ASSUME NEW d \in Dispatches, NEW e \in Events, NEW by \in Dispatches \cup {Nobody}, Trigger(d, e, by)
        PROVE  IInv'
    BY <2>4, TriggerStep
  <2>5. CASE Finished \/ UNCHANGED vars
    BY <2>5, OtherStep DEF Finished, vars, locking
  <2> QED BY <2>1, <2>2, <2>3, <2>4, <2>5 DEF Next
<1> QED BY <1>1, Initially, PTL DEF Spec

(* At most one dispatch of an event type is inside its lock at a time,     *)
(* however often the pool forgets the lock and makes a new one: the async  *)
(* with of trigger_event excludes what it is meant to exclude.             *)
THEOREM OneAtATime == Spec => []OneDispatch
<1>1. IInv => OneDispatch
  <2> SUFFICES ASSUME IInv, NEW c \in Dispatches, NEW d \in Dispatches,
                      step[c] \in Inside, step[d] \in Inside, event[c] = event[d]
               PROVE  c = d
    BY DEF OneDispatch
  <2>1. lock[c] = lock[d]
    BY DEF IInv, Refers, Active
  <2> QED BY <2>1 DEF IInv, Holds
<1> QED BY <1>1, LocksAgree, PTL

-----------------------------------------------------------------------------
(* The order in which handlers are called.                                 *)

(* Where a dispatch is: in its loops, within a list, at a handler, or not  *)
(* inside its lock yet.                                                    *)
Running == {"rounds", "list", "handler", "awaits"}
Looping == {"list", "handler", "awaits"}
Calling == {"handler", "awaits"}
Outside == {"idle", "queued", "locked"}

(* The list it goes through.                                               *)
List(d) == handlers[event[d]][round[d].at]
Priority(h) == HandlerOf[h].priority

Indices == Nat \ {0}
RoundType == [left : SUBSET Nat, at : Nat, next : Indices, gone : SUBSET Handlers]

OTypes ==
  /\ born \in Seq(Handlers) /\ Once(born)
  /\ expired \in SUBSET Handlers
  /\ handlers \in [Events -> [Priorities -> Seq(Handlers)]]
  /\ round \in [Dispatches -> RoundType]
  /\ result \in [Dispatches -> Ends]
  /\ ran \in [Dispatches -> Seq(Handlers)]
  /\ known \in [Dispatches -> SUBSET Handlers]

(* A list in the order of registration.                                    *)
Sorted(s) == \A i, j \in DOMAIN s : i < j => RegisteredAs(s[i]) < RegisteredAs(s[j])

(* The lists of the registry hold every live handler of their event and    *)
(* priority, and nothing else, in the order of registration.               *)
Registry ==
  \A e \in Events : \A p \in Priorities :
    /\ Sorted(handlers[e][p])
    /\ \A h \in Elements(handlers[e][p]) : h \in Elements(born) /\ HandlerOf[h].event = e /\ Priority(h) = p
    /\ \A h \in Elements(born) \ expired :
         HandlerOf[h].event = e /\ Priority(h) = p => h \in Elements(handlers[e][p])

(* What the loop over a list has met before index n.                       *)
Passed(d, n) == {List(d)[k] : k \in 1 .. n - 1}

(* Within a list: what has been called is of an earlier priority or has    *)
(* been met in this list; a handler that is due has been called, or is     *)
(* still to come, in this list or in that of a later priority.             *)
Looped(d) ==
  /\ round[d].at \in Priorities
  /\ \A p \in round[d].left : round[d].at < p
  /\ round[d].next <= Len(List(d)) + (IF step[d] = "list" THEN 1 ELSE 0)
  /\ \A g \in Elements(ran[d]) :
       Priority(g) < round[d].at \/ g \in Passed(d, round[d].next + (IF step[d] = "list" THEN 0 ELSE 1))
  /\ \A h \in known[d] : Due(d, h) =>
       \/ h \in Elements(ran[d])
       \/ Priority(h) \in round[d].left
       \/ Priority(h) = round[d].at /\ h \notin Passed(d, round[d].next)

(* Between two lists.                                                      *)
Unlooped(d) ==
  /\ \A g \in Elements(ran[d]) : \A p \in round[d].left : Priority(g) < p
  /\ \A h \in known[d] : Due(d, h) => h \in Elements(ran[d]) \/ Priority(h) \in round[d].left

(* InOrder and NobodySkipped of one dispatch.                              *)
Ordered(d) == \A i, j \in DOMAIN ran[d] : i < j => Before(ran[d][i], ran[d][j])
Complete(d) ==
  \A h \in known[d] :
    Due(d, h) /\ (result[d] = "ok" \/ \E g \in Elements(ran[d]) : Before(h, g)) => h \in Elements(ran[d])

(* All that is to be known of one dispatch.                                *)
Own(d) ==
  /\ known[d] \subseteq Elements(born) /\ Elements(ran[d]) \subseteq Elements(born)
  /\ step[d] \in Outside => known[d] = {} /\ ran[d] = <<>> /\ result[d] = "none"
  /\ step[d] \in Running =>
       result[d] # "ok" /\ round[d].gone \subseteq expired /\ round[d].left \subseteq Priorities
  /\ step[d] = "rounds" => Unlooped(d)
  /\ step[d] \in Looping => Looped(d)
  /\ step[d] \in Calling => List(d)[round[d].next] \in Elements(ran[d])
  /\ Ordered(d) /\ Complete(d)

OInv == OTypes /\ Registry /\ \A d \in Dispatches : Own(d)

-----------------------------------------------------------------------------
LEMMA HandlerTypes ==
  /\ \A h \in Handlers : HandlerOf[h].event \in Events /\ Priority(h) \in Priorities
  /\ Priorities \subseteq Nat \ {0}
BY EventDispatchAssumption DEF Priority, Priorities

(* What is taken from a list in order is in order.                         *)
LEMMA OnlyKeeps ==
  ASSUME NEW s \in Seq(Handlers), NEW keep
  PROVE  /\ Only(s, keep) \in Seq(Handlers)
         /\ Elements(Only(s, keep)) = Elements(s) \cap keep
         /\ Sorted(s) => Sorted(Only(s, keep))
<1> DEFINE t == Only(s, keep)
<1>1. t \in Seq(Handlers)
  BY OnlyLists
<1>2. PICK f : Lists(t, f, s, Len(s), keep)
  BY OnlyLists
<1> HIDE DEF t
<1>3. DOMAIN s = 1 .. Len(s) /\ \A k \in DOMAIN t : f[k] \in DOMAIN s
  BY <1>2 DEF Lists
<1>4. Elements(t) = Elements(s) \cap keep
  <2>1. ASSUME NEW x \in Elements(t) PROVE x \in Elements(s) \cap keep
    <3>1. PICK k \in DOMAIN t : x = t[k]
      BY <2>1 DEF Elements
    <3>2. x = s[f[k]] /\ x \in keep /\ f[k] \in DOMAIN s
      BY <1>2, <1>3, <3>1 DEF Lists
    <3> QED BY <3>2 DEF Elements
  <2>2. ASSUME NEW x \in Elements(s) \cap keep PROVE x \in Elements(t)
    <3>1. PICK m \in 1 .. Len(s) : x = s[m]
      BY <1>3, <2>2 DEF Elements
    <3>2. PICK k \in DOMAIN t : f[k] = m
      BY <1>2, <2>2, <3>1 DEF Lists
    <3>3. x = t[k]
      BY <1>2, <3>1, <3>2 DEF Lists
    <3> QED BY <3>3 DEF Elements
  <2> QED BY <2>1, <2>2
<1>5. ASSUME Sorted(s) PROVE Sorted(t)
  <2> SUFFICES ASSUME NEW i \in DOMAIN t, NEW j \in DOMAIN t, i < j
               PROVE  RegisteredAs(t[i]) < RegisteredAs(t[j])
    BY DEF Sorted
  <2>1. f[i] < f[j] /\ f[i] \in DOMAIN s /\ f[j] \in DOMAIN s /\ t[i] = s[f[i]] /\ t[j] = s[f[j]]
    BY <1>2, <1>3 DEF Lists
  <2> QED BY <1>5, <2>1 DEF Sorted
<1> QED BY <1>1, <1>4, <1>5 DEF t

(* The place of a handler in the order of registration.                    *)
LEMMA Places ==
  ASSUME OTypes, NEW i \in DOMAIN born
  PROVE  /\ born[i] \in Elements(born) /\ RegisteredAs(born[i]) = i /\ i \in Nat
BY DEF OTypes, Once, Elements, RegisteredAs

LEMMA Placed ==
  ASSUME OTypes, NEW h \in Elements(born)
  PROVE  RegisteredAs(h) \in DOMAIN born /\ born[RegisteredAs(h)] = h /\ h \in Handlers
BY DEF OTypes, Once, Elements, RegisteredAs

(* What appending to a sequence gives.                                     *)
LEMMA ElementsAppend ==
  ASSUME NEW S, NEW s \in Seq(S), NEW x \in S
  PROVE  /\ Elements(Append(s, x)) = Elements(s) \cup {x}
         /\ Append(s, x) \in Seq(S) /\ DOMAIN Append(s, x) = 1 .. Len(s) + 1 /\ DOMAIN s = 1 .. Len(s)
         /\ Len(s) \in Nat /\ Append(s, x)[Len(s) + 1] = x
         /\ \A k \in 1 .. Len(s) : Append(s, x)[k] = s[k]
<1>1. /\ Append(s, x) \in Seq(S) /\ DOMAIN Append(s, x) = 1 .. Len(s) + 1 /\ DOMAIN s = 1 .. Len(s)
      /\ Len(s) \in Nat /\ Append(s, x)[Len(s) + 1] = x
      /\ \A k \in 1 .. Len(s) : Append(s, x)[k] = s[k]
  OBVIOUS
<1>2. \A k \in 1 .. Len(s) + 1 : k \in 1 .. Len(s) \/ k = Len(s) + 1
  BY <1>1
<1>3. Len(s) + 1 \in 1 .. Len(s) + 1 /\ 1 .. Len(s) \subseteq 1 .. Len(s) + 1
  BY <1>1
<1> DEFINE t == Append(s, x)
<1> HIDE DEF t
<1>4. Elements(t) = Elements(s) \cup {x}
  BY <1>1, <1>2, <1>3 DEF Elements, t
<1> QED BY <1>1, <1>4 DEF t

LEMMA OInitially == Init => OInv
<1> SUFFICES ASSUME Init PROVE OInv
  OBVIOUS
<1> USE EventDispatchAssumption, HandlerTypes
<1>1. OTypes
  <2>1. born \in Seq(Handlers) /\ Once(born) /\ expired \in SUBSET Handlers
    BY DEF Init, Once
  <2>2. handlers \in [Events -> [Priorities -> Seq(Handlers)]]
    <3>1. \A e \in Events, p \in Priorities : Listed(e, p) \in Seq(Handlers)
      BY OnlyKeeps DEF Listed
    <3> HIDE DEF Priorities
    <3> QED BY <3>1 DEF Init
  <2>3. result \in [Dispatches -> Ends] /\ ran \in [Dispatches -> Seq(Handlers)] /\ known \in [Dispatches -> SUBSET Handlers]
    BY DEF Init, Ends
  <2>4. round \in [Dispatches -> RoundType]
    BY DEF Init, NoRound, RoundType, Indices
  <2> QED BY <2>1, <2>2, <2>3, <2>4 DEF OTypes
<1>2. Registry
  <2> SUFFICES ASSUME NEW e \in Events, NEW p \in Priorities
               PROVE  /\ Sorted(handlers[e][p])
                      /\ \A h \in Elements(handlers[e][p]) : h \in Elements(born) /\ HandlerOf[h].event = e /\ Priority(h) = p
                      /\ \A h \in Elements(born) \ expired :
                           HandlerOf[h].event = e /\ Priority(h) = p => h \in Elements(handlers[e][p])
    BY DEF Registry
  <2> DEFINE keep == {h \in Handlers : HandlerOf[h].event = e /\ HandlerOf[h].priority = p}
  <2>1. handlers[e][p] = Only(born, keep) /\ born \in Seq(Handlers)
    BY DEF Init, Listed
  <2>2. Sorted(born)
    BY <1>1, Places DEF Sorted
  <2>3. Sorted(handlers[e][p]) /\ Elements(handlers[e][p]) = Elements(born) \cap keep
    BY <2>1, <2>2, OnlyKeeps
  <2>4. Elements(born) \subseteq Handlers
    BY <1>1, Placed
  <2> QED BY <2>3, <2>4 DEF Priority
<1>3. ASSUME NEW d \in Dispatches PROVE Own(d)
  <2>1. step[d] = "idle" /\ known[d] = {} /\ ran[d] = <<>> /\ result[d] = "none"
    BY DEF Init
  <2>2. DOMAIN ran[d] = {} /\ Elements(ran[d]) = {}
    <3>1. Len(<<>>) = 0 /\ << >> \in Seq(Handlers)
      OBVIOUS
    <3>2. DOMAIN << >> = {}
      BY <3>1
    <3> QED BY <2>1, <3>2 DEF Elements
  <2> QED BY <2>1, <2>2 DEF Own, Outside, Running, Looping, Calling, Ordered, Complete
<1> QED BY <1>1, <1>2, <1>3 DEF OInv
-----------------------------------------------------------------------------
(* Registration only adds to the end. *)
Grows == born' = born \/ \E h \in Handlers : h \notin Elements(born) /\ born' = Append(born, h)

(* Neither the places nor the order of two handlers ever change.           *)
LEMMA PlacesStay ==
  ASSUME OTypes, OTypes', Grows
  PROVE  /\ Elements(born) \subseteq Elements(born')
         /\ \A h \in Elements(born) : RegisteredAs(h)' = RegisteredAs(h)
         /\ \A g, h \in Elements(born) : Before(g, h)' <=> Before(g, h)
<1>1. /\ Elements(born) \subseteq Elements(born')
      /\ \A h \in Elements(born) : RegisteredAs(h)' = RegisteredAs(h)
  <2>1. CASE born' = born
    BY <2>1 DEF RegisteredAs
  <2>2. CASE born' # born
    <3>1. PICK x \in Handlers : x \notin Elements(born) /\ born' = Append(born, x)
      BY <2>2 DEF Grows
    <3>2. born \in Seq(Handlers)
      BY DEF OTypes
    <3>3. /\ Elements(born') = Elements(born) \cup {x}
          /\ DOMAIN born' = 1 .. Len(born) + 1 /\ DOMAIN born = 1 .. Len(born) /\ Len(born) \in Nat
          /\ \A k \in 1 .. Len(born) : born'[k] = born[k]
      BY <3>1, <3>2, ElementsAppend
    <3>4. ASSUME NEW h \in Elements(born) PROVE RegisteredAs(h)' = RegisteredAs(h)
      <4>1. RegisteredAs(h) \in DOMAIN born /\ born[RegisteredAs(h)] = h
        BY Placed
      <4>2. RegisteredAs(h) \in DOMAIN born' /\ born'[RegisteredAs(h)] = h
        BY <3>3, <4>1
      <4>3. \A i \in DOMAIN born' : born'[i] = h <=> i = RegisteredAs(h)
        BY <4>2 DEF OTypes, Once
      <4>4. RegisteredAs(h)' = CHOOSE i \in DOMAIN born' : born'[i] = h
        BY DEF RegisteredAs
      <4> HIDE DEF RegisteredAs
      <4> QED BY <4>2, <4>3, <4>4
    <3> QED BY <3>3, <3>4
  <2> QED BY <2>1, <2>2
<1> QED BY <1>1 DEF Before

(* A list that another dispatch is iterating over keeps what it holds.     *)
Extends(s, t) == DOMAIN s \subseteq DOMAIN t /\ \A k \in DOMAIN s : t[k] = s[k]

(* What another dispatch may do to this one: wake it up from the queue, or *)
(* call from its handler and return there, with a failure maybe.           *)
Same(a, b) == a = b \/ {a, b} \subseteq Calling \/ {a, b} \subseteq Outside

Apart(c) ==
  /\ round'[c] = round[c] /\ ran'[c] = ran[c] /\ known'[c] = known[c]
  /\ Same(step[c], step'[c]) /\ (event'[c] = event[c] \/ step[c] = "idle")
  /\ result'[c] = result[c] \/ (result'[c] # "ok" /\ step[c] \in Calling)
  /\ step[c] \in Looping => Extends(List(c), List(c)')

(* What the step of another dispatch, or a registration, leaves true. *)
LEMMA OwnKept ==
  ASSUME OInv, OTypes', IInv, Grows, expired \subseteq expired', NEW c \in Dispatches, Apart(c)
  PROVE  Own(c)'
<1> USE DEF Apart
<1>1. Own(c) /\ OTypes
  BY DEF OInv
<1>2. /\ Elements(born) \subseteq Elements(born')
      /\ \A g, h \in Elements(born) : Before(g, h)' <=> Before(g, h)
  BY <1>1, PlacesStay
<1>3. /\ Elements(ran[c])' = Elements(ran[c])
      /\ step[c] = "idle" => Elements(ran[c]) = {} /\ DOMAIN ran[c] = {} /\ known[c] = {}
  <2>1. ran[c] = <<>> => DOMAIN ran[c] = {} /\ Elements(ran[c]) = {}
    <3>1. Len(<<>>) = 0 /\ << >> \in Seq(Handlers)
      OBVIOUS
    <3>2. DOMAIN << >> = {}
      BY <3>1
    <3> QED BY <3>2 DEF Elements
  <2> QED BY <1>1, <2>1 DEF Elements, Own, Outside
<1>4. /\ step'[c] \in Outside <=> step[c] \in Outside
      /\ step'[c] \in Running <=> step[c] \in Running
      /\ step'[c] = "rounds" <=> step[c] = "rounds"
      /\ step'[c] \in Looping <=> step[c] \in Looping
      /\ step'[c] \in Calling <=> step[c] \in Calling
      /\ step'[c] = "list" <=> step[c] = "list"
  BY DEF Same, Outside, Running, Looping, Calling
<1>5. \A h : Due(c, h)' /\ step[c] # "idle" => Due(c, h)
  BY DEF Due
<1>6. known'[c] \subseteq Elements(born') /\ Elements(ran'[c]) \subseteq Elements(born')
  BY <1>1, <1>2, <1>3 DEF Own
<1>7. step'[c] \in Outside => known'[c] = {} /\ ran'[c] = <<>> /\ result'[c] = "none"
  BY <1>1, <1>4 DEF Own, Outside, Calling
<1>8. step'[c] \in Running =>
        result'[c] # "ok" /\ round'[c].gone \subseteq expired' /\ round'[c].left \subseteq Priorities
  BY <1>1, <1>4 DEF Own
<1>9. step'[c] = "rounds" => Unlooped(c)'
  BY <1>1, <1>3, <1>4, <1>5 DEF Own, Unlooped, Priority
<1>10. ASSUME step'[c] \in Looping PROVE Looped(c)'
  <2>1. Looped(c) /\ step[c] # "idle" /\ step[c] \in Looping /\ Extends(List(c), List(c)')
    BY <1>1, <1>4, <1>10 DEF Own, Looping
  <2>2. /\ List(c) \in Seq(Handlers) /\ List(c)' \in Seq(Handlers)
    BY <1>1, <2>1 DEF OTypes, List, Looped, IInv, Types
  <2>3. Len(List(c)) <= Len(List(c)') /\ Len(List(c)) \in Nat /\ Len(List(c)') \in Nat
    <3> DEFINE s == List(c)  t == List(c)'
    <3> HIDE DEF s, t
    <3>1. s \in Seq(Handlers) /\ t \in Seq(Handlers) /\ Extends(s, t)
      BY <2>1, <2>2 DEF s, t
    <3>2. DOMAIN s = 1 .. Len(s) /\ DOMAIN t = 1 .. Len(t) /\ Len(s) \in Nat /\ Len(t) \in Nat
      BY <3>1
    <3>3. Len(s) # 0 => Len(s) \in DOMAIN t
      BY <3>1, <3>2 DEF Extends
    <3>4. Len(s) <= Len(t)
      BY <3>2, <3>3
    <3> QED BY <3>2, <3>4 DEF s, t
  <2>4. ASSUME NEW n \in Nat, n <= Len(List(c)) + 1 PROVE Passed(c, n)' = Passed(c, n)
    <3>1. \A k \in 1 .. n - 1 : k \in DOMAIN List(c)
      BY <2>2, <2>3, <2>4
    <3>2. \A k \in 1 .. n - 1 : List(c)'[k] = List(c)[k]
      BY <2>1, <3>1 DEF Extends
    <3> QED BY <3>2 DEF Passed
  <2>5. round[c].next \in Nat /\ round[c].next + 1 \in Nat /\ round[c].next + 0 \in Nat
    BY <1>1 DEF OTypes, RoundType, Indices
  <2> DEFINE n == round[c].next + (IF step[c] = "list" THEN 0 ELSE 1)
  <2>6. Passed(c, n)' = Passed(c, n) /\ Passed(c, round[c].next)' = Passed(c, round[c].next)
    <3>1. n \in Nat /\ n <= Len(List(c)) + 1 /\ round[c].next <= Len(List(c)) + 1
      BY <2>1, <2>3, <2>5 DEF Looped
    <3>2. n' = n /\ round'[c].next = round[c].next
      BY <1>4
    <3> HIDE DEF n
    <3> QED BY <2>4, <2>5, <3>1, <3>2 DEF Passed
  <2>7. round'[c].next <= Len(List(c)') + (IF step'[c] = "list" THEN 1 ELSE 0)
    BY <1>4, <2>1, <2>3, <2>5 DEF Looped
  <2>8. \A g \in Elements(ran'[c]) : Priority(g) < round'[c].at \/ g \in Passed(c, n)'
    BY <1>3, <2>1, <2>6 DEF Looped
  <2>9. \A h \in known'[c] : Due(c, h)' =>
          \/ h \in Elements(ran'[c])
          \/ Priority(h) \in round'[c].left
          \/ Priority(h) = round'[c].at /\ h \notin Passed(c, round[c].next)'
    BY <1>3, <1>5, <2>1, <2>6 DEF Looped
  <2>10. Priorities' = Priorities /\ round'[c].at \in Priorities /\ \A p \in round'[c].left : round'[c].at < p
    BY <2>1 DEF Looped, Priorities
  <2> QED BY <2>7, <2>8, <2>9, <2>10 DEF Looped, Priority
<1>11. step'[c] \in Calling => List(c)'[round'[c].next] \in Elements(ran'[c])
  <2> SUFFICES ASSUME step[c] \in Calling PROVE List(c)'[round[c].next] \in Elements(ran[c])
    BY <1>3, <1>4
  <2>1. /\ step[c] \in Looping /\ step[c] # "list" /\ Looped(c) /\ List(c)[round[c].next] \in Elements(ran[c])
        /\ Extends(List(c), List(c)')
    BY <1>1 DEF Own, Looping, Calling
  <2>2. List(c) \in Seq(Handlers)
    BY <1>1, <2>1 DEF OTypes, List, Looped, IInv, Types
  <2>3. round[c].next \in Nat \ {0} /\ round[c].next <= Len(List(c)) + 0
    BY <1>1, <2>1 DEF Looped, OTypes, RoundType, Indices
  <2>4. round[c].next \in DOMAIN List(c)
    BY <2>2, <2>3
  <2> QED BY <2>1, <2>4 DEF Extends
<1>12. Ordered(c)'
  BY <1>1, <1>2 DEF Own, Ordered, Elements
<1>13. Complete(c)'
  <2> SUFFICES ASSUME NEW h \in known[c], Due(c, h)',
                      result'[c] = "ok" \/ \E g \in Elements(ran[c]) : Before(h, g)'
               PROVE  h \in Elements(ran[c])
    BY <1>3 DEF Complete
  <2>1. step[c] # "idle" /\ Due(c, h)
    BY <1>3, <1>5
  <2>2. result'[c] = "ok" => result[c] = "ok"
    OBVIOUS
  <2>3. \A g \in Elements(ran[c]) : Before(h, g)' => Before(h, g)
    BY <1>1, <1>2 DEF Own
  <2> QED BY <1>1, <2>1, <2>2, <2>3 DEF Own, Complete
<1> QED BY <1>6, <1>7, <1>8, <1>9, <1>10, <1>11, <1>12, <1>13 DEF Own, Priorities

-----------------------------------------------------------------------------
LEMMA RegistryUnchanged ==
  ASSUME Registry, UNCHANGED registry
  PROVE  Registry'
BY DEF Registry, registry, Sorted, RegisteredAs, Priorities, Priority

(* Cleaning takes only dead handlers from a list. *)
LEMMA CleanStep ==
  ASSUME OTypes, Registry, NEW d \in Dispatches, event[d] \in Events, round[d].at \in Priorities,
         round[d].gone \subseteq expired, handlers' = Cleaned(d), born' = born, expired' = expired
  PROVE  Registry' /\ handlers' \in [Events -> [Priorities -> Seq(Handlers)]]
<1> DEFINE t == Without(List(d), round[d].gone)
<1>1. List(d) \in Seq(Handlers)
  BY DEF OTypes, List
<1>2. /\ t \in Seq(Handlers) /\ Elements(t) = Elements(List(d)) \cap (Handlers \ round[d].gone)
      /\ Sorted(List(d)) => Sorted(t)
  BY <1>1, OnlyKeeps DEF Without
<1>3. handlers' = [handlers EXCEPT ![event[d]][round[d].at] = t]
  BY DEF Cleaned, List
<1> HIDE DEF t
<1>4. \A e \in Events : \A p \in Priorities :
        handlers'[e][p] = IF e = event[d] /\ p = round[d].at THEN t ELSE handlers[e][p]
  BY <1>3 DEF OTypes
<1>5. handlers' \in [Events -> [Priorities -> Seq(Handlers)]]
  BY <1>2, <1>3 DEF OTypes
<1>6. Registry'
  <2> SUFFICES ASSUME NEW e \in Events, NEW p \in Priorities
               PROVE  /\ Sorted(handlers'[e][p])
                      /\ \A h \in Elements(handlers'[e][p]) : h \in Elements(born) /\ HandlerOf[h].event = e /\ Priority(h) = p
                      /\ \A h \in Elements(born) \ expired :
                           HandlerOf[h].event = e /\ Priority(h) = p => h \in Elements(handlers'[e][p])
    BY DEF Registry, Sorted, RegisteredAs, Priorities, Priority
  <2>1. CASE handlers'[e][p] = handlers[e][p]
    BY <2>1 DEF Registry
  <2>2. CASE e = event[d] /\ p = round[d].at /\ handlers'[e][p] = t
    <3>1. handlers[e][p] = List(d) /\ Sorted(List(d))
      BY <2>2 DEF List, Registry
    <3>2. \A h \in Elements(born) \ expired : h \in Handlers \ round[d].gone
      BY Placed
    <3>3. \A h \in Elements(List(d)) : h \in Elements(born) /\ HandlerOf[h].event = e /\ Priority(h) = p
      BY <3>1 DEF Registry
    <3>4. \A h \in Elements(born) \ expired :
            HandlerOf[h].event = e /\ Priority(h) = p => h \in Elements(List(d))
      BY <3>1 DEF Registry
    <3> HIDE DEF List, Elements, Sorted
    <3> QED BY <1>2, <2>2, <3>1, <3>2, <3>3, <3>4
  <2> QED BY <1>4, <2>1, <2>2
<1> QED BY <1>5, <1>6

(* A step of a dispatch inside its lock, which may clean its list. *)
Local(d, s, r, w, q, K) ==
  /\ step' = [step EXCEPT ![d] = s] /\ round' = [round EXCEPT ![d] = r]
  /\ result' = [result EXCEPT ![d] = w] /\ ran' = [ran EXCEPT ![d] = q]
  /\ known' = [known EXCEPT ![d] = K]
  /\ UNCHANGED <<born, expired, event>>
  /\ handlers' = handlers \/ (step[d] \in Looping /\ handlers' = Cleaned(d))

(* Nobody else is inside for the same event, so that nobody else goes      *)
(* through the list that is cleaned: here the lock is needed.              *)
LEMMA LocalStep ==
  ASSUME OInv, IInv, NEW d \in Dispatches, step[d] \in Inside, NEW s \in Inside, NEW r \in RoundType,
         NEW w \in Ends, NEW q \in Seq(Handlers), NEW K \in SUBSET Handlers, Local(d, s, r, w, q, K), Own(d)'
  PROVE  OInv'
<1> USE DEF Local
<1>1. /\ OTypes /\ Registry /\ Own(d) /\ event[d] \in Events
      /\ step[d] \in Looping => round[d].at \in Priorities /\ round[d].gone \subseteq expired
  BY DEF OInv, Own, Looped, Looping, Running, IInv, Types
<1>2. Registry' /\ handlers' \in [Events -> [Priorities -> Seq(Handlers)]]
  <2>1. CASE handlers' = handlers
    BY <1>1, <2>1, RegistryUnchanged DEF registry, OTypes
  <2>2. CASE handlers' # handlers
    BY <1>1, <2>2, CleanStep
  <2> QED BY <2>1, <2>2
<1>3. OTypes'
  BY <1>1, <1>2 DEF OTypes, Priorities
<1>4. ASSUME NEW c \in Dispatches \ {d} PROVE Own(c)'
  <2>1. /\ round'[c] = round[c] /\ ran'[c] = ran[c] /\ known'[c] = known[c] /\ result'[c] = result[c]
        /\ step'[c] = step[c] /\ event'[c] = event[c]
    BY <1>1 DEF OTypes, IInv, Types
  <2>2. ASSUME step[c] \in Looping PROVE Extends(List(c), List(c)')
    <3>1. step[c] \in Inside
      BY <2>2 DEF Looping, Inside
    <3>2. event[c] # event[d]
      <4> SUFFICES ASSUME event[c] = event[d] PROVE FALSE
        OBVIOUS
      <4>1. lock[c] = lock[d]
        BY <3>1 DEF IInv, Refers, Active
      <4> QED BY <3>1, <4>1 DEF IInv, Holds
    <3>3. event[c] \in Events /\ handlers'[event[c]] = handlers[event[c]]
      BY <1>1, <3>2 DEF Cleaned, OTypes, IInv, Types
    <3>4. List(c)' = List(c)
      BY <2>1, <3>3 DEF List
    <3> QED BY <3>4 DEF Extends
  <2>3. Apart(c)
    BY <2>1, <2>2 DEF Apart, Same
  <2> QED BY <1>3, <2>3, OwnKept DEF Grows
<1> QED BY <1>2, <1>3, <1>4 DEF OInv

(* The values after such a step.                                           *)
LEMMA LocallyIs ==
  ASSUME OTypes, IInv, NEW d \in Dispatches, NEW s, NEW r, NEW w, NEW q, NEW K, Local(d, s, r, w, q, K)
  PROVE  /\ step'[d] = s /\ round'[d] = r /\ result'[d] = w /\ ran'[d] = q /\ known'[d] = K
         /\ event'[d] = event[d] /\ event[d] \in Events /\ Elements(born') = Elements(born)
         /\ \A h : Due(d, h)' <=> Due(d, h)
         /\ \A g, h : Before(g, h)' <=> Before(g, h)
         /\ handlers' = handlers => List(d)' = handlers[event[d]][r.at]
BY DEF Local, OTypes, IInv, Types, Due, Before, RegisteredAs, Elements, List
-----------------------------------------------------------------------------
(* The steps of a dispatch inside its lock, one by one. *)
LEMMA LooksAt ==
  ASSUME OInv, IInv, NEW d \in Dispatches
  PROVE  /\ OTypes /\ Registry /\ Own(d)
         /\ step[d] \in Steps /\ round[d] \in RoundType /\ result[d] \in Ends /\ ran[d] \in Seq(Handlers)
         /\ known[d] \in SUBSET Handlers /\ event[d] \in Events
         /\ step = [step EXCEPT ![d] = step[d]] /\ round = [round EXCEPT ![d] = round[d]]
         /\ result = [result EXCEPT ![d] = result[d]] /\ ran = [ran EXCEPT ![d] = ran[d]]
         /\ known = [known EXCEPT ![d] = known[d]]
BY DEF OInv, OTypes, IInv, Types

LEMMA NoneRan ==
  ASSUME NEW d \in Dispatches, ran[d] = <<>>
  PROVE  DOMAIN ran[d] = {} /\ Elements(ran[d]) = {}
<1>1. Len(<<>>) = 0 /\ << >> \in Seq(Handlers)
  OBVIOUS
<1>2. DOMAIN << >> = {}
  BY <1>1
<1> QED BY <1>2 DEF Elements

(* Where the current list is, and what is in it. *)
LEMMA ListHolds ==
  ASSUME OInv, IInv, NEW d \in Dispatches, step[d] \in Looping
  PROVE  /\ List(d) \in Seq(Handlers) /\ DOMAIN List(d) = 1 .. Len(List(d)) /\ Len(List(d)) \in Nat
         /\ round[d].at \in Priorities /\ round[d].next \in Nat \ {0} /\ Sorted(List(d))
         /\ \A h \in Elements(List(d)) : h \in Elements(born) /\ Priority(h) = round[d].at
         /\ \A h \in Elements(born) \ expired :
              HandlerOf[h].event = event[d] /\ Priority(h) = round[d].at => h \in Elements(List(d))
<1>1. OTypes /\ Registry /\ event[d] \in Events /\ Looped(d)
  BY LooksAt DEF Own
<1>2. round[d].at \in Priorities /\ round[d].next \in Nat \ {0}
  BY <1>1 DEF Looped, OTypes, RoundType, Indices
<1>3. List(d) \in Seq(Handlers)
  BY <1>1, <1>2 DEF OTypes, List
<1> QED BY <1>1, <1>2, <1>3 DEF Registry, List

LEMMA StartOrder ==
  ASSUME OInv, IInv, NEW d \in Dispatches, Start(d)
  PROVE  OInv'
<1> DEFINE r == [NoRound EXCEPT !.left = Registered(event[d])]
           K == Elements(born)
<1>0. Registered(event[d]) \subseteq Priorities /\ K \subseteq Handlers
  BY LooksAt, Placed DEF Registered, Priorities
<1>1. r \in RoundType /\ "rounds" \in Inside /\ step[d] \in Inside
  BY <1>0, HandlerTypes DEF RoundType, NoRound, Indices, Inside, Start
<1>2. Local(d, "rounds", r, result[d], ran[d], K)
  BY LooksAt DEF Local, Start, registry, locking
<1>3. step[d] = "locked" /\ Own(d) /\ OTypes
  BY LooksAt DEF Start
<1>4. ran[d] = <<>> /\ result[d] = "none" /\ DOMAIN ran[d] = {} /\ Elements(ran[d]) = {}
  BY <1>3, NoneRan DEF Own, Outside
<1>5. /\ r.left = Registered(event[d]) /\ r.gone = {}
      /\ \A h \in K : Due(d, h) => Priority(h) \in Registered(event[d])
  BY DEF Registered, Due, NoRound, Priority
<1> HIDE DEF r
<1>6. /\ step'[d] = "rounds" /\ round'[d] = r /\ result'[d] = "none" /\ ran'[d] = ran[d] /\ known'[d] = K
      /\ Elements(born') = Elements(born) /\ \A h : Due(d, h)' <=> Due(d, h)
      /\ Elements(ran[d])' = {} /\ DOMAIN ran'[d] = {}
  <2>1. /\ step'[d] = "rounds" /\ round'[d] = r /\ result'[d] = "none" /\ ran'[d] = ran[d] /\ known'[d] = K
        /\ Elements(born') = Elements(born) /\ \A h : Due(d, h)' <=> Due(d, h)
    BY <1>2, <1>3, <1>4, LocallyIs
  <2>2. Elements(ran[d])' = Elements(ran[d])
    BY <2>1 DEF Elements
  <2> QED BY <1>4, <2>1, <2>2
<1>7. Own(d)'
  <2>1. Unlooped(d)'
    BY <1>5, <1>6 DEF Unlooped, Priority
  <2>2. Ordered(d)' /\ Complete(d)'
    BY <1>6 DEF Ordered, Complete
  <2> QED BY <1>0, <1>5, <1>6, <2>1, <2>2 DEF Own, Outside, Running, Looping, Calling, Priorities
<1> QED BY <1>0, <1>1, <1>2, <1>7, LocalStep, LooksAt

LEMMA LowestIs ==
  ASSUME NEW P \in SUBSET Nat, P # {}
  PROVE  LowestOf(P) \in P /\ \A q \in P : LowestOf(P) <= q
BY Least DEF LowestOf

LEMMA RoundAt ==
  ASSUME NEW L \in SUBSET Nat, NEW p \in Nat
  PROVE  [NoRound EXCEPT !.left = L, !.at = p] \in RoundType
<1>1. 1 \in Indices
  BY DEF Indices
<1> QED BY <1>1 DEF NoRound, RoundType

LEMMA NextRoundOrder ==
  ASSUME OInv, IInv, NEW d \in Dispatches, NextRound(d)
  PROVE  OInv'
<1> DEFINE p == LowestOf(round[d].left)
           r == [NoRound EXCEPT !.left = round[d].left \ {p}, !.at = p]
<1>1. /\ step[d] = "rounds" /\ Own(d) /\ OTypes /\ Unlooped(d) /\ round[d].left # {}
      /\ round[d].left \subseteq Priorities /\ round[d].left \in SUBSET Nat
  BY LooksAt DEF NextRound, Own, Running, RoundType
<1>2. p \in round[d].left /\ \A q \in round[d].left : p <= q
  BY <1>1, LowestIs
<1>3. p \in Priorities /\ p \in Nat
  BY <1>1, <1>2
<1>4. Local(d, "list", r, result[d], ran[d], known[d])
  BY LooksAt DEF Local, NextRound, registry, locking
<1> HIDE DEF p
<1>5. /\ r \in RoundType /\ r.left = round[d].left \ {p} /\ r.at = p /\ r.next = 1 /\ r.gone = {}
  <2>1. r.left = round[d].left \ {p} /\ r.at = p /\ r.next = 1 /\ r.gone = {}
    BY DEF NoRound
  <2>2. round[d].left \ {p} \in SUBSET Nat
    BY <1>1
  <2>3. r \in RoundType
    BY <1>3, <2>2, RoundAt
  <2> QED BY <2>1, <2>3
<1>6. "list" \in Inside /\ step[d] \in Inside
  BY <1>1 DEF Inside
<1> HIDE DEF r
<1>7. /\ step'[d] = "list" /\ round'[d] = r /\ result'[d] = result[d] /\ ran'[d] = ran[d] /\ known'[d] = known[d]
      /\ Elements(born') = Elements(born) /\ (\A h : Due(d, h)' <=> Due(d, h))
      /\ (\A g, h : Before(g, h)' <=> Before(g, h))
      /\ List(d)' = handlers[event[d]][p] /\ event[d] \in Events
  <2>1. handlers' = handlers
    BY DEF NextRound, registry
  <2> QED BY <1>1, <1>4, <1>5, <2>1, LocallyIs
<1>8. Own(d)'
  <2>1. Looped(d)'
    <3>1. Len(List(d)') \in Nat
      BY <1>1, <1>3, <1>7 DEF OTypes
    <3>2. round'[d].next <= Len(List(d)') + 1
      BY <1>5, <1>7, <3>1
    <3>3. \A q \in r.left : p < q
      BY <1>1, <1>2, <1>3, <1>5
    <3>4. \A g \in Elements(ran[d]) : Priority(g) < p
      BY <1>1, <1>2 DEF Unlooped
    <3>5. Passed(d, 1)' = {}
      BY DEF Passed
    <3>6. \A h \in known[d] : Due(d, h) => h \in Elements(ran[d]) \/ Priority(h) \in r.left \/ Priority(h) = p
      BY <1>1, <1>5 DEF Unlooped
    <3>7. Elements(ran[d])' = Elements(ran[d])
      BY <1>7 DEF Elements
    <3>8. \A h \in known'[d] : Due(d, h)' =>
            h \in Elements(ran'[d]) \/ Priority(h) \in round'[d].left
            \/ (Priority(h) = round'[d].at /\ h \notin Passed(d, round[d].next)')
      BY <1>5, <1>7, <3>5, <3>6, <3>7 DEF Passed
    <3> QED BY <1>3, <1>5, <1>7, <3>2, <3>3, <3>4, <3>7, <3>8 DEF Looped, Priority, Priorities
  <2>2. Ordered(d)' /\ Complete(d)'
    BY <1>1, <1>7 DEF Own, Ordered, Complete, Elements
  <2>3. known'[d] \subseteq Elements(born') /\ Elements(ran'[d]) \subseteq Elements(born')
    BY <1>1, <1>7 DEF Own, Elements
  <2>4. result'[d] # "ok" /\ round'[d].gone = {} /\ round'[d].left \subseteq Priorities
    BY <1>1, <1>5, <1>7 DEF Own, Running
  <2> QED BY <1>7, <2>1, <2>2, <2>3, <2>4 DEF Own, Outside, Looping, Calling, Priorities
<1> QED BY <1>4, <1>5, <1>6, <1>8, LocalStep, LooksAt

LEMMA AllRoundsOrder ==
  ASSUME OInv, IInv, NEW d \in Dispatches, AllRounds(d)
  PROVE  OInv'
<1>1. /\ step[d] = "rounds" /\ Own(d) /\ OTypes /\ Unlooped(d) /\ round[d].left = {}
  BY LooksAt DEF AllRounds, Own
<1>2. Local(d, "closing", round[d], "ok", ran[d], known[d])
  BY LooksAt DEF Local, AllRounds, registry, locking
<1>3. /\ step'[d] = "closing" /\ ran'[d] = ran[d] /\ known'[d] = known[d]
      /\ Elements(born') = Elements(born) /\ (\A h : Due(d, h)' <=> Due(d, h))
      /\ (\A g, h : Before(g, h)' <=> Before(g, h))
  BY <1>1, <1>2, LocallyIs
<1>4. Own(d)'
  BY <1>1, <1>3, SMTT(30) DEF Own, Outside, Running, Looping, Calling, Ordered, Complete, Unlooped, Elements
<1>5. "closing" \in Inside /\ step[d] \in Inside /\ "ok" \in Ends
  BY <1>1 DEF Inside, Ends
<1> QED BY <1>2, <1>4, <1>5, LocalStep, LooksAt

(* The index moves on, past a dead handler or one that is done.            *)
LEMMA OnStep ==
  ASSUME OInv, IInv, NEW d \in Dispatches, step[d] \in {"list", "handler"}, round[d].next <= Len(List(d)),
         NEW w \in Ends \ {"ok"}, NEW r \in RoundType, r.left = round[d].left, r.at = round[d].at,
         r.next = round[d].next + 1, r.gone \subseteq expired,
         Local(d, "list", r, w, ran[d], known[d]), handlers' = handlers,
         \A h \in known[d] : Due(d, h) /\ h = Handler(d) => h \in Elements(ran[d])
  PROVE  OInv'
<1>1. Own(d) /\ OTypes /\ Looped(d) /\ step[d] \in Looping /\ step[d] \in Running /\ step[d] \in Inside
  BY LooksAt DEF Own, Looping, Running, Inside
<1>2. /\ List(d) \in Seq(Handlers) /\ Len(List(d)) \in Nat /\ round[d].next \in Nat \ {0}
      /\ Handler(d) = List(d)[round[d].next]
  BY <1>1, ListHolds DEF Handler, List
<1>3. /\ step'[d] = "list" /\ round'[d] = r /\ result'[d] = w /\ ran'[d] = ran[d] /\ known'[d] = known[d]
      /\ Elements(born') = Elements(born) /\ (\A h : Due(d, h)' <=> Due(d, h))
      /\ (\A g, h : Before(g, h)' <=> Before(g, h)) /\ List(d)' = List(d)
      /\ Elements(ran[d])' = Elements(ran[d]) /\ expired' = expired
  <2>1. /\ step'[d] = "list" /\ round'[d] = r /\ result'[d] = w /\ ran'[d] = ran[d] /\ known'[d] = known[d]
        /\ Elements(born') = Elements(born) /\ (\A h : Due(d, h)' <=> Due(d, h))
        /\ (\A g, h : Before(g, h)' <=> Before(g, h)) /\ List(d)' = handlers[event[d]][r.at]
    BY <1>1, LocallyIs
  <2> QED BY <2>1 DEF List, Elements, Local
<1>4. Looped(d)'
  <2>0. PICK n \in Nat : n = round[d].next
    BY <1>2
  <2>1. /\ Passed(d, n + 1)' = Passed(d, n + 1) /\ Passed(d, n) \subseteq Passed(d, n + 1)
        /\ Passed(d, n + 1) \subseteq Passed(d, n) \cup {Handler(d)}
    <3>1. \A k \in 1 .. (n + 1) - 1 : k \in 1 .. n - 1 \/ k = n
      BY <2>0, <1>2
    <3>2. \A k \in 1 .. n - 1 : k \in 1 .. (n + 1) - 1
      BY <2>0, <1>2
    <3>3. Passed(d, n + 1)' = Passed(d, n + 1)
      BY <1>3 DEF Passed
    <3>4. Passed(d, n) \subseteq Passed(d, n + 1)
      BY <3>2 DEF Passed
    <3>5. Passed(d, n + 1) \subseteq Passed(d, n) \cup {Handler(d)}
      BY <2>0, <1>2, <3>1 DEF Passed
    <3> QED BY <3>3, <3>4, <3>5
  <2>2. round'[d].next = n + 1 /\ n + 1 <= Len(List(d)') + 1
    BY <2>0, <1>2, <1>3
  <2>3. \A g \in Elements(ran[d]) : Priority(g) < round[d].at \/ g \in Passed(d, n + 1)
    <3>1. CASE step[d] = "list"
      <4>1. n + 0 = n
        BY <2>0, <1>2
      <4> QED BY <1>1, <2>0, <2>1, <3>1, <4>1 DEF Looped
    <3>2. CASE step[d] # "list"
      BY <1>1, <2>0, <3>2 DEF Looped
    <3> QED BY <3>1, <3>2
  <2>4. \A h \in known[d] : Due(d, h) =>
          \/ h \in Elements(ran[d])
          \/ Priority(h) \in round[d].left
          \/ Priority(h) = round[d].at /\ h \notin Passed(d, n + 1)
    BY <1>1, <2>0, <2>1 DEF Looped
  <2>5. round[d].at \in Priorities /\ \A p \in round[d].left : round[d].at < p
    BY <1>1 DEF Looped
  <2>6. (n + 1) + 0 = n + 1
    OBVIOUS
  <2>7. \A g \in Elements(ran'[d]) : Priority(g) < round'[d].at \/ g \in Passed(d, n + 1)'
    BY <1>3, <2>1, <2>3
  <2>8. \A h \in known'[d] : Due(d, h)' =>
          \/ h \in Elements(ran'[d])
          \/ Priority(h) \in round'[d].left
          \/ Priority(h) = round'[d].at /\ h \notin Passed(d, n + 1)'
    BY <1>3, <2>1, <2>4
  <2>9. round'[d].at \in Priorities /\ \A p \in round'[d].left : round'[d].at < p
    BY <1>3, <2>5
  <2>10. Passed(d, round[d].next + 0)' = Passed(d, n + 1)' /\ Passed(d, round[d].next)' = Passed(d, n + 1)'
    BY <2>2, <2>6 DEF Passed
  <2> QED BY <1>3, <2>2, <2>7, <2>8, <2>9, <2>10 DEF Looped, Priority, Priorities, Passed
<1>5. Ordered(d)'
  BY <1>1, <1>3 DEF Own, Ordered
<1>6. Complete(d)'
  BY <1>1, <1>3 DEF Own, Complete
<1>7. /\ known'[d] \subseteq Elements(born') /\ Elements(ran'[d]) \subseteq Elements(born')
      /\ result'[d] # "ok" /\ round'[d].gone \subseteq expired' /\ round'[d].left \subseteq Priorities
  BY <1>1, <1>3 DEF Own
<1>8. Own(d)'
  BY <1>3, <1>4, <1>5, <1>6, <1>7 DEF Own, Outside, Looping, Calling, Priorities
<1>9. "list" \in Inside
  BY DEF Inside
<1> QED BY <1>1, <1>8, <1>9, LocalStep, LooksAt

(* The round is over, or the whole dispatch, because somebody stops it.    *)
LEMMA StopStep ==
  ASSUME OInv, IInv, NEW d \in Dispatches, step[d] \in {"list", "handler"}, NEW w \in Ends \ {"ok"},
         Local(d, "closing", round[d], w, ran[d], known[d])
  PROVE  OInv'
<1>1. Own(d) /\ OTypes /\ step[d] \in Inside /\ "closing" \in Inside
  BY LooksAt DEF Inside
<1>2. /\ step'[d] = "closing" /\ result'[d] = w /\ ran'[d] = ran[d] /\ known'[d] = known[d]
      /\ Elements(born') = Elements(born) /\ (\A h : Due(d, h)' <=> Due(d, h))
      /\ (\A g, h : Before(g, h)' <=> Before(g, h))
  BY <1>1, LocallyIs
<1>3. "closing" \notin Outside /\ "closing" \notin Running /\ "closing" \notin Looping /\ "closing" \notin Calling
  BY DEF Outside, Running, Looping, Calling
<1>4. Elements(ran[d])' = Elements(ran[d]) /\ w # "ok" /\ result[d] # "ok" /\ Ordered(d) /\ Complete(d)
  BY <1>1, <1>2 DEF Own, Running, Elements
<1>5. Ordered(d)'
  BY <1>2, <1>4 DEF Ordered
<1>6. Complete(d)'
  BY <1>2, <1>4 DEF Complete
<1>7. known'[d] \subseteq Elements(born') /\ Elements(ran[d])' \subseteq Elements(born')
  <2>1. known[d] \subseteq Elements(born) /\ Elements(ran[d]) \subseteq Elements(born)
    BY <1>1 DEF Own
  <2> QED BY <1>2, <1>4, <2>1
<1>8. Own(d)'
  <2> HIDE DEF Ordered, Complete, Unlooped, Looped
  <2> QED BY <1>2, <1>3, <1>4, <1>5, <1>6, <1>7 DEF Own
<1> QED BY <1>1, <1>8, LocalStep, LooksAt

LEMMA RoundEndsOrder ==
  ASSUME OInv, IInv, NEW d \in Dispatches, RoundEnds(d)
  PROVE  OInv'
<1>1. /\ step[d] = "list" /\ Own(d) /\ OTypes /\ Looped(d) /\ step[d] \in Looping /\ step[d] \in Inside
      /\ step[d] \in Running /\ "rounds" \in Inside
  BY LooksAt DEF RoundEnds, Own, Looping, Inside, Running
<1>2. Local(d, "rounds", round[d], result[d], ran[d], known[d])
  BY <1>1, LooksAt DEF Local, RoundEnds, locking
<1>3. /\ step'[d] = "rounds" /\ round'[d] = round[d] /\ result'[d] = result[d] /\ ran'[d] = ran[d]
      /\ known'[d] = known[d]
      /\ Elements(born') = Elements(born) /\ (\A h : Due(d, h)' <=> Due(d, h))
      /\ (\A g, h : Before(g, h)' <=> Before(g, h)) /\ expired' = expired
  <2>1. expired' = expired
    BY <1>2 DEF Local
  <2> QED BY <1>1, <1>2, <2>1, LocallyIs
<1>4. /\ DOMAIN List(d) = 1 .. Len(List(d)) /\ Len(List(d)) \in Nat
      /\ round[d].at \in Priorities /\ round[d].next \in Nat \ {0}
      /\ \A h \in Elements(List(d)) : h \in Elements(born) /\ Priority(h) = round[d].at
      /\ \A h \in Elements(born) \ expired :
           HandlerOf[h].event = event[d] /\ Priority(h) = round[d].at => h \in Elements(List(d))
  BY <1>1, ListHolds
<1>5. round[d].next > Len(List(d))
  BY <1>1, <1>4 DEF RoundEnds, More, List
<1>6. Elements(List(d)) \subseteq Passed(d, round[d].next)
  BY <1>4, <1>5 DEF Elements, Passed
<1>7. Passed(d, round[d].next + 0) \subseteq Elements(List(d))
  <2>1. round[d].next - 1 <= Len(List(d))
    BY <1>1, <1>4 DEF Looped
  <2>2. \A k \in 1 .. (round[d].next + 0) - 1 : k \in DOMAIN List(d)
    BY <1>4, <2>1
  <2> QED BY <2>2 DEF Elements, Passed
<1>8. Unlooped(d)
  <2>1. ASSUME NEW g \in Elements(ran[d]), NEW p \in round[d].left PROVE Priority(g) < p
    <3>1. Priority(g) < round[d].at \/ Priority(g) = round[d].at
      BY <1>1, <1>4, <1>7 DEF Looped
    <3>2. round[d].at < p /\ p \in Nat /\ round[d].at \in Nat /\ Priority(g) \in Nat
      BY <1>1, Placed, HandlerTypes DEF Own, Looped
    <3> QED BY <3>1, <3>2
  <2>2. ASSUME NEW h \in known[d], Due(d, h) PROVE h \in Elements(ran[d]) \/ Priority(h) \in round[d].left
    <3> SUFFICES ASSUME Priority(h) = round[d].at, h \notin Passed(d, round[d].next) PROVE FALSE
      BY <1>1, <2>2 DEF Looped
    <3>1. h \in Elements(born) \ expired /\ HandlerOf[h].event = event[d]
      BY <1>1, <2>2 DEF Own, Due
    <3> QED BY <1>4, <1>6, <3>1
  <2> QED BY <2>1, <2>2 DEF Unlooped
<1>9. Own(d)'
  <2>1. Elements(ran[d])' = Elements(ran[d])
    BY <1>3 DEF Elements
  <2>2. Unlooped(d)'
    BY <1>3, <1>8, <2>1 DEF Unlooped, Priority
  <2>3. Ordered(d)' /\ Complete(d)'
    BY <1>1, <1>3, <2>1 DEF Own, Ordered, Complete
  <2> QED BY <1>1, <1>3, <2>1, <2>2, <2>3 DEF Own, Outside, Looping, Calling, Priorities
<1> QED BY <1>1, <1>2, <1>9, LocalStep, LooksAt

(* A handler is called: everything it comes after has been.                *)
LEMMA CallOrder ==
  ASSUME OInv, IInv, NEW d \in Dispatches, Call(d)
  PROVE  OInv'
<1> DEFINE x == Handler(d)
<1>1. /\ step[d] = "list" /\ Own(d) /\ OTypes /\ Looped(d) /\ step[d] \in Looping /\ step[d] \in Inside
      /\ step[d] \in Running /\ "handler" \in Inside /\ x \notin expired
  BY LooksAt DEF Call, Live, More, Own, Looping, Inside, Running
<1>2. /\ List(d) \in Seq(Handlers) /\ DOMAIN List(d) = 1 .. Len(List(d)) /\ Len(List(d)) \in Nat /\ Sorted(List(d))
      /\ round[d].at \in Priorities /\ x = List(d)[round[d].next]
      /\ \A h \in Elements(List(d)) : h \in Elements(born) /\ Priority(h) = round[d].at
      /\ \A h \in Elements(born) \ expired :
           HandlerOf[h].event = event[d] /\ Priority(h) = round[d].at => h \in Elements(List(d))
  BY <1>1, ListHolds DEF Handler, List
<1>3. PICK n \in Nat \ {0} : n = round[d].next
  BY <1>1, ListHolds
<1>4. n \in DOMAIN List(d) /\ x = List(d)[n] /\ n <= Len(List(d))
  <2>1. round[d].next <= Len(List(d))
    BY DEF Call, Live, More, List
  <2> HIDE DEF x
  <2> QED BY <1>2, <1>3, <2>1
<1>5. x \in Handlers /\ x \in Elements(born) /\ Priority(x) = round[d].at
  BY <1>1, <1>2, <1>4, Placed DEF Elements
<1> DEFINE q == Append(ran[d], x)
<1> HIDE DEF x
<1>6. /\ q \in Seq(Handlers) /\ Elements(q) = Elements(ran[d]) \cup {x}
      /\ DOMAIN q = 1 .. Len(ran[d]) + 1 /\ DOMAIN ran[d] = 1 .. Len(ran[d]) /\ Len(ran[d]) \in Nat
      /\ q[Len(ran[d]) + 1] = x /\ \A k \in 1 .. Len(ran[d]) : q[k] = ran[d][k]
  BY <1>1, <1>5, ElementsAppend DEF OTypes
<1>7. Local(d, "handler", round[d], result[d], q, known[d])
  BY LooksAt DEF Local, Call, registry, locking, x
<1> HIDE DEF q
<1>8. handlers' = handlers /\ expired' = expired
  BY DEF Call, registry
<1>9. /\ step'[d] = "handler" /\ round'[d] = round[d] /\ result'[d] = result[d] /\ ran'[d] = q
      /\ known'[d] = known[d] /\ Elements(born') = Elements(born) /\ (\A h : Due(d, h)' <=> Due(d, h))
      /\ (\A g, h : Before(g, h)' <=> Before(g, h)) /\ List(d)' = List(d)
      /\ Elements(ran[d])' = Elements(q)
  <2>1. /\ step'[d] = "handler" /\ round'[d] = round[d] /\ result'[d] = result[d] /\ ran'[d] = q
        /\ known'[d] = known[d] /\ Elements(born') = Elements(born) /\ (\A h : Due(d, h)' <=> Due(d, h))
        /\ (\A g, h : Before(g, h)' <=> Before(g, h)) /\ List(d)' = handlers[event[d]][round[d].at]
    BY <1>1, <1>7, <1>8, LocallyIs
  <2> QED BY <2>1 DEF List, Elements
<1>10. \A m \in 1 .. n + 1 : Passed(d, m)' = Passed(d, m)
  BY <1>9 DEF Passed
<1>11. \A g \in Passed(d, n) : \E k \in DOMAIN List(d) : k < n /\ g = List(d)[k]
  <2>1. \A k \in 1 .. n - 1 : k \in DOMAIN List(d) /\ k < n
    BY <1>2, <1>3, <1>4
  <2> QED BY <2>1 DEF Passed
<1>12. Passed(d, n) \subseteq Passed(d, n + 1) /\ x \in Passed(d, n + 1)
  <2>1. n \in 1 .. (n + 1) - 1 /\ \A k \in 1 .. n - 1 : k \in 1 .. (n + 1) - 1
    BY <1>3
  <2> QED BY <1>4, <2>1 DEF Passed
<1>13. \A g \in Elements(ran[d]) : Priority(g) < round[d].at \/ g \in Passed(d, n)
  <2>1. n + 0 = n
    BY <1>3
  <2> QED BY <1>1, <1>3, <2>1 DEF Looped
<1>14. \A g \in Elements(ran[d]) : Before(g, x)
  <2> SUFFICES ASSUME NEW g \in Elements(ran[d]), ~(Priority(g) < round[d].at) PROVE Before(g, x)
    BY <1>5 DEF Before, Priority
  <2>1. PICK k \in DOMAIN List(d) : k < n /\ g = List(d)[k]
    BY <1>11, <1>13
  <2>2. RegisteredAs(g) < RegisteredAs(x)
    BY <1>2, <1>4, <2>1 DEF Sorted
  <2>3. Priority(g) = round[d].at
    BY <1>2, <2>1 DEF Elements
  <2> QED BY <1>5, <2>2, <2>3 DEF Before, Priority
<1>15. Looped(d)'
  <2>1. round'[d].next <= Len(List(d)') + 0
    BY <1>2, <1>3, <1>4, <1>9
  <2>2. \A g \in Elements(ran'[d]) : Priority(g) < round'[d].at \/ g \in Passed(d, n + 1)'
    BY <1>6, <1>9, <1>10, <1>12, <1>13, <1>3
  <2>3. \A h \in known'[d] : Due(d, h)' =>
          \/ h \in Elements(ran'[d])
          \/ Priority(h) \in round'[d].left
          \/ Priority(h) = round'[d].at /\ h \notin Passed(d, n)'
    <3>1. \A h \in known[d] : Due(d, h) =>
            \/ h \in Elements(ran[d])
            \/ Priority(h) \in round[d].left
            \/ Priority(h) = round[d].at /\ h \notin Passed(d, n)
      BY <1>1, <1>3 DEF Looped
    <3>2. Passed(d, n)' = Passed(d, n)
      BY <1>3, <1>10
    <3> QED BY <1>6, <1>9, <3>1, <3>2
  <2>4. /\ Passed(d, round[d].next + 1)' = Passed(d, n + 1)'
        /\ Passed(d, round[d].next)' = Passed(d, n)'
    BY <1>3, <1>9 DEF Passed
  <2>5. round'[d].at \in Priorities /\ \A p \in round'[d].left : round'[d].at < p
    BY <1>1, <1>9 DEF Looped
  <2> QED BY <1>9, <2>1, <2>2, <2>3, <2>4, <2>5 DEF Looped, Priority, Priorities, Passed
<1>16. Ordered(d)'
  <2> SUFFICES ASSUME NEW i \in DOMAIN q, NEW j \in DOMAIN q, i < j PROVE Before(q[i], q[j])
    BY <1>9 DEF Ordered
  <2>1. i \in 1 .. Len(ran[d]) /\ q[i] = ran[d][i] /\ ran[d][i] \in Elements(ran[d])
    <3>1. i \in 1 .. Len(ran[d])
      BY <1>6
    <3> QED BY <1>6, <3>1 DEF Elements
  <2>2. CASE j = Len(ran[d]) + 1
    BY <1>6, <1>14, <2>1, <2>2
  <2>3. CASE j # Len(ran[d]) + 1
    <3>1. j \in 1 .. Len(ran[d]) /\ q[j] = ran[d][j]
      BY <1>6, <2>3
    <3> QED BY <1>1, <1>6, <2>1, <3>1 DEF Own, Ordered
  <2> QED BY <2>2, <2>3
<1>17. Complete(d)'
  <2> SUFFICES ASSUME NEW h \in known[d], Due(d, h), \E g \in Elements(q) : Before(h, g)
               PROVE  h \in Elements(q)
    <3>1. result'[d] # "ok"
      BY <1>1, <1>9 DEF Own
    <3> QED BY <1>9, <3>1 DEF Complete
  <2>1. CASE \E g \in Elements(ran[d]) : Before(h, g)
    BY <1>1, <1>6, <2>1 DEF Own, Complete
  <2>2. CASE Before(h, x)
    <3>1. h \in Elements(born) \ expired /\ HandlerOf[h].event = event[d] /\ h \in Handlers
      BY <1>1, Placed DEF Own, Due
    <3>2. CASE h \in Elements(ran[d])
      BY <1>6, <3>2
    <3>3. CASE Priority(h) \in round[d].left
      <4>1. round[d].at < Priority(h) /\ round[d].at \in Nat /\ Priority(h) \in Nat
        BY <1>1, <1>2, <3>1, <3>3, HandlerTypes DEF Looped
      <4>2. Priority(h) < round[d].at \/ Priority(h) = round[d].at
        BY <1>5, <2>2 DEF Before, Priority
      <4> QED BY <4>1, <4>2
    <3>4. CASE Priority(h) = round[d].at /\ h \notin Passed(d, n)
      <4>1. PICK k \in DOMAIN List(d) : List(d)[k] = h
        BY <1>2, <3>1, <3>4 DEF Elements
      <4>2. ~(k < n) /\ k \in Nat
        <5>1. k \in 1 .. Len(List(d))
          BY <1>2, <4>1
        <5>2. k \notin 1 .. n - 1
          BY <3>4, <4>1 DEF Passed
        <5> QED BY <5>1, <5>2, <1>3
      <4>3. RegisteredAs(h) < RegisteredAs(x)
        <5>1. round[d].at \in Nat
          BY <1>2, HandlerTypes
        <5> QED BY <1>5, <2>2, <3>4, <5>1 DEF Before, Priority
      <4>4. CASE k = n
        BY <1>4, <1>6, <4>1, <4>4
      <4>5. CASE n < k
        <5>1. RegisteredAs(x) < RegisteredAs(h)
          BY <1>2, <1>4, <4>1, <4>5 DEF Sorted
        <5>2. RegisteredAs(x) \in Nat /\ RegisteredAs(h) \in Nat
          BY <1>1, <1>5, <3>1, Placed, Places
        <5> QED BY <4>3, <5>1, <5>2
      <4> QED BY <1>3, <4>2, <4>4, <4>5
    <3> QED BY <1>1, <1>3, <3>2, <3>3, <3>4 DEF Looped
  <2> QED BY <1>6, <2>1, <2>2
<1>18. /\ known'[d] \subseteq Elements(born') /\ Elements(ran'[d]) \subseteq Elements(born')
       /\ result'[d] # "ok" /\ round'[d].gone \subseteq expired' /\ round'[d].left \subseteq Priorities
  BY <1>1, <1>5, <1>6, <1>8, <1>9 DEF Own
<1>19. List(d)'[round'[d].next] \in Elements(ran'[d])
  BY <1>3, <1>4, <1>6, <1>9
<1>20. Own(d)'
  BY <1>9, <1>15, <1>16, <1>17, <1>18, <1>19 DEF Own, Outside, Looping, Calling, Priorities
<1> QED BY <1>1, <1>6, <1>7, <1>20, LocalStep, LooksAt

LEMMA RoundOn ==
  ASSUME NEW r0 \in RoundType, NEW g \in SUBSET Handlers
  PROVE  /\ [r0 EXCEPT !.next = @ + 1] \in RoundType
         /\ [r0 EXCEPT !.next = @ + 1, !.gone = @ \cup g] \in RoundType
<1>1. r0.next + 1 \in Indices
  BY DEF RoundType, Indices
<1> QED BY <1>1 DEF RoundType

LEMMA ContinueStep ==
  ASSUME OInv, IInv, NEW d \in Dispatches, step[d] \in {"list", "handler"}, round[d].next <= Len(List(d)),
         Continue(d), UNCHANGED ran, \A h \in known[d] : Due(d, h) /\ h = Handler(d) => h \in Elements(ran[d])
  PROVE  OInv'
<1> DEFINE r == [round[d] EXCEPT !.next = @ + 1]
<1>1. round[d] \in RoundType /\ step[d] \in Running /\ Own(d)
  BY LooksAt DEF Running
<1>2. r \in RoundType /\ r.left = round[d].left /\ r.at = round[d].at /\ r.next = round[d].next + 1 /\ r.gone = round[d].gone
  <2>1. r \in RoundType
    BY <1>1, RoundOn
  <2> QED BY <1>1, <2>1 DEF RoundType
<1>3. Local(d, "list", r, "none", ran[d], known[d]) /\ handlers' = handlers
  BY LooksAt DEF Local, Continue, registry, locking
<1>4. r.gone \subseteq expired /\ "none" \in Ends \ {"ok"}
  BY <1>1, <1>2 DEF Own, Ends
<1> HIDE DEF r
<1> QED BY <1>2, <1>3, <1>4, OnStep

LEMMA PassOverOrder ==
  ASSUME OInv, IInv, NEW d \in Dispatches, PassOver(d)
  PROVE  OInv'
<1> DEFINE r == [round[d] EXCEPT !.next = @ + 1, !.gone = @ \cup {Handler(d)}]
<1>1. /\ round[d] \in RoundType /\ step[d] = "list" /\ step[d] \in Running /\ Own(d) /\ OTypes
      /\ Handler(d) \in expired /\ expired \in SUBSET Handlers /\ round[d].next <= Len(List(d))
  BY LooksAt DEF PassOver, More, Running, List, OTypes
<1>2. /\ r \in RoundType /\ r.left = round[d].left /\ r.at = round[d].at /\ r.next = round[d].next + 1
      /\ r.gone = round[d].gone \cup {Handler(d)}
  <2>1. {Handler(d)} \in SUBSET Handlers
    BY <1>1
  <2>2. r \in RoundType
    BY <1>1, <2>1, RoundOn
  <2> QED BY <1>1, <2>2 DEF RoundType
<1>3. Local(d, "list", r, result[d], ran[d], known[d]) /\ handlers' = handlers
  BY <1>1, LooksAt DEF Local, PassOver, registry, locking
<1>4. r.gone \subseteq expired /\ result[d] \in Ends \ {"ok"}
  BY <1>1, <1>2, LooksAt DEF Own
<1>5. \A h \in known[d] : Due(d, h) /\ h = Handler(d) => h \in Elements(ran[d])
  BY <1>1 DEF Due
<1> HIDE DEF r
<1> QED BY <1>1, <1>2, <1>3, <1>4, <1>5, OnStep

LEMMA StopOrder ==
  ASSUME OInv, IInv, NEW d \in Dispatches, step[d] \in {"list", "handler"}, NEW w \in Ends \ {"ok"},
         Stop(d, w), UNCHANGED ran
  PROVE  OInv'
<1>1. Local(d, "closing", round[d], w, ran[d], known[d])
  BY LooksAt DEF Local, Stop, locking, Looping
<1> QED BY <1>1, StopStep

LEMMA UnresolvedOrder ==
  ASSUME OInv, IInv, NEW d \in Dispatches, Unresolved(d)
  PROVE  OInv'
<1>1. /\ step[d] = "list" /\ round[d].next <= Len(List(d)) /\ Continue(d) /\ UNCHANGED ran
      /\ \A h \in known[d] : Due(d, h) /\ h = Handler(d) => h \in Elements(ran[d])
  BY DEF Unresolved, Live, More, List, Due
<1> QED BY <1>1, ContinueStep

LEMMA HandlerEndsOrder ==
  ASSUME OInv, IInv, NEW d \in Dispatches, HandlerEnds(d)
  PROVE  OInv'
<1>1. /\ step[d] = "handler" /\ UNCHANGED ran
      /\ ((\E w \in Ends \ {"ok"} : Stop(d, w)) \/ Continue(d))
  BY DEF HandlerEnds, EndsWith, Raises, Ends
<1>2. Own(d) /\ Looped(d) /\ Handler(d) \in Elements(ran[d]) /\ round[d].next <= Len(List(d)) + 0
  BY <1>1, LooksAt DEF Own, Looping, Calling, Looped, Handler, List
<1>3. round[d].next <= Len(List(d))
  BY <1>1, <1>2, ListHolds DEF Looping
<1>4. CASE Continue(d)
  BY <1>1, <1>2, <1>3, <1>4, ContinueStep
<1>5. CASE \E w \in Ends \ {"ok"} : Stop(d, w)
  BY <1>1, <1>5, StopOrder
<1> QED BY <1>1, <1>4, <1>5

-----------------------------------------------------------------------------
(* What concerns the registry, and the calls themselves. *)
LEMMA RegisterOrder ==
  ASSUME OInv, IInv, NEW x \in Handlers, Register(x)
  PROVE  OInv'
<1> DEFINE e0 == HandlerOf[x].event  p0 == Priority(x)  s == handlers[e0][p0]
<1>1. /\ x \notin Elements(born) /\ born' = Append(born, x)
      /\ handlers' = [handlers EXCEPT ![e0][p0] = Append(@, x)]
      /\ expired' = expired /\ UNCHANGED <<event, step, round, result, ran, known>>
  BY DEF Register, locking, Priority
<1>2. OTypes /\ Registry /\ e0 \in Events /\ p0 \in Priorities
  BY HandlerTypes DEF OInv
<1>3. born \in Seq(Handlers) /\ s \in Seq(Handlers) /\ Once(born)
  BY <1>2 DEF OTypes
<1>4. /\ born' \in Seq(Handlers) /\ Elements(born') = Elements(born) \cup {x} /\ Len(born) \in Nat
      /\ DOMAIN born' = 1 .. Len(born) + 1 /\ DOMAIN born = 1 .. Len(born) /\ born'[Len(born) + 1] = x
  BY <1>1, <1>3, ElementsAppend
<1>5. Once(born')
  <2>1. \A k \in DOMAIN born : born[k] # x
    BY <1>1 DEF Elements
  <2> QED BY <1>1, <1>3, <2>1, AppendOnce
<1> DEFINE t == Append(s, x)
<1>6. /\ t \in Seq(Handlers) /\ Elements(t) = Elements(s) \cup {x} /\ Len(s) \in Nat
      /\ DOMAIN t = 1 .. Len(s) + 1 /\ DOMAIN s = 1 .. Len(s) /\ t[Len(s) + 1] = x
      /\ \A k \in 1 .. Len(s) : t[k] = s[k]
  BY <1>3, ElementsAppend
<1>7. handlers' = [handlers EXCEPT ![e0][p0] = t]
  BY <1>1
<1> HIDE DEF t, s
<1>8. \A e \in Events : \A p \in Priorities :
        handlers'[e][p] = IF e = e0 /\ p = p0 THEN t ELSE handlers[e][p]
  BY <1>2, <1>7 DEF OTypes
<1>9. OTypes'
  <2>1. handlers' \in [Events -> [Priorities -> Seq(Handlers)]]
    BY <1>2, <1>6, <1>7 DEF OTypes
  <2> QED BY <1>1, <1>2, <1>4, <1>5, <2>1 DEF OTypes, Priorities
<1>10. Grows
  BY <1>1 DEF Grows
<1> DEFINE Now(h) == CHOOSE i \in DOMAIN born' : born'[i] = h
<1>11. /\ \A h \in Elements(born) : Now(h) = RegisteredAs(h)
       /\ Now(x) = Len(born) + 1
       /\ \A h \in Elements(born) : RegisteredAs(h) \in Nat /\ RegisteredAs(h) <= Len(born)
  <2>1. \A h \in Elements(born) : Now(h) = RegisteredAs(h)
    <3>1. \A h \in Elements(born) : RegisteredAs(h)' = RegisteredAs(h)
      BY <1>2, <1>9, <1>10, PlacesStay
    <3> QED BY <3>1 DEF RegisteredAs
  <2>2. Len(born) + 1 \in DOMAIN born'
    BY <1>4
  <2>3. \A i \in DOMAIN born' : born'[i] = x <=> i = Len(born) + 1
    BY <1>4, <1>5, <2>2 DEF Once
  <2>4. Now(x) = Len(born) + 1
    BY <2>2, <2>3
  <2>5. \A h \in Elements(born) : RegisteredAs(h) \in Nat /\ RegisteredAs(h) <= Len(born)
    BY <1>2, <1>4, Placed
  <2> QED BY <2>1, <2>4, <2>5
<1>12. \A e \in Events, p \in Priorities :
          /\ \A i, j \in DOMAIN handlers'[e][p] : i < j => Now(handlers'[e][p][i]) < Now(handlers'[e][p][j])
          => Sorted(handlers[e][p])'
  BY DEF Sorted, RegisteredAs
<1> HIDE DEF Now
<1>13. Registry'
  <2> SUFFICES ASSUME NEW e \in Events, NEW p \in Priorities
               PROVE  /\ \A i, j \in DOMAIN handlers'[e][p] : i < j => Now(handlers'[e][p][i]) < Now(handlers'[e][p][j])
                      /\ \A h \in Elements(handlers'[e][p]) : h \in Elements(born') /\ HandlerOf[h].event = e /\ Priority(h) = p
                      /\ \A h \in Elements(born') \ expired' :
                           HandlerOf[h].event = e /\ Priority(h) = p => h \in Elements(handlers'[e][p])
    BY <1>12, ZenonT(60) DEF Registry, Priorities, Priority, Elements
  <2>1. /\ \A i \in DOMAIN handlers[e][p] : handlers[e][p][i] \in Elements(born)
        /\ \A i, j \in DOMAIN handlers[e][p] : i < j => Now(handlers[e][p][i]) < Now(handlers[e][p][j])
    <3>1. \A i \in DOMAIN handlers[e][p] : handlers[e][p][i] \in Elements(born)
      <4>1. \A i \in DOMAIN handlers[e][p] : handlers[e][p][i] \in Elements(handlers[e][p])
        BY DEF Elements
      <4>2. \A h \in Elements(handlers[e][p]) : h \in Elements(born)
        BY <1>2 DEF Registry
      <4> HIDE DEF Elements
      <4> QED BY <4>1, <4>2
    <3> QED BY <1>2, <1>11, <3>1 DEF Registry, Sorted
  <2>2. CASE ~(e = e0 /\ p = p0)
    <3>1. handlers'[e][p] = handlers[e][p]
      BY <1>8, <2>2
    <3> QED BY <1>1, <1>2, <1>4, <2>1, <2>2, <3>1 DEF Registry
  <2>3. CASE e = e0 /\ p = p0
    <3>1. handlers'[e][p] = t /\ handlers[e][p] = s
      BY <1>8, <2>3 DEF s
    <3>2. ASSUME NEW i \in DOMAIN t, NEW j \in DOMAIN t, i < j PROVE Now(t[i]) < Now(t[j])
      <4>1. i \in DOMAIN s /\ t[i] = s[i] /\ s[i] \in Elements(born)
        <5>1. i \in 1 .. Len(s)
          BY <1>6, <3>2
        <5> QED BY <1>6, <2>1, <3>1, <5>1
      <4>2. CASE j = Len(s) + 1
        <5>1. Now(t[i]) <= Len(born) /\ Now(t[i]) \in Nat
          BY <1>11, <4>1
        <5> QED BY <1>4, <1>6, <1>11, <4>2, <5>1
      <4>3. CASE j # Len(s) + 1
        <5>1. j \in DOMAIN s /\ t[j] = s[j]
          BY <1>6, <4>3
        <5> QED BY <2>1, <3>1, <3>2, <4>1, <5>1
      <4> QED BY <4>2, <4>3
    <3>3. \A h \in Elements(s) : h \in Elements(born) /\ HandlerOf[h].event = e /\ Priority(h) = p
      BY <1>2, <2>3, <3>1 DEF Registry
    <3>4. \A h \in Elements(born) \ expired : HandlerOf[h].event = e /\ Priority(h) = p => h \in Elements(s)
      BY <1>2, <2>3, <3>1 DEF Registry
    <3> HIDE DEF Elements
    <3> QED BY <1>1, <1>4, <1>6, <2>3, <3>1, <3>2, <3>3, <3>4
  <2> QED BY <2>2, <2>3
<1>14. ASSUME NEW c \in Dispatches PROVE Own(c)'
  <2>1. ASSUME step[c] \in Looping PROVE Extends(List(c), List(c)')
    <3>1. event[c] \in Events /\ round[c].at \in Priorities /\ List(c)' = handlers'[event[c]][round[c].at]
      BY <1>1, <2>1, ListHolds, LooksAt DEF List
    <3>2. List(c)' = IF event[c] = e0 /\ round[c].at = p0 THEN t ELSE List(c)
      BY <1>8, <3>1 DEF List
    <3>3. CASE event[c] = e0 /\ round[c].at = p0
      <4>1. List(c) = s /\ List(c)' = t
        BY <3>2, <3>3 DEF List, s
      <4> QED BY <1>6, <4>1 DEF Extends
    <3>4. CASE ~(event[c] = e0 /\ round[c].at = p0)
      BY <3>2, <3>4 DEF Extends
    <3> QED BY <3>3, <3>4
  <2>2. Apart(c)
    BY <1>1, <2>1 DEF Apart, Same
  <2> QED BY <1>1, <1>9, <1>10, <2>2, OwnKept
<1> QED BY <1>9, <1>13, <1>14 DEF OInv

LEMMA ExpireOrder ==
  ASSUME OInv, IInv, NEW x \in Handlers, Expire(x)
  PROVE  OInv'
<1>1. /\ expired' = expired \cup {x} /\ UNCHANGED <<born, handlers, event, step, round, result, ran, known>>
  BY DEF Expire, locking
<1>2. OTypes /\ Registry /\ OTypes'
  BY <1>1 DEF OInv, OTypes, Priorities
<1>3. Registry'
  BY <1>1, <1>2 DEF Registry, Sorted, RegisteredAs, Priorities, Priority
<1>4. ASSUME NEW c \in Dispatches PROVE Own(c)'
  <2>1. Apart(c)
    BY <1>1 DEF Apart, Same, Extends, List
  <2> QED BY <1>1, <1>2, <2>1, OwnKept DEF Grows
<1> QED BY <1>2, <1>3, <1>4 DEF OInv

LEMMA TriggerOrder ==
  ASSUME OInv, IInv, NEW d \in Dispatches, NEW e \in Events, NEW by \in Dispatches \cup {Nobody}, Trigger(d, e, by)
  PROVE  OInv'
<1>1. /\ step[d] = "idle" /\ event' = [event EXCEPT ![d] = e]
      /\ UNCHANGED <<born, handlers, expired, round, result, ran, known>>
      /\ by # Nobody => by \in Dispatches /\ step[by] = "handler"
  BY DEF Trigger, MayTrigger, registry
<1>2. OTypes /\ Registry /\ OTypes' /\ Registry'
  BY <1>1, RegistryUnchanged DEF OInv, OTypes, Priorities, registry
<1>3. \A c \in Dispatches : Same(step[c], step'[c])
  <2>1. PICK v \in {"locked", "queued"} :
          step' = LET now == [step EXCEPT ![d] = v] IN IF by = Nobody THEN now ELSE [now EXCEPT ![by] = "awaits"]
    BY DEF Trigger
  <2>2. step \in [Dispatches -> Steps]
    BY DEF IInv, Types
  <2>3. CASE by = Nobody
    BY <1>1, <2>1, <2>2, <2>3 DEF Same, Outside
  <2>4. CASE by # Nobody
    BY <1>1, <2>1, <2>2, <2>4 DEF Same, Outside, Calling
  <2> QED BY <2>3, <2>4
<1>4. ASSUME NEW c \in Dispatches PROVE Own(c)'
  <2>1. event'[c] = event[c] \/ step[c] = "idle"
    BY <1>1 DEF IInv, Types
  <2>2. step[c] \in Looping => Extends(List(c), List(c)')
    BY <1>1, <2>1 DEF Extends, List, Looping
  <2>3. Apart(c)
    BY <1>1, <1>3, <2>1, <2>2 DEF Apart
  <2> QED BY <1>1, <1>2, <2>3, OwnKept DEF Grows
<1> QED BY <1>2, <1>4 DEF OInv

(* A call that ends takes what it has called with it; the one that made it *)
(* learns of a failure only.                                               *)
LEMMA ReturnOrder ==
  ASSUME OInv, IInv, NEW d \in Dispatches, Close(d) \/ Withdraw(d)
  PROVE  OInv'
<1> DEFINE how == result'[d]
<1>1. /\ step[d] \in {"closing", "queued"} /\ UNCHANGED <<born, handlers, expired, event, round, ran, known>>
      /\ \A c \in Dispatches : result'[c] = result[c] \/ c = d \/ (c = caller[d] /\ result'[c] \in Ends \ {"ok"})
      /\ IF step[d] = "closing" THEN how = result[d] ELSE how = "cancelled"
      /\ DOMAIN result' = Dispatches /\ result' = [c \in Dispatches |-> result'[c]]
  BY LooksAt DEF Close, Withdraw, Returns, registry, Ends
<1>2. OTypes /\ Registry /\ Own(d) /\ result[d] \in Ends
  BY LooksAt
<1>3. OTypes' /\ Registry'
  <2>1. \A c \in Dispatches : result'[c] \in Ends
    BY <1>1, <1>2 DEF OTypes, Ends
  <2>2. result' \in [Dispatches -> Ends]
    BY <1>1, <2>1
  <2> QED BY <1>1, <1>2, <2>2, RegistryUnchanged DEF OTypes, Priorities, registry
<1>4. caller[d] # Nobody => caller[d] \in Dispatches /\ step[caller[d]] = "awaits" /\ caller[d] # d
  BY <1>1 DEF IInv, Types, Awaits, Active, Inside
<1>5. /\ step'[d] = "over"
      /\ \A c \in Dispatches \ {d} : Same(step[c], step'[c])
  <2>1. PICK first \in Dispatches \cup {Nobody} :
          /\ first # Nobody => step[first] = "queued" /\ first # d
          /\ step' = LET now == IF first = Nobody THEN step ELSE [step EXCEPT ![first] = "locked"]
                     IN  IF caller[d] = Nobody THEN [now EXCEPT ![d] = "over"]
                         ELSE [now EXCEPT ![d] = "over", ![caller[d]] = "handler"]
    <3>1. CASE Withdraw(d)
      BY <3>1 DEF Withdraw, Returns
    <3>2. CASE Close(d)
      <4>1. lock[d] \in Locks /\ step[d] = "closing"
        BY <3>2 DEF Close, IInv, Types, Refers, Active, Inside
      <4>2. Handover(lock[d]) # Nobody =>
              Handover(lock[d]) \in Dispatches /\ step[Handover(lock[d])] = "queued"
        BY <4>1 DEF Handover, IInv, Types, Waits
      <4> QED BY <3>2, <4>1, <4>2 DEF Close, Returns
    <3> QED BY <3>1, <3>2
  <2>2. step \in [Dispatches -> Steps]
    BY DEF IInv, Types
  <2>3. CASE first = Nobody
    BY <1>4, <2>1, <2>2, <2>3 DEF Same, Calling
  <2>4. CASE first # Nobody
    <3>1. first \in Dispatches /\ first # d /\ first # caller[d]
      BY <1>4, <2>1, <2>4
    <3>2. CASE caller[d] = Nobody
      BY <2>1, <2>2, <2>4, <3>1, <3>2 DEF Same, Outside
    <3>3. CASE caller[d] # Nobody
      BY <1>4, <2>1, <2>2, <2>4, <3>1, <3>3 DEF Same, Outside, Calling
    <3> QED BY <3>2, <3>3
  <2> QED BY <2>3, <2>4
<1>6. ASSUME NEW c \in Dispatches \ {d} PROVE Own(c)'
  <2>1. result'[c] = result[c] \/ (result'[c] # "ok" /\ step[c] \in Calling)
    BY <1>1, <1>4, EventDispatchAssumption DEF Calling
  <2>2. step[c] \in Looping => Extends(List(c), List(c)')
    BY <1>1 DEF Extends, List
  <2>3. Apart(c)
    BY <1>1, <1>5, <2>1, <2>2 DEF Apart
  <2> QED BY <1>1, <1>3, <2>3, OwnKept DEF Grows
<1>7. Own(d)'
  <2>1. /\ Elements(ran[d])' = Elements(ran[d]) /\ (\A h : Due(d, h)' <=> Due(d, h))
        /\ (\A g, h : Before(g, h)' <=> Before(g, h))
    BY <1>1 DEF Elements, Due, Before, RegisteredAs
  <2>2. Ordered(d)' /\ Elements(ran'[d]) \subseteq Elements(born') /\ known'[d] \subseteq Elements(born')
    BY <1>1, <1>2, <2>1 DEF Own, Ordered, Elements
  <2>3. step[d] = "queued" => known[d] = {}
    BY <1>2 DEF Own, Outside
  <2>4. Complete(d)'
    BY <1>1, <1>2, <2>1, <2>3 DEF Own, Complete
  <2> QED BY <1>5, <2>2, <2>4 DEF Own, Outside, Running, Looping, Calling
<1> QED BY <1>3, <1>6, <1>7 DEF OInv

LEMMA ProceedOrder ==
  ASSUME OInv, IInv, NEW d \in Dispatches, Proceed(d)
  PROVE  OInv'
<1>1. CASE CannotBuild(d)
  <2>1. step[d] = "list" /\ Stop(d, "error") /\ UNCHANGED ran /\ "error" \in Ends \ {"ok"}
    BY <1>1 DEF CannotBuild, Live, More, Ends
  <2> QED BY <2>1, StopOrder
<1> QED BY <1>1, StartOrder, NextRoundOrder, RoundEndsOrder, AllRoundsOrder, PassOverOrder, UnresolvedOrder,
           CallOrder, HandlerEndsOrder, ReturnOrder DEF Proceed

(* The registry, and what each dispatch has called and has still to call,  *)
(* agree in every state.                                                   *)
THEOREM OrderKept == Spec => []OInv
<1>1. IInv /\ OInv /\ [Next]_vars => OInv'
  <2> SUFFICES ASSUME IInv, OInv, [Next]_vars PROVE OInv'
    OBVIOUS
  <2>1. CASE Finished \/ UNCHANGED vars
    <3>1. UNCHANGED vars
      BY <2>1 DEF Finished
    <3>2. OTypes' /\ Registry'
      BY <3>1, RegistryUnchanged DEF vars, OInv, OTypes, registry, Priorities
    <3>3. ASSUME NEW c \in Dispatches PROVE Own(c)'
      <4>1. Apart(c)
        BY <3>1 DEF vars, Apart, Same, Extends, List
      <4> QED BY <3>1, <3>2, <4>1, OwnKept DEF Grows, vars
    <3> QED BY <3>2, <3>3 DEF OInv
  <2>2. ASSUME NEW x \in Handlers, Register(x) \/ Expire(x) PROVE OInv'
    BY <2>2, RegisterOrder, ExpireOrder
  <2>3. ASSUME NEW d \in Dispatches, Proceed(d) PROVE OInv'
    BY <2>3, ProceedOrder
  <2>4. ASSUME NEW d \in Dispatches, Withdraw(d) PROVE OInv'
    BY <2>4, ReturnOrder
  <2>5. ASSUME NEW d \in Dispatches, NEW e \in Events, NEW by \in Dispatches \cup {Nobody}, Trigger(d, e, by)
        PROVE  OInv'
    BY <2>5, TriggerOrder
  <2> QED BY <2>1, <2>2, <2>3, <2>4, <2>5 DEF Next
<1> QED BY <1>1, OInitially, LocksAgree, PTL DEF Spec

(* Every variable keeps its type, and the index of _simple_run its list.   *)
THEOREM TypeCorrect == Spec => []TypeOK
<1>1. IInv /\ OInv => TypeOK
  <2> SUFFICES ASSUME IInv, OInv PROVE TypeOK
    OBVIOUS
  <2>1. ASSUME NEW d \in Dispatches, step[d] \in Looping
        PROVE  round[d].next <= Len(List(d)) + (IF step[d] = "list" THEN 1 ELSE 0)
    BY <2>1, LooksAt DEF Own, Looped
  <2> QED BY <2>1 DEF TypeOK, IInv, Types, OInv, OTypes, List, Looping
<1> QED BY <1>1, LocksAgree, OrderKept, PTL

(* trigger_event calls handlers by ascending priority and in the order of  *)
(* their registration, each once, although handlers are registered, expire *)
(* and are cleaned away while it runs.                                     *)
THEOREM CalledInOrder == Spec => []InOrder
<1>1. OInv => InOrder
  BY DEF OInv, Own, Ordered, InOrder
<1> QED BY <1>1, OrderKept, PTL

(* No live handler that was registered when the dispatch began is skipped, *)
(* although the lists change under the loop that goes through them.        *)
THEOREM NoneLeftOut == Spec => []NobodySkipped
<1>1. OInv => NobodySkipped
  BY DEF OInv, Own, Complete, NobodySkipped
<1> QED BY <1>1, OrderKept, PTL
=============================================================================
