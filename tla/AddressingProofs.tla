-------------------------- MODULE AddressingProofs --------------------------
(***************************************************************************)
(* Theorems about Addressing: for every graph, of whatever width and       *)
(* depth, the walk that AddressCalculator.advance makes is the one in the  *)
(* order of addresses.                                                     *)
(***************************************************************************)
EXTENDS Addressing, SequenceTheorems, WellFoundedInduction, TLAPS

-----------------------------------------------------------------------------
(* Extremes of sets of numbers.                                            *)

LEMMA LeastExists ==
  ASSUME NEW S \in SUBSET Nat, S # {}
  PROVE  \E n \in S : \A m \in S : n <= m
<1> DEFINE R == {ss \in Nat \X Nat : ss[1] < ss[2]}
<1>1. IsWellFoundedOn(R, Nat)
  BY NatLessThanWellFounded DEF OpToRel
<1>2. PICK n \in S : \A m \in S : ~(<<m, n>> \in R)
  BY <1>1, WFMin, Zenon
<1>3. \A m \in S : ~(m < n)
  BY <1>2
<1> QED BY <1>3

LEMMA GreatestExists ==
  ASSUME NEW b \in Nat, NEW S \in SUBSET (0 .. b), S # {}
  PROVE  \E n \in S : \A m \in S : m <= n
<1> DEFINE T == {b - m : m \in S}
<1>1. PICK t \in T : \A u \in T : t <= u
  <2>1. T \in SUBSET Nat
    OBVIOUS
  <2>2. PICK m \in S : TRUE
    OBVIOUS
  <2>3. b - m \in T
    OBVIOUS
  <2> QED BY <2>1, <2>3, LeastExists
<1>2. PICK n \in S : t = b - n
  BY <1>1
<1>3. \A m \in S : b - m \in T
  OBVIOUS
<1>4. \A m \in S : b - n <= b - m
  BY <1>1, <1>2, <1>3
<1> QED BY <1>4

LEMMA SmallestIs ==
  ASSUME NEW S \in SUBSET Nat, S # {}
  PROVE  Smallest(S) \in S /\ \A m \in S : Smallest(S) <= m
BY LeastExists DEF Smallest

LEMMA LargestIs ==
  ASSUME NEW b \in Nat, NEW S \in SUBSET (0 .. b), S # {}
  PROVE  Largest(S) \in S /\ \A m \in S : m <= Largest(S)
BY GreatestExists DEF Largest

-----------------------------------------------------------------------------
(* Addresses, coordinate by coordinate.                                    *)

LEMMA SameSeq ==
  ASSUME NEW a \in Seq(Nat), NEW b \in Seq(Nat), Len(a) = Len(b),
         \A i \in 1 .. Len(a) : a[i] = b[i]
  PROVE  a = b
OBVIOUS

LEMMA UpIs ==
  ASSUME NEW a \in Seq(Nat), NEW n \in 0 .. Len(a)
  PROVE  /\ Up(a, n) \in Seq(Nat) /\ Len(Up(a, n)) = n
         /\ \A i \in 1 .. n : Up(a, n)[i] = a[i]
BY DEF Up

LEMMA BumpIs ==
  ASSUME NEW a \in Seq(Nat), Len(a) > 0
  PROVE  /\ Bump(a) \in Seq(Nat) /\ Len(Bump(a)) = Len(a)
         /\ Bump(a)[Len(a)] = a[Len(a)] + 1
         /\ \A i \in 1 .. Len(a) - 1 : Bump(a)[i] = a[i]
BY DEF Bump

LEMMA DownIs ==
  ASSUME NEW a \in Seq(Nat), NEW n \in Nat
  PROVE  /\ Down(a, n) \in Seq(Nat) /\ Len(Down(a, n)) = Len(a) + n
         /\ \A i \in 1 .. Len(a) : Down(a, n)[i] = a[i]
         /\ \A i \in Len(a) + 1 .. Len(a) + n : Down(a, n)[i] = 0
<1> DEFINE z == [i \in 1 .. n |-> 0]
<1>1. z \in Seq(Nat) /\ Len(z) = n
  OBVIOUS
<1>2. \A i \in 1 .. n : z[i] = 0
  OBVIOUS
<1> HIDE DEF z
<1>3. Down(a, n) = a \o z
  BY DEF Down, z
<1>4. a \o z \in Seq(Nat) /\ Len(a \o z) = Len(a) + n
  BY <1>1, ConcatProperties
<1>5. \A i \in 1 .. Len(a) : (a \o z)[i] = a[i]
  BY <1>1
<1>6. \A i \in Len(a) + 1 .. Len(a) + n : (a \o z)[i] = 0
  <2>1. \A i \in Len(a) + 1 .. Len(a) + n : (a \o z)[i] = z[i - Len(a)] /\ i - Len(a) \in 1 .. n
    BY <1>1
  <2> QED BY <2>1, <1>2
<1> QED BY <1>3, <1>4, <1>5, <1>6

LEMMA UpUp ==
  ASSUME NEW a \in Seq(Nat), NEW n \in 0 .. Len(a), NEW m \in 0 .. n
  PROVE  Up(Up(a, n), m) = Up(a, m)
<1>1. /\ Up(a, n) \in Seq(Nat) /\ Len(Up(a, n)) = n
      /\ \A i \in 1 .. n : Up(a, n)[i] = a[i]
  BY UpIs
<1>2. /\ Up(Up(a, n), m) \in Seq(Nat) /\ Len(Up(Up(a, n), m)) = m
      /\ \A i \in 1 .. m : Up(Up(a, n), m)[i] = Up(a, n)[i]
  BY <1>1, UpIs
<1>3. /\ Up(a, m) \in Seq(Nat) /\ Len(Up(a, m)) = m
      /\ \A i \in 1 .. m : Up(a, m)[i] = a[i]
  BY UpIs
<1> QED BY <1>1, <1>2, <1>3, SameSeq, SMTT(30)

LEMMA UpAll ==
  ASSUME NEW a \in Seq(Nat)
  PROVE  Up(a, Len(a)) = a
BY UpIs, SameSeq

LEMMA SamePrefix ==
  ASSUME NEW a \in Seq(Nat), NEW b \in Seq(Nat), NEW n \in Nat,
         n <= Len(a), n <= Len(b),
         \A i \in 1 .. n : a[i] = b[i]
  PROVE  Up(a, n) = Up(b, n)
<1>1. n \in 0 .. Len(a) /\ n \in 0 .. Len(b)
  OBVIOUS
<1> QED BY <1>1, UpIs, SameSeq

LEMMA BumpUp ==
  ASSUME NEW a \in Seq(Nat), NEW n \in 1 .. Len(a)
  PROVE  /\ Bump(Up(a, n)) \in Seq(Nat) /\ Len(Bump(Up(a, n))) = n
         /\ Bump(Up(a, n))[n] = a[n] + 1
         /\ \A i \in 1 .. n - 1 : Bump(Up(a, n))[i] = a[i]
         /\ Parent(Bump(Up(a, n))) = Up(a, n - 1)
<1> DEFINE u == Up(a, n)
<1>1. /\ u \in Seq(Nat) /\ Len(u) = n /\ \A i \in 1 .. n : u[i] = a[i]
  BY UpIs
<1> HIDE DEF u
<1>2. /\ Bump(u) \in Seq(Nat) /\ Len(Bump(u)) = n
      /\ Bump(u)[n] = a[n] + 1
      /\ \A i \in 1 .. n - 1 : Bump(u)[i] = a[i]
  <2>1. /\ Bump(u) \in Seq(Nat) /\ Len(Bump(u)) = Len(u)
        /\ Bump(u)[Len(u)] = u[Len(u)] + 1
        /\ \A i \in 1 .. Len(u) - 1 : Bump(u)[i] = u[i]
    <3>1. Len(u) > 0
      BY <1>1
    <3> QED BY <1>1, <3>1, BumpIs
  <2> QED BY <1>1, <2>1
<1>3. Up(Bump(u), n - 1) = Up(a, n - 1)
  BY <1>2, SamePrefix, SMTT(30)
<1> QED BY <1>2, <1>3 DEF Parent, u

-----------------------------------------------------------------------------
(* Graphs.                                                                 *)

(* Compositions have addresses below the bound, and children are counted.  *)
LEMMA GraphFacts ==
  ASSUME kids \in Graphs
  PROVE  /\ kids \in [DOMAIN kids -> Nat] /\ Graph(kids)
         /\ \A a \in DOMAIN kids : a \in Seq(Nat) /\ Len(a) < Depth
<1>1. PICK S \in SUBSET {a \in Addresses : Len(a) < Depth} : kids \in [S -> 0 .. Width]
  BY DEF Graphs
<1>2. \A a \in Addresses : a \in Seq(Nat)
  BY AddressingAssumption DEF Addresses
<1>3. DOMAIN kids = S /\ kids \in [S -> Nat]
  BY <1>1, AddressingAssumption
<1> QED BY <1>1, <1>2, <1>3 DEF Graphs

(* What contains a composition is a composition.                           *)
LEMMA Prefixes ==
  ASSUME kids \in Graphs, NEW a \in DOMAIN kids, NEW n \in 0 .. Len(a)
  PROVE  Up(a, n) \in DOMAIN kids
<1>1. a \in Seq(Nat)
  BY GraphFacts
<1> DEFINE Bad == {m \in 0 .. Len(a) : Up(a, m) \notin DOMAIN kids}
<1>2. SUFFICES ASSUME Bad # {} PROVE FALSE
  OBVIOUS
<1>3. PICK m \in Bad : \A o \in Bad : o <= m
  <2>1. Len(a) \in Nat /\ Bad \in SUBSET (0 .. Len(a))
    BY <1>1
  <2> HIDE DEF Bad
  <2> QED BY <1>2, <2>1, GreatestExists
<1>4. m < Len(a)
  BY <1>1, UpAll
<1>5. m + 1 \in 0 .. Len(a) /\ Up(a, m + 1) \in DOMAIN kids
  BY <1>1, <1>3, <1>4
<1>6. Up(a, m + 1) # <<>> /\ Len(Up(a, m + 1)) = m + 1
  BY <1>1, <1>5, UpIs
<1>7. Parent(Up(a, m + 1)) = Up(a, m)
  BY <1>1, <1>5, <1>6, UpUp DEF Parent
<1>8. Up(a, m) \in DOMAIN kids
  BY <1>5, <1>6, <1>7, GraphFacts DEF Graph
<1> QED BY <1>8

(* Each composition is a child of another.                                 *)
LEMMA ChildOf ==
  ASSUME kids \in Graphs, NEW b \in DOMAIN kids, NEW n \in 1 .. Len(b)
  PROVE  /\ b[n] \in Nat /\ Up(b, n - 1) \in DOMAIN kids
         /\ b[n] < kids[Up(b, n - 1)] /\ kids[Up(b, n - 1)] \in Nat
<1>1. b \in Seq(Nat) /\ n \in 0 .. Len(b) /\ n - 1 \in 0 .. n
  BY GraphFacts
<1>2. Up(b, n) \in DOMAIN kids /\ Up(b, n) # <<>> /\ Len(Up(b, n)) = n /\ Up(b, n)[n] = b[n]
  BY <1>1, Prefixes, UpIs
<1>3. Parent(Up(b, n)) = Up(b, n - 1)
  BY <1>1, <1>2, UpUp DEF Parent
<1>4. Up(b, n - 1) \in DOMAIN kids /\ b[n] < kids[Up(b, n - 1)]
  BY <1>2, <1>3, GraphFacts DEF Graph
<1>5. b[n] \in Nat
  BY <1>1
<1>6. kids[Up(b, n - 1)] \in Nat
  BY <1>4, GraphFacts
<1> QED BY <1>4, <1>5, <1>6

(* Without negative indices, an address means itself.                      *)
LEMMA MeansItself ==
  ASSUME kids \in Graphs, NEW a \in Seq(Nat), NEW b \in DOMAIN kids
  PROVE  Means(a, b) <=> a = b
<1>1. b \in Seq(Nat)
  BY GraphFacts
<1>2. ASSUME Means(a, b) PROVE a = b
  <2>1. ASSUME NEW i \in 1 .. Len(a) PROVE a[i] = b[i]
    <3>1. a[i] = b[i] \/ a[i] = b[i] - kids[Up(b, i - 1)]
      BY <1>2 DEF Means
    <3>2. i \in 1 .. Len(b) /\ a[i] \in Nat
      BY <1>2 DEF Means
    <3> QED BY <3>1, <3>2, ChildOf
  <2> QED BY <1>1, <1>2, <2>1, SameSeq DEF Means
<1>3. ASSUME a = b PROVE Means(a, b)
  BY <1>3 DEF Means
<1> QED BY <1>2, <1>3

LEMMA PlainIs ==
  ASSUME kids \in Graphs, NEW a \in Seq(Nat)
  PROVE  /\ IsCompose(a) <=> a \in DOMAIN kids
         /\ Filled(a) <=> a \in DOMAIN kids /\ kids[a] > 0
         /\ IsNode(a) <=> (a # <<>> => Parent(a) \in DOMAIN kids /\ a[Len(a)] < kids[Parent(a)])
<1>1. /\ IsCompose(a) <=> a \in DOMAIN kids
      /\ Filled(a) <=> a \in DOMAIN kids /\ kids[a] > 0
  BY MeansItself DEF IsCompose, Filled
<1>2. ASSUME a # <<>>
      PROVE  IsNode(a) <=> Parent(a) \in DOMAIN kids /\ a[Len(a)] < kids[Parent(a)]
  <2>1. Len(a) - 1 \in 0 .. Len(a) /\ a[Len(a)] \in Nat
    BY <1>2
  <2>2. Parent(a) \in Seq(Nat)
    BY <2>1, UpIs DEF Parent
  <2>3. \A b \in DOMAIN kids : kids[b] \in Nat
    BY GraphFacts
  <2>4. \A b \in DOMAIN kids : -kids[b] <= a[Len(a)]
    BY <2>1, <2>3
  <2> QED BY <1>2, <2>2, <2>4, MeansItself DEF IsNode
<1> QED BY <1>1, <1>2 DEF IsNode

(* A node, coordinate by coordinate.                                       *)
LEMMA NodeIs ==
  ASSUME kids \in Graphs, NEW a \in Seq(Nat)
  PROVE  IsNode(a) <=> \A n \in 1 .. Len(a) :
           Up(a, n - 1) \in DOMAIN kids /\ a[n] < kids[Up(a, n - 1)]
<1>1. CASE a = <<>>
  BY <1>1 DEF IsNode
<1>2. CASE a # <<>>
  <2>1. Len(a) \in 1 .. Len(a) /\ Parent(a) = Up(a, Len(a) - 1)
    BY <1>2 DEF Parent
  <2>2. SUFFICES ASSUME IsNode(a), NEW n \in 1 .. Len(a)
                 PROVE  Up(a, n - 1) \in DOMAIN kids /\ a[n] < kids[Up(a, n - 1)]
    BY <1>2, <2>1, PlainIs
  <2>3. Parent(a) \in DOMAIN kids /\ a[Len(a)] < kids[Parent(a)]
    BY <1>2, <2>2, PlainIs
  <2>4. Len(Parent(a)) = Len(a) - 1
    <3>1. Len(a) - 1 \in 0 .. Len(a)
      BY <2>1
    <3> QED BY <2>1, <3>1, UpIs
  <2>5. \A m \in 0 .. Len(a) - 1 : Up(a, m) \in DOMAIN kids
    <3> TAKE m \in 0 .. Len(a) - 1
    <3>1. Up(Parent(a), m) \in DOMAIN kids
      BY <2>3, <2>4, Prefixes
    <3>2. Len(a) - 1 \in 0 .. Len(a)
      BY <2>1
    <3>3. Up(Up(a, Len(a) - 1), m) = Up(a, m)
      BY <3>2, UpUp
    <3> QED BY <2>1, <3>1, <3>3
  <2>6. CASE n = Len(a)
    BY <2>1, <2>3, <2>6
  <2>7. CASE n < Len(a)
    <3>1. Up(a, n) \in DOMAIN kids /\ Up(a, n) # <<>> /\ Len(Up(a, n)) = n /\ Up(a, n)[n] = a[n]
      BY <2>5, <2>7, UpIs
    <3>2. Parent(Up(a, n)) = Up(a, n - 1)
      BY <3>1, UpUp DEF Parent
    <3> QED BY <2>5, <3>1, <3>2, GraphFacts DEF Graph
  <2> QED BY <2>6, <2>7
<1> QED BY <1>1, <1>2

(* The levels at which there is a next sibling.                            *)
LEMMA LevelsAre ==
  ASSUME kids \in Graphs, NEW a \in Seq(Nat), NEW n \in 1 .. Len(a)
  PROVE  n \in Levels(a) <=> Up(a, n - 1) \in DOMAIN kids /\ a[n] + 1 < kids[Up(a, n - 1)]
<1>1. Bump(Up(a, n)) # <<>>
  BY BumpUp
<1> QED BY <1>1, BumpUp, PlainIs DEF Levels

LEMMA LeafIs ==
  ASSUME kids \in Graphs, NEW a \in Seq(Nat), IsLeaf(a)
  PROVE  /\ a # <<>> /\ a \notin DOMAIN kids
         /\ \A n \in 1 .. Len(a) : Up(a, n - 1) \in DOMAIN kids /\ a[n] < kids[Up(a, n - 1)]
BY GraphFacts, NodeIs, PlainIs DEF IsLeaf, Graph

(* Two leaves differ in a coordinate that both have.                       *)
LEMMA LeavesDiffer ==
  ASSUME kids \in Graphs, NEW a \in Seq(Nat), IsLeaf(a), NEW b \in Seq(Nat), IsLeaf(b), a # b
  PROVE  \E n \in 1 .. Len(a) : n <= Len(b) /\ a[n] # b[n] /\ \A i \in 1 .. n - 1 : a[i] = b[i]
<1> DEFINE D == {n \in 1 .. Len(a) : n <= Len(b) /\ a[n] # b[n]}
<1>1. CASE D # {}
  <2>1. D \in SUBSET Nat
    OBVIOUS
  <2>2. PICK n \in D : \A m \in D : n <= m
    <3> HIDE DEF D
    <3> QED BY <1>1, <2>1, LeastExists
  <2>3. ASSUME NEW i \in 1 .. n - 1 PROVE a[i] = b[i]
    <3>1. i \in 1 .. Len(a) /\ i <= Len(b) /\ ~(n <= i)
      OBVIOUS
    <3>2. i \notin D
      BY <2>2, <3>1
    <3> QED BY <3>1, <3>2
  <2> QED BY <2>2, <2>3
<1>2. CASE D = {}
  <2>1. \A n \in 1 .. Len(a) : n <= Len(b) => a[n] = b[n]
    BY <1>2
  <2>2. CASE Len(a) = Len(b)
    BY <2>1, <2>2, SameSeq
  <2>3. CASE Len(a) < Len(b)
    <3>1. Up(a, Len(a)) = Up(b, Len(a))
      BY <2>1, <2>3, SamePrefix, SMTT(30)
    <3>2. Up(b, Len(a)) \in DOMAIN kids
      <4>1. Len(a) + 1 \in 1 .. Len(b)
        BY <2>3
      <4> QED BY <4>1, LeafIs
    <3> QED BY <3>1, <3>2, UpAll, LeafIs
  <2>4. CASE Len(b) < Len(a)
    <3>1. Up(b, Len(b)) = Up(a, Len(b))
      <4>1. \A n \in 1 .. Len(b) : b[n] = a[n]
        BY <2>1, <2>4
      <4>2. Len(b) \in Nat /\ Len(b) <= Len(a)
        BY <2>4
      <4> QED BY <4>1, <4>2, SamePrefix, SMTT(30)
    <3>2. Up(a, Len(b)) \in DOMAIN kids
      <4>1. Len(b) + 1 \in 1 .. Len(a)
        BY <2>4
      <4> QED BY <4>1, LeafIs
    <3> QED BY <3>1, <3>2, UpAll, LeafIs
  <2> QED BY <2>2, <2>3, <2>4
<1> QED BY <1>1, <1>2

-----------------------------------------------------------------------------
(* The way from a node to the next one.                                    *)

(* c continues b with zeros.                                               *)
Continues(b, c) ==
  /\ b \in Seq(Nat) /\ c \in Seq(Nat) /\ Len(b) <= Len(c)
  /\ \A i \in 1 .. Len(b) : c[i] = b[i]
  /\ \A i \in Len(b) + 1 .. Len(c) : c[i] = 0

LEMMA EnterIs ==
  ASSUME kids \in Graphs, NEW b \in Seq(Nat), b # <<>>, IsNode(b)
  PROVE  Continues(b, Enter(b)) /\ IsNode(Enter(b)) /\ Enter(b) # <<>>
<1>1. CASE ~Filled(b)
  BY <1>1 DEF Enter, Continues
<1>2. CASE Filled(b)
  <2> DEFINE c == Append(b, 0)
  <2>1. Enter(b) = c
    BY <1>2 DEF Enter
  <2>2. /\ c \in Seq(Nat) /\ c # <<>> /\ Len(c) = Len(b) + 1
        /\ \A i \in 1 .. Len(b) : c[i] = b[i]
        /\ c[Len(b) + 1] = 0
    BY AppendProperties
  <2> HIDE DEF c
  <2>3. Continues(b, c)
    BY <2>2 DEF Continues
  <2>4. Parent(c) = b
    <3>1. Len(b) \in Nat /\ Len(b) <= Len(c)
      BY <2>2
    <3>2. Up(c, Len(b)) = Up(b, Len(b))
      BY <2>2, <3>1, SamePrefix, SMTT(30)
    <3> QED BY <2>2, <3>2, UpAll DEF Parent
  <2>5. IsNode(c)
    BY <1>2, <2>2, <2>4, PlainIs
  <2> QED BY <2>1, <2>2, <2>3, <2>5
<1> QED BY <1>1, <1>2

LEMMA DescendedIs ==
  ASSUME kids \in Graphs, NEW b \in Seq(Nat)
  PROVE  /\ Continues(b, Descended(b)) /\ ~Filled(Descended(b))
         /\ b # <<>> => Descended(b) # <<>>
         /\ IsNode(b) => IsNode(Descended(b))
<1> DEFINE N == {n \in 0 .. Depth : ~Filled(Down(b, n))}
           n == Smallest(N)
           c == Down(b, n)
<1>1. Descended(b) = c
  BY DEF Descended
<1>2. Depth \in N
  <2>1. Depth \in Nat /\ Len(Down(b, Depth)) >= Depth
    BY AddressingAssumption, DownIs
  <2>2. Down(b, Depth) \in Seq(Nat) /\ Down(b, Depth) \notin DOMAIN kids
    BY <2>1, DownIs, GraphFacts
  <2> QED BY <2>1, <2>2, PlainIs
<1>3. n \in N /\ \A m \in N : n <= m
  <2>1. N \in SUBSET Nat
    BY AddressingAssumption
  <2> HIDE DEF N
  <2> QED BY <1>2, <2>1, SmallestIs
<1>4. n \in Nat /\ n <= Depth /\ ~Filled(c)
  BY <1>3, AddressingAssumption
<1>5. ASSUME NEW m \in Nat, m < n PROVE Filled(Down(b, m))
  <2>1. m \in 0 .. Depth
    BY <1>4, <1>5, AddressingAssumption
  <2>2. m \notin N
    BY <1>3, <1>4, <1>5
  <2> QED BY <2>1, <2>2
<1> HIDE DEF N, n
<1>6. /\ c \in Seq(Nat) /\ Len(c) = Len(b) + n
      /\ \A i \in 1 .. Len(b) : c[i] = b[i]
      /\ \A i \in Len(b) + 1 .. Len(b) + n : c[i] = 0
  BY <1>4, DownIs
<1> HIDE DEF c
<1>7. Continues(b, c)
  BY <1>4, <1>6 DEF Continues
<1>8. b # <<>> => c # <<>>
  BY <1>4, <1>6
<1>9. ASSUME IsNode(b) PROVE IsNode(c)
  <2>1. SUFFICES ASSUME NEW i \in 1 .. Len(c)
                 PROVE  Up(c, i - 1) \in DOMAIN kids /\ c[i] < kids[Up(c, i - 1)]
    BY <1>6, NodeIs
  <2>2. CASE i <= Len(b)
    <3>0. /\ i - 1 \in Nat /\ i - 1 <= Len(c) /\ i - 1 <= Len(b)
          /\ \A j \in 1 .. i - 1 : c[j] = b[j]
      BY <1>4, <1>6, <2>2
    <3>1. Up(c, i - 1) = Up(b, i - 1)
      BY <1>6, <3>0, SamePrefix
    <3>2. i \in 1 .. Len(b) /\ c[i] = b[i]
      BY <1>6, <2>2
    <3> QED BY <1>9, <3>1, <3>2, NodeIs
  <2>3. CASE i > Len(b)
    <3> DEFINE m == i - 1 - Len(b)
    <3>1. m \in Nat /\ m < n /\ c[i] = 0
      BY <1>4, <1>6, <2>3
    <3>2. /\ Down(b, m) \in Seq(Nat) /\ Len(Down(b, m)) = i - 1
          /\ \A j \in 1 .. Len(b) : Down(b, m)[j] = b[j]
          /\ \A j \in Len(b) + 1 .. i - 1 : Down(b, m)[j] = 0
      <4>1. Len(b) + m = i - 1
        BY <1>6
      <4> HIDE DEF m
      <4> QED BY <3>1, <4>1, DownIs
    <3> HIDE DEF m
    <3>3. ASSUME NEW j \in 1 .. i - 1 PROVE c[j] = Down(b, m)[j]
      <4>1. CASE j <= Len(b)
        <5>1. j \in 1 .. Len(b)
          BY <4>1
        <5> QED BY <1>6, <3>2, <5>1
      <4>2. CASE j > Len(b)
        <5>1. j \in Len(b) + 1 .. i - 1 /\ j \in Len(b) + 1 .. Len(b) + n
          BY <1>4, <1>6, <4>2
        <5> QED BY <1>6, <3>2, <5>1
      <4> QED BY <4>1, <4>2
    <3>4. Up(c, i - 1) = Up(Down(b, m), i - 1)
      <4>1. i - 1 \in Nat /\ i - 1 <= Len(c) /\ i - 1 <= Len(Down(b, m))
        BY <1>6, <3>2
      <4> QED BY <1>6, <3>2, <3>3, <4>1, SamePrefix
    <3>5. Up(c, i - 1) = Down(b, m)
      BY <3>2, <3>4, UpAll
    <3> QED BY <1>5, <3>1, <3>2, <3>5, PlainIs
  <2> QED BY <1>4, <1>6, <2>2, <2>3
<1> QED BY <1>1, <1>4, <1>7, <1>8, <1>9

LEMMA ContinuesTwice ==
  ASSUME NEW a, NEW b, NEW c, Continues(a, b), Continues(b, c)
  PROVE  Continues(a, c)
<1>1. \A i \in 1 .. Len(a) : i \in 1 .. Len(b) /\ c[i] = a[i]
  BY SMTT(30) DEF Continues
<1>2. ASSUME NEW i \in Len(a) + 1 .. Len(c) PROVE c[i] = 0
  <2>1. CASE i <= Len(b)
    <3>1. i \in 1 .. Len(b) /\ i \in Len(a) + 1 .. Len(b)
      BY <2>1 DEF Continues
    <3> QED BY <3>1 DEF Continues
  <2>2. CASE i > Len(b)
    <3>1. i \in Len(b) + 1 .. Len(c)
      BY <2>2 DEF Continues
    <3> QED BY <3>1 DEF Continues
  <2> QED BY <2>1, <2>2 DEF Continues
<1> QED BY <1>1, <1>2 DEF Continues

LEMMA AdvanceIs ==
  ASSUME kids \in Graphs, NEW a \in Seq(Nat), IsLeaf(a)
  PROVE  \/ Levels(a) = {} /\ Advance(a) = <<>>
         \/ \E n \in Levels(a) :
              /\ n \in 1 .. Len(a) /\ \A m \in Levels(a) : m <= n
              /\ Advance(a) # <<>> /\ IsNode(Advance(a))
              /\ Continues(Bump(Up(a, n)), Advance(a))
<1>1. ~Filled(a)
  BY LeafIs, PlainIs
<1>2. CASE Levels(a) = {}
  BY <1>1, <1>2 DEF Advance
<1>3. CASE Levels(a) # {}
  <2> DEFINE n == Largest(Levels(a))
             b == Bump(Up(a, n))
  <2>1. Levels(a) \in SUBSET (0 .. Len(a)) /\ Levels(a) \in SUBSET (1 .. Len(a))
    BY DEF Levels
  <2>2. Len(a) \in Nat
    OBVIOUS
  <2>3. n \in Levels(a) /\ \A m \in Levels(a) : m <= n
    BY <1>3, <2>1, <2>2, LargestIs
  <2>4. n \in 1 .. Len(a)
    BY <2>1, <2>3
  <2>5. IsNode(b)
    BY <2>3 DEF Levels
  <2>6. Advance(a) = Enter(b)
    BY <1>1, <1>3 DEF Advance
  <2> HIDE DEF n
  <2>7. b \in Seq(Nat) /\ Len(b) = n
    BY <2>4, BumpUp
  <2>8. b # <<>>
    BY <2>4, <2>7
  <2> HIDE DEF b
  <2>9. Continues(b, Enter(b)) /\ IsNode(Enter(b)) /\ Enter(b) # <<>>
    BY <2>5, <2>7, <2>8, EnterIs
  <2> QED BY <2>3, <2>4, <2>6, <2>9 DEF b
<1> QED BY <1>2, <1>3

(* c is the node that the walk comes to after the leaf a.                  *)
Follows(a, c) ==
  \E n \in Levels(a) :
    /\ n \in 1 .. Len(a) /\ \A m \in Levels(a) : m <= n
    /\ Continues(Bump(Up(a, n)), c)

LEMMA FetchFollows ==
  ASSUME kids \in Graphs, NEW a \in Seq(Nat), IsLeaf(a), Advance(a) # <<>>
  PROVE  LET c == Descended(Entered(Advance(a)))
         IN  Follows(a, c) /\ c \in Seq(Nat) /\ c # <<>> /\ IsNode(c) /\ ~Filled(c)
<1>1. PICK n \in Levels(a) :
        /\ n \in 1 .. Len(a) /\ \A m \in Levels(a) : m <= n
        /\ IsNode(Advance(a)) /\ Continues(Bump(Up(a, n)), Advance(a))
  BY AdvanceIs
<1>2. Entered(Advance(a)) = Advance(a) /\ Advance(a) \in Seq(Nat)
  BY <1>1 DEF Entered, Continues
<1> DEFINE c == Descended(Advance(a))
<1>3. /\ Continues(Advance(a), c) /\ ~Filled(c) /\ c # <<>> /\ IsNode(c)
  BY <1>1, <1>2, DescendedIs
<1> HIDE DEF c
<1>4. Continues(Bump(Up(a, n)), c)
  BY <1>1, <1>3, ContinuesTwice
<1>5. c \in Seq(Nat)
  BY <1>3 DEF Continues
<1> QED BY <1>1, <1>2, <1>3, <1>4, <1>5 DEF Follows, c

-----------------------------------------------------------------------------
(* The order of addresses.                                                 *)

(* A leaf that parts from a at a greater coordinate is below a sibling.    *)
LEMMA LaterLevel ==
  ASSUME kids \in Graphs, NEW a \in Seq(Nat), IsLeaf(a), NEW l \in Seq(Nat), IsLeaf(l),
         NEW n \in 1 .. Len(a), n <= Len(l), a[n] < l[n], \A i \in 1 .. n - 1 : a[i] = l[i]
  PROVE  n \in Levels(a)
<1>1. Up(a, n - 1) = Up(l, n - 1)
  <2>1. n - 1 \in Nat /\ n - 1 <= Len(a) /\ n - 1 <= Len(l)
    OBVIOUS
  <2> QED BY <2>1, SamePrefix
<1>2. n \in 1 .. Len(l)
  OBVIOUS
<1>3. Up(a, n - 1) \in DOMAIN kids /\ l[n] < kids[Up(a, n - 1)]
  BY <1>1, <1>2, LeafIs
<1>4. a[n] \in Nat /\ l[n] \in Nat /\ kids[Up(a, n - 1)] \in Nat
  BY <1>2, <1>3, GraphFacts, SMTT(30)
<1> QED BY <1>3, <1>4, LevelsAre

(* A leaf that is exhausted at all levels is the last one.                 *)
LEMMA LastLeaf ==
  ASSUME kids \in Graphs, NEW a \in Seq(Nat), IsLeaf(a), Levels(a) = {},
         NEW l \in Seq(Nat), IsLeaf(l), l # a
  PROVE  Before(l, a)
<1>1. PICK n \in 1 .. Len(a) :
        n <= Len(l) /\ a[n] # l[n] /\ \A i \in 1 .. n - 1 : a[i] = l[i]
  BY LeavesDiffer
<1>2. n \in DOMAIN l \cap DOMAIN a /\ a[n] \in Nat /\ l[n] \in Nat
  BY <1>1
<1>3. ~(a[n] < l[n])
  BY <1>1, LaterLevel
<1>4. l[n] < a[n]
  BY <1>1, <1>2, <1>3
<1>5. \A i \in 1 .. n - 1 : l[i] = a[i]
  BY <1>1
<1> QED BY <1>2, <1>4, <1>5 DEF Before

(* The walk comes to the next node.                                        *)
LEMMA FollowsInOrder ==
  ASSUME kids \in Graphs, NEW a \in Seq(Nat), IsLeaf(a), NEW c, Follows(a, c)
  PROVE  Before(a, c) /\ NoneBetween(a, c)
<1>1. PICK n \in 1 .. Len(a) :
        (\A m \in Levels(a) : m <= n) /\ Continues(Bump(Up(a, n)), c)
  BY DEF Follows
<1>2. /\ c \in Seq(Nat) /\ n <= Len(c) /\ c[n] = a[n] + 1
      /\ \A i \in 1 .. n - 1 : c[i] = a[i]
      /\ \A i \in n + 1 .. Len(c) : c[i] = 0
  <2> DEFINE b == Bump(Up(a, n))
  <2>1. /\ Len(b) = n /\ b[n] = a[n] + 1 /\ \A i \in 1 .. n - 1 : b[i] = a[i]
    BY BumpUp
  <2>2. Continues(b, c)
    BY <1>1
  <2> HIDE DEF b
  <2>3. n \in 1 .. Len(b) /\ \A i \in 1 .. n - 1 : i \in 1 .. Len(b)
    BY <2>1
  <2> QED BY <2>1, <2>2, <2>3 DEF Continues
<1>3. Before(a, c)
  <2>1. n \in DOMAIN a \cap DOMAIN c /\ a[n] < c[n] /\ \A i \in 1 .. n - 1 : a[i] = c[i]
    BY <1>2
  <2> QED BY <2>1 DEF Before
<1>4. ASSUME NEW l \in Leaves, Before(a, l), Before(l, c) PROVE FALSE
  <2>1. l \in Seq(Nat) /\ IsLeaf(l)
    BY <1>4, AddressingAssumption DEF Leaves, Addresses
  <2>2. PICK i \in DOMAIN a \cap DOMAIN l : a[i] < l[i] /\ \A o \in 1 .. i - 1 : a[o] = l[o]
    BY <1>4 DEF Before
  <2>3. PICK j \in DOMAIN l \cap DOMAIN c : l[j] < c[j] /\ \A o \in 1 .. j - 1 : l[o] = c[o]
    BY <1>4 DEF Before
  <2>4. i \in 1 .. Len(a) /\ i <= Len(l) /\ j \in 1 .. Len(c) /\ j \in 1 .. Len(l)
    BY <1>2, <2>1, <2>2, <2>3, SMTT(30)
  <2>5. i <= n
    BY <1>1, <2>1, <2>2, <2>4, LaterLevel
  <2>6. a[i] \in Nat /\ l[i] \in Nat /\ l[j] \in Nat /\ c[j] \in Nat /\ a[n] \in Nat
    <3>1. i \in 1 .. Len(l) /\ c \in Seq(Nat)
      BY <1>2, <2>4
    <3>2. a[i] \in Nat /\ a[n] \in Nat
      BY <2>4
    <3>3. l[i] \in Nat /\ l[j] \in Nat
      BY <2>1, <2>4, <3>1, SMTT(30)
    <3>4. c[j] \in Nat
      BY <2>4, <3>1
    <3> QED BY <3>2, <3>3, <3>4
  <2>7. j <= n
    <3>1. SUFFICES ASSUME j > n PROVE FALSE
      BY <2>4
    <3>2. j \in n + 1 .. Len(c)
      BY <2>4, <3>1
    <3> QED BY <1>2, <2>3, <2>6, <3>2
  <2>8. CASE j < i
    <3>1. j \in 1 .. i - 1 /\ j \in 1 .. n - 1
      BY <2>4, <2>5, <2>8
    <3>2. l[j] = a[j] /\ c[j] = a[j]
      BY <1>2, <2>2, <3>1
    <3> QED BY <2>3, <2>6, <3>2
  <2>9. CASE j = i
    <3>1. CASE i < n
      <4>1. i \in 1 .. n - 1
        BY <2>4, <3>1
      <4>2. c[i] = a[i]
        BY <1>2, <4>1
      <4> QED BY <2>2, <2>3, <2>6, <2>9, <4>2
    <3>2. CASE i = n
      BY <1>2, <2>2, <2>3, <2>6, <2>9, <3>2
    <3> QED BY <2>4, <2>5, <3>1, <3>2
  <2>10. CASE i < j
    <3>1. i \in 1 .. j - 1 /\ i \in 1 .. n - 1
      BY <2>4, <2>7, <2>10
    <3>2. l[i] = c[i] /\ c[i] = a[i]
      BY <1>2, <2>3, <3>1
    <3> QED BY <2>2, <2>6, <3>2
  <2> QED BY <2>4, <2>8, <2>9, <2>10
<1> QED BY <1>3, <1>4 DEF NoneBetween

-----------------------------------------------------------------------------
(* Arithmetic.                                                             *)

LEMMA OffsetFarIs ==
  ASSUME NEW a \in Seq(Int), NEW v \in Seq(Int)
  PROVE  LET n   == IF Len(a) < Len(v) THEN Len(v) ELSE Len(a)
             sum == [i \in 1 .. n |-> Coordinate(a, i) + Coordinate(v, i)]
         IN  \E m \in 0 .. n :
               /\ OffsetFar(a, v) = SubSeq(sum, 1, m) /\ OffsetFar(a, v) \in Seq(Nat)
               /\ \A i \in 1 .. m : sum[i] >= 0
               /\ \A o \in 0 .. n : (\A i \in 1 .. o : sum[i] >= 0) => o <= m
<1> DEFINE n   == IF Len(a) < Len(v) THEN Len(v) ELSE Len(a)
           sum == [i \in 1 .. n |-> Coordinate(a, i) + Coordinate(v, i)]
           M   == {m \in 0 .. n : \A i \in 1 .. m : sum[i] >= 0}
           m   == Largest(M)
<1>1. OffsetFar(a, v) = SubSeq(sum, 1, m)
  BY DEF OffsetFar
<1>2. \A i \in 1 .. n : sum[i] \in Int
  BY DEF Coordinate
<1>3. n \in Nat
  OBVIOUS
<1> HIDE DEF n, sum
<1>4. m \in M /\ \A o \in M : o <= m
  <2>1. M \in SUBSET (0 .. n) /\ 0 \in M
    BY <1>3
  <2> HIDE DEF M
  <2> QED BY <1>3, <2>1, LargestIs
<1>5. m \in 0 .. n /\ \A i \in 1 .. m : sum[i] >= 0
  BY <1>4
<1>6. \A o \in 0 .. n : (\A i \in 1 .. o : sum[i] >= 0) => o <= m
  BY <1>4
<1> HIDE DEF M, m
<1>7. SubSeq(sum, 1, m) \in Seq(Nat)
  <2>1. \A i \in 1 .. m : sum[i] \in Nat
    BY <1>2, <1>3, <1>5
  <2> QED BY <1>3, <1>5, <2>1, SubSeqProperties
<1> QED BY <1>1, <1>5, <1>6, <1>7 DEF n, sum

LEMMA OffsetTopIs ==
  ASSUME NEW a \in Seq(Int), a # <<>>, NEW k \in Int
  PROVE  OffsetTop(a, k) = IF a[1] + k < 0 THEN <<>> ELSE <<a[1] + k>>
<1> DEFINE v   == <<k, -(Coordinate(a, 2) + 1)>>
           n   == IF Len(a) < Len(v) THEN Len(v) ELSE Len(a)
           sum == [i \in 1 .. n |-> Coordinate(a, i) + Coordinate(v, i)]
<1>1. Coordinate(a, 1) = a[1] /\ a[1] \in Int /\ Coordinate(a, 2) \in Int
  BY DEF Coordinate
<1>2. /\ v \in Seq(Int) /\ Len(v) = 2
      /\ Coordinate(v, 1) = k /\ Coordinate(v, 2) = -(Coordinate(a, 2) + 1)
  BY <1>1 DEF Coordinate
<1>3. OffsetTop(a, k) = OffsetFar(a, v)
  BY DEF OffsetTop
<1> HIDE DEF v
<1>4. PICK m \in 0 .. n :
        /\ OffsetFar(a, v) = SubSeq(sum, 1, m)
        /\ \A i \in 1 .. m : sum[i] >= 0
        /\ \A o \in 0 .. n : (\A i \in 1 .. o : sum[i] >= 0) => o <= m
  BY <1>2, OffsetFarIs
<1>5. n \in Nat /\ n >= 2 /\ 1 \in 1 .. n /\ 2 \in 1 .. n
  BY <1>2
<1>6. sum[1] = a[1] + k /\ sum[2] = -1
  BY <1>1, <1>2, <1>5
<1> HIDE DEF n, sum
<1>7. m < 2
  BY <1>4, <1>5, <1>6
<1>8. CASE a[1] + k < 0
  <2>1. m = 0
    BY <1>1, <1>4, <1>5, <1>6, <1>7, <1>8
  <2> QED BY <1>3, <1>4, <1>8, <2>1, SubSeqEmpty
<1>9. CASE ~(a[1] + k < 0)
  <2>1. m = 1
    <3>1. 1 \in 0 .. n /\ \A i \in 1 .. 1 : sum[i] >= 0
      BY <1>1, <1>5, <1>6, <1>9
    <3>2. 1 <= m
      BY <1>4, <3>1
    <3> QED BY <1>5, <1>7, <3>2
  <2>2. SubSeq(sum, 1, 1) = <<sum[1]>>
    <3> DEFINE one == SubSeq(sum, 1, 1)
    <3>1. sum[1] \in Nat
      BY <1>1, <1>6, <1>9
    <3>2. one \in Seq(Nat) /\ Len(one) = 1 /\ one[1] = sum[1]
      BY <3>1, SubSeqProperties
    <3> HIDE DEF one
    <3>3. <<sum[1]>> \in Seq(Nat) /\ Len(<<sum[1]>>) = 1 /\ <<sum[1]>>[1] = sum[1]
      BY <3>1
    <3>4. one = <<sum[1]>>
      BY <3>2, <3>3, SameSeq
    <3> QED BY <3>4 DEF one
  <2> QED BY <1>3, <1>4, <1>6, <1>9, <2>1, <2>2
<1> QED BY <1>8, <1>9

-----------------------------------------------------------------------------
(* The walk.                                                               *)

(* The inductive invariant: what last, pointer and phase have to do with   *)
(* one another.                                                            *)
Types ==
  /\ kids \in Graphs
  /\ pointer \in Seq(Int) /\ last \in Seq(Int)
  /\ phase \in {"fetch", "ran", "over", "failed"} /\ jumps \in 0 .. MaxJumps

WalkInv ==
  /\ phase = "ran" => pointer # <<>> /\ IsLeaf(pointer)
  /\ Advanced => IsLeaf(last)
  /\ phase = "fetch" /\ Advanced => pointer = Advance(last) /\ pointer # <<>>
  /\ phase = "failed" /\ Advanced =>
       Follows(last, pointer) /\ IsNode(pointer) /\ ~Filled(pointer) /\ ~IsLeaf(pointer)
  /\ phase = "over" /\ Advanced => Levels(last) = {}

LEMMA InitInv == Init => Types /\ WalkInv
<1> SUFFICES ASSUME Init PROVE Types /\ WalkInv
  OBVIOUS
<1> QED BY AddressingAssumption DEF Init, Types, WalkInv, Advanced

(* Pointers stay sequences of numbers, negative ones included.             *)
LEMMA UpType ==
  ASSUME NEW a \in Seq(Int), NEW n \in 1 .. Len(a)
  PROVE  Up(a, n) \in Seq(Int) /\ Len(Up(a, n)) = n /\ Up(a, n)[n] \in Int
BY DEF Up

LEMMA AdvanceType ==
  ASSUME NEW a \in Seq(Int)
  PROVE  Advance(a) \in Seq(Int)
<1>1. Append(a, 0) \in Seq(Int) /\ <<>> \in Seq(Int)
  OBVIOUS
<1>2. ASSUME Levels(a) # {} PROVE Enter(Bump(Up(a, Largest(Levels(a))))) \in Seq(Int)
  <2> DEFINE n == Largest(Levels(a))
             u == Up(a, n)
  <2>1. Levels(a) \in SUBSET (0 .. Len(a)) /\ Levels(a) \in SUBSET (1 .. Len(a)) /\ Len(a) \in Nat
    BY DEF Levels
  <2>2. n \in 1 .. Len(a)
    BY <1>2, <2>1, LargestIs
  <2> HIDE DEF n
  <2>3. u \in Seq(Int) /\ Len(u) = n /\ u[n] \in Int
    BY <2>2, UpType
  <2> HIDE DEF u
  <2>4. Bump(u) \in Seq(Int)
    BY <2>2, <2>3 DEF Bump
  <2>5. Enter(Bump(u)) \in Seq(Int)
    BY <2>4 DEF Enter
  <2> QED BY <2>5 DEF u, n
<1> QED BY <1>1, <1>2 DEF Advance

LEMMA DescendedType ==
  ASSUME kids \in Graphs, NEW a \in Seq(Int), a # <<>>
  PROVE  Descended(a) \in Seq(Int) /\ Descended(a) # <<>>
<1>1. ASSUME NEW n \in Nat
      PROVE  Down(a, n) \in Seq(Int) /\ Len(Down(a, n)) = Len(a) + n
  <2> DEFINE z == [i \in 1 .. n |-> 0]
  <2>1. z \in Seq(Int) /\ Len(z) = n
    OBVIOUS
  <2> HIDE DEF z
  <2>2. a \o z \in Seq(Int) /\ Len(a \o z) = Len(a) + n
    BY <2>1, ConcatProperties
  <2> QED BY <2>2 DEF Down, z
<1> DEFINE N == {n \in 0 .. Depth : ~Filled(Down(a, n))}
<1>2. Depth \in N
  <2>1. Depth \in Nat /\ Len(Down(a, Depth)) >= Depth
    BY <1>1, AddressingAssumption
  <2>2. \A b \in DOMAIN kids : Len(b) < Depth /\ Len(b) \in Nat
    BY GraphFacts
  <2>3. ~Filled(Down(a, Depth))
    BY <2>1, <2>2 DEF Filled, Means
  <2> QED BY <2>1, <2>3
<1>3. N \in SUBSET Nat
  BY AddressingAssumption
<1> HIDE DEF N
<1>4. Smallest(N) \in Nat
  BY <1>2, <1>3, SmallestIs
<1>5. Down(a, Smallest(N)) \in Seq(Int) /\ Len(Down(a, Smallest(N))) = Len(a) + Smallest(N)
  BY <1>1, <1>4
<1>6. Len(a) > 0
  OBVIOUS
<1>7. Down(a, Smallest(N)) # <<>>
  BY <1>4, <1>5, <1>6
<1> QED BY <1>5, <1>7 DEF Descended, N

LEMMA FetchType ==
  ASSUME kids \in Graphs, NEW a \in Seq(Int)
  PROVE  Descended(Entered(a)) \in Seq(Int) /\ Descended(Entered(a)) # <<>>
<1>1. Entered(a) \in Seq(Int) /\ Entered(a) # <<>>
  BY DEF Entered
<1> QED BY <1>1, DescendedType

LEMMA JumpType ==
  ASSUME Types, WalkInv, Jump
  PROVE  pointer' \in Seq(Int)
<1>1. /\ pointer \in Seq(Int) /\ pointer # <<>>
      /\ Len(pointer) \in 1 .. Len(pointer)
  BY DEF Types, WalkInv, Jump
<1>2. ASSUME NEW a \in Pointers, JumpTo(a) \/ JumpFarPtr(a) PROVE pointer' \in Seq(Int)
  BY <1>2, AddressingAssumption DEF Pointers, JumpTo, JumpFarPtr
<1>3. ASSUME NEW i \in -Width .. Width, JumpNear(i) \/ JumpToTop(i) PROVE pointer' \in Seq(Int)
  <2>1. i \in Int
    BY AddressingAssumption
  <2>2. CASE JumpNear(i)
    BY <1>1, <2>1, <2>2 DEF JumpNear
  <2>3. CASE JumpToTop(i)
    BY <2>1, <2>3 DEF JumpToTop
  <2> QED BY <1>3, <2>2, <2>3
<1>4. ASSUME NEW k \in Offsets, JumpOffset(k) \/ JumpOffsetTop(k) PROVE pointer' \in Seq(Int)
  <2>1. k \in Int /\ pointer[Len(pointer)] + k \in Int /\ pointer[1] \in Int
    BY <1>1, AddressingAssumption DEF Offsets
  <2>2. CASE JumpOffset(k)
    BY <1>1, <2>1, <2>2 DEF JumpOffset
  <2>3. CASE JumpOffsetTop(k)
    <3>1. OffsetTop(pointer, k) = IF pointer[1] + k < 0 THEN <<>> ELSE <<pointer[1] + k>>
      BY <1>1, <2>1, OffsetTopIs
    <3> QED BY <2>1, <2>3, <3>1 DEF JumpOffsetTop
  <2> QED BY <1>4, <2>2, <2>3
<1>5. ASSUME NEW n \in 1 .. 2, NEW v \in [1 .. n -> Offsets], JumpOffsetFar(v)
      PROVE  pointer' \in Seq(Int)
  <2>1. v \in Seq(Int)
    <3>1. n \in Nat
      OBVIOUS
    <3>2. Offsets \in SUBSET Int
      BY AddressingAssumption DEF Offsets
    <3>3. v \in [1 .. n -> Int]
      BY <3>2, Zenon
    <3> QED BY <3>1, <3>3
  <2>2. OffsetFar(pointer, v) \in Seq(Nat)
    BY <1>1, <2>1, OffsetFarIs
  <2> QED BY <1>5, <2>2 DEF JumpOffsetFar
<1> QED BY <1>2, <1>3, <1>4, <1>5 DEF Jump

(* What depends on the graph and the last leaf only is kept with them.     *)
LEMMA Kept ==
  ASSUME kids' = kids, last' = last
  PROVE  /\ IsLeaf(last)' = IsLeaf(last) /\ Levels(last)' = Levels(last)
         /\ Advanced' = Advanced
BY DEF IsLeaf, IsNode, IsCompose, Means, Levels, Advanced

LEMMA FetchInv ==
  ASSUME Types, WalkInv, Fetch
  PROVE  Types' /\ WalkInv'
<1>1. kids' = kids /\ last' = last /\ phase = "fetch"
  BY DEF Fetch
<1>2. Types' /\ pointer' # <<>>
  BY FetchType DEF Types, Fetch
<1>3. IsLeaf(pointer') <=> IsLeaf(pointer)'
  BY <1>1 DEF IsLeaf, IsNode, IsCompose, Means
<1>4. ASSUME Advanced
      PROVE  Follows(last, pointer') /\ IsNode(pointer') /\ ~Filled(pointer')
  BY <1>1, <1>4, FetchFollows DEF Types, WalkInv, Fetch, Advanced
<1>5. IsNode(pointer') <=> IsNode(pointer)'
  BY <1>1 DEF IsNode, Means
<1>6. Filled(pointer') <=> Filled(pointer)'
  BY <1>1 DEF Filled, Means
<1>7. Follows(last, pointer') <=> Follows(last, pointer)'
  BY <1>1, Kept DEF Follows
<1>8. phase' \in {"ran", "failed"} /\ (phase' = "ran" <=> IsLeaf(pointer'))
  BY DEF Fetch
<1> QED BY <1>1, <1>2, <1>3, <1>4, <1>5, <1>6, <1>7, <1>8, Kept DEF WalkInv

LEMMA ReturnInv ==
  ASSUME Types, WalkInv, Return
  PROVE  Types' /\ WalkInv'
<1>1. /\ kids' = kids /\ last' = pointer /\ pointer' = Advance(pointer)
      /\ IsLeaf(pointer) /\ pointer \in Seq(Int) /\ kids \in Graphs
  BY DEF Types, WalkInv, Return
<1>2. Types'
  BY <1>1, AdvanceType DEF Types, Return
<1>3. IsLeaf(last)' <=> IsLeaf(pointer)
  BY <1>1 DEF IsLeaf, IsNode, IsCompose, Means
<1>4. Levels(last)' = Levels(pointer)
  BY <1>1 DEF Levels, IsNode, Means
<1>5. Advance(last)' = Advance(pointer)
  BY <1>1, <1>4 DEF Advance, Enter, Filled, Means
<1>6. Advanced' /\ Advance(pointer) = <<>> => Levels(pointer) = {}
  BY <1>1, AdvanceIs DEF Advanced
<1>7. phase' = IF pointer' = <<>> THEN "over" ELSE "fetch"
  BY DEF Return
<1> QED BY <1>1, <1>2, <1>3, <1>4, <1>5, <1>6, <1>7 DEF WalkInv

LEMMA StepInv == Types /\ WalkInv /\ [Next]_vars => Types' /\ WalkInv'
<1> SUFFICES ASSUME Types, WalkInv, [Next]_vars PROVE Types' /\ WalkInv'
  OBVIOUS
<1>1. CASE Fetch
  BY <1>1, FetchInv
<1>2. CASE Return
  BY <1>2, ReturnInv
<1>3. CASE Rerun
  BY <1>3 DEF Rerun, Types, WalkInv, Advanced
<1>4. CASE Jump
  <2>1. kids' = kids /\ last' = <<>> /\ phase' = "fetch" /\ jumps' = jumps + 1 /\ jumps < MaxJumps
    BY <1>4 DEF Jump
  <2>2. Types'
    BY <1>4, <2>1, JumpType, AddressingAssumption DEF Types
  <2> QED BY <2>1, <2>2 DEF WalkInv, Advanced
<1>5. CASE UNCHANGED vars
  <2>1. IsLeaf(pointer)' = IsLeaf(pointer) /\ IsNode(pointer)' = IsNode(pointer)
        /\ Filled(pointer)' = Filled(pointer)
    BY <1>5 DEF vars, IsLeaf, IsNode, IsCompose, Filled, Means
  <2>2. kids' = kids /\ last' = last
    BY <1>5 DEF vars
  <2>3. Levels(last)' = Levels(last)
    BY <2>2, Kept
  <2>4. Advance(last)' = Advance(last)
    BY <2>2, <2>3 DEF Advance, Enter, Filled, Means
  <2>5. Follows(last, pointer)' = Follows(last, pointer)
    BY <1>5, <2>3 DEF vars, Follows
  <2> QED BY <1>5, <2>1, <2>2, <2>3, <2>4, <2>5, Kept DEF vars, Types, WalkInv
<1> QED BY <1>1, <1>2, <1>3, <1>4, <1>5 DEF Next

-----------------------------------------------------------------------------
(* What follows from the invariant.                                        *)

LEMMA Invariance == Spec => [](Types /\ WalkInv)
BY InitInv, StepInv, PTL DEF Spec

(* Every variable keeps to its values, negative indices included.          *)
LEMMA TypeCorrect == Spec => []TypeOK
<1>1. Types => TypeOK
  BY GraphFacts DEF Types, TypeOK
<1> QED BY <1>1, Invariance, PTL

(* The node that is executed after one that returned is the next leaf of   *)
(* the graph: advance skips none and repeats none, unless a jump had left  *)
(* a negative index in the pointer.                                        *)
THEOREM WalkInOrder == Spec => InOrder
<1>1. ASSUME Types, WalkInv, [Next]_vars, phase = "fetch", phase' = "ran", Advanced
      PROVE  Before(last, pointer') /\ NoneBetween(last, pointer')
  <2>1. Fetch
    BY <1>1 DEF Next, Return, Rerun, Jump, vars
  <2>2. kids \in Graphs /\ last \in Seq(Nat) /\ IsLeaf(last)
    BY <1>1 DEF Types, WalkInv, Advanced
  <2>3. Advance(last) # <<>> /\ pointer' = Descended(Entered(Advance(last)))
    BY <1>1, <2>1 DEF WalkInv, Fetch
  <2>4. Follows(last, pointer')
    BY <2>2, <2>3, FetchFollows
  <2> QED BY <2>2, <2>4, FollowsInOrder
<1>2. Types /\ WalkInv /\ [Next]_vars =>
        [phase = "fetch" /\ phase' = "ran" /\ Advanced =>
           Before(last, pointer') /\ NoneBetween(last, pointer')]_vars
  BY <1>1
<1> QED BY <1>2, Invariance, PTL DEF Spec, InOrder

(* advance reports the end of the workflow at the last leaf only.          *)
THEOREM WalkOverAtTheEnd == Spec => []OverAtTheEnd
<1>1. Types /\ WalkInv => OverAtTheEnd
  <2> SUFFICES ASSUME Types, WalkInv, phase = "over", Advanced, NEW l \in Leaves, l # last
               PROVE  Before(l, last)
    BY DEF OverAtTheEnd
  <2>1. l \in Seq(Nat) /\ IsLeaf(l)
    BY AddressingAssumption DEF Leaves, Addresses
  <2> QED BY <2>1, LastLeaf DEF Types, WalkInv, Advanced
<1> QED BY <1>1, Invariance, PTL

(* Where advance leads there is a node, so that a walk nobody disturbs     *)
(* fails only on an empty composition.                                     *)
THEOREM WalkFailsOnEmpty == Spec => []FailsOnEmpty
<1>1. Types /\ WalkInv => FailsOnEmpty
  <2> SUFFICES ASSUME Types, WalkInv, phase = "failed", Advanced
               PROVE  pointer \in DOMAIN kids /\ kids[pointer] = 0 /\ NoneBetween(last, pointer)
    BY DEF FailsOnEmpty
  <2>1. kids \in Graphs /\ pointer \in Seq(Nat)
    BY DEF Types, WalkInv, Follows, Continues
  <2>2. pointer \in DOMAIN kids /\ ~(kids[pointer] > 0)
    BY <2>1, PlainIs DEF WalkInv, IsLeaf
  <2>3. kids[pointer] \in Nat
    BY <2>1, <2>2, GraphFacts
  <2>4. NoneBetween(last, pointer)
    BY FollowsInOrder DEF Types, WalkInv, Advanced
  <2> QED BY <2>2, <2>3, <2>4
<1> QED BY <1>1, Invariance, PTL

(* jump_offset_top moves to a sibling of the top-level ancestor, from any  *)
(* depth.                                                                  *)
THEOREM TopJumps == Spec => []TopSibling
<1>1. Types => TopSibling
  BY OffsetTopIs, AddressingAssumption DEF Types, TopSibling, Offsets
<1> QED BY <1>1, Invariance, PTL

=============================================================================
