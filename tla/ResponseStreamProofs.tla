------------------------ MODULE ResponseStreamProofs ------------------------
(***************************************************************************)
(* Proof that each channel of a SuspendObjectStream keeps the promise of   *)
(* FifoChannel, for every capacity and number of items, and that the end   *)
(* of a channel that was declared done is on its way to the reader.  What  *)
(* a channel holds is one line: what is in the hand of the reader, what is *)
(* in the buffer, what the calls that wait for room have.                  *)
(***************************************************************************)
EXTENDS ResponseStream, SequenceTheorems, TLAPS

-----------------------------------------------------------------------------
(* Lemmas about sequences. *)

(* What is put at the end of the last part is put at the end of the whole. *)
LEMMA AppendConcat ==
  ASSUME NEW S, NEW s \in Seq(S), NEW t \in Seq(S), NEW x \in S
  PROVE  s \o Append(t, x) = Append(s \o t, x)
<1> DEFINE l == s \o Append(t, x)  r == Append(s \o t, x)
<1>1. s \o t \in Seq(S) /\ Len(s \o t) = Len(s) + Len(t) /\ Len(s) \in Nat /\ Len(t) \in Nat
  BY ConcatProperties
<1>2. Append(t, x) \in Seq(S) /\ Len(Append(t, x)) = Len(t) + 1
  BY AppendProperties
<1>3. l \in Seq(S) /\ r \in Seq(S) /\ Len(l) = Len(s) + Len(t) + 1 /\ Len(r) = Len(s) + Len(t) + 1
  BY <1>1, <1>2, ConcatProperties, AppendProperties
<1>4. ASSUME NEW i \in 1 .. Len(l) PROVE l[i] = r[i]
  <2>1. i \in 1 .. Len(s) + Len(Append(t, x)) /\ l[i] = IF i <= Len(s) THEN s[i] ELSE Append(t, x)[i - Len(s)]
    <3> DEFINE y == Append(t, x)
    <3>1. y \in Seq(S) /\ i \in 1 .. Len(s) + Len(y) /\ l = s \o y
      BY <1>1, <1>2, <1>3
    <3> HIDE DEF y, l
    <3>2. l[i] = IF i <= Len(s) THEN s[i] ELSE y[i - Len(s)]
      BY <3>1, ConcatProperties
    <3> QED BY <3>1, <3>2 DEF y
  <2>2. CASE i <= Len(s)
    <3>1. i \in 1 .. Len(s) + Len(t) /\ i \in 1 .. Len(s \o t)
      BY <1>1, <1>3, <2>2
    <3>2. r[i] = (s \o t)[i] /\ (s \o t)[i] = s[i]
      BY <1>1, <2>2, <3>1, ConcatProperties, AppendProperties
    <3> QED BY <2>1, <2>2, <3>2
  <2>3. CASE i > Len(s) /\ i <= Len(s) + Len(t)
    <3>1. i - Len(s) \in 1 .. Len(t) /\ i \in 1 .. Len(s) + Len(t)
      BY <1>1, <2>3
    <3>2. Append(t, x)[i - Len(s)] = t[i - Len(s)] /\ r[i] = (s \o t)[i] /\ (s \o t)[i] = t[i - Len(s)]
      BY <1>1, <2>3, <3>1, ConcatProperties, AppendProperties
    <3> QED BY <2>1, <2>3, <3>2, <1>1
  <2>4. CASE i = Len(s) + Len(t) + 1
    BY <1>1, <2>1, <2>4, AppendProperties
  <2> QED BY <1>1, <1>3, <2>2, <2>3, <2>4
<1> HIDE DEF l, r
<1>5. l = r
  BY <1>3, <1>4, SeqEqual
<1> QED BY <1>5 DEF l, r

(* The first element of a whole is that of its first part. *)
LEMMA FirstOfConcat ==
  ASSUME NEW S, NEW s \in Seq(S), s # <<>>, NEW t \in Seq(S)
  PROVE  /\ s \o t # <<>>
         /\ Head(s \o t) = Head(s)
         /\ Tail(s \o t) = Tail(s) \o t
<1>1. s \o t \in Seq(S) /\ Len(s \o t) = Len(s) + Len(t) /\ Len(s) \in Nat \ {0} /\ Len(t) \in Nat
  BY ConcatProperties, EmptySeq
<1>2. s \o t # <<>>
  BY <1>1, EmptySeq
<1>3. Head(s \o t) = (s \o t)[1] /\ Head(s) = s[1]
  BY <1>1, <1>2
<1>4. (s \o t)[1] = s[1]
  BY <1>1, ConcatProperties
<1>5. Tail(s) \in Seq(S) /\ Len(Tail(s)) = Len(s) - 1 /\ \A i \in 1 .. Len(s) - 1 : Tail(s)[i] = s[i + 1]
  BY HeadTailProperties
<1>6. /\ Tail(s \o t) \in Seq(S) /\ Len(Tail(s \o t)) = Len(s) + Len(t) - 1
      /\ \A i \in 1 .. Len(s) + Len(t) - 1 : Tail(s \o t)[i] = (s \o t)[i + 1]
  BY <1>1, <1>2, HeadTailProperties
<1> DEFINE l == Tail(s \o t)  r == Tail(s) \o t
<1>7. r \in Seq(S) /\ Len(r) = Len(l)
  BY <1>1, <1>5, <1>6, ConcatProperties
<1>8. ASSUME NEW i \in 1 .. Len(l) PROVE l[i] = r[i]
  <2>1. l[i] = (s \o t)[i + 1] /\ i + 1 \in 1 .. Len(s) + Len(t) /\ i \in 1 .. (Len(s) - 1) + Len(t)
    BY <1>1, <1>6
  <2>2. (s \o t)[i + 1] = IF i + 1 <= Len(s) THEN s[i + 1] ELSE t[i + 1 - Len(s)]
    BY <2>1, ConcatProperties
  <2>3. r[i] = IF i <= Len(s) - 1 THEN Tail(s)[i] ELSE t[i - (Len(s) - 1)]
    BY <1>5, <2>1, ConcatProperties
  <2> QED BY <1>1, <1>5, <2>1, <2>2, <2>3
<1> HIDE DEF l, r
<1>9. l = r
  BY <1>6, <1>7, <1>8, SeqEqual DEF l
<1> QED BY <1>2, <1>3, <1>4, <1>9 DEF l, r

(* What a removal leaves. *)
LEMMA Removed ==
  ASSUME NEW S, NEW s \in Seq(S), NEW i \in 1 .. Len(s)
  PROVE  /\ RemoveAt(s, i) \in Seq(S) /\ Len(RemoveAt(s, i)) = Len(s) - 1
         /\ \A j \in 1 .. Len(s) - 1 : RemoveAt(s, i)[j] = IF j < i THEN s[j] ELSE s[j + 1]
<1> DEFINE a == SubSeq(s, 1, i - 1)  b == SubSeq(s, i + 1, Len(s))
<1>0. Len(s) \in Nat /\ i \in Nat /\ \A k \in 1 .. Len(s) : s[k] \in S
  BY LenProperties, ElementOfSeq
<1>1. a \in Seq(S) /\ Len(a) = i - 1 /\ \A j \in 1 .. i - 1 : a[j] = s[j]
  BY <1>0, SubSeqProperties
<1>2. b \in Seq(S) /\ Len(b) = Len(s) - i /\ \A j \in 1 .. Len(s) - i : b[j] = s[i + j]
  <2>1. \A k \in i + 1 .. Len(s) : s[k] \in S
    BY <1>0
  <2>2. /\ b \in Seq(S) /\ Len(b) = IF i + 1 <= Len(s) THEN Len(s) - (i + 1) + 1 ELSE 0
        /\ \A j \in 1 .. Len(s) - (i + 1) + 1 : b[j] = s[i + 1 + j - 1]
    BY <1>0, <2>1, SubSeqProperties
  <2> QED BY <1>0, <2>2
<1> HIDE DEF a, b
<1>3. /\ a \o b \in Seq(S) /\ Len(a \o b) = Len(s) - 1
      /\ \A j \in 1 .. Len(s) - 1 : (a \o b)[j] = IF j <= i - 1 THEN a[j] ELSE b[j - (i - 1)]
  BY <1>0, <1>1, <1>2, ConcatProperties
<1>4. ASSUME NEW j \in 1 .. Len(s) - 1 PROVE (a \o b)[j] = IF j < i THEN s[j] ELSE s[j + 1]
  <2>1. (a \o b)[j] = IF j <= i - 1 THEN a[j] ELSE b[j - (i - 1)]
    BY <1>3
  <2>2. CASE j < i
    BY <1>0, <1>1, <2>1, <2>2
  <2>3. CASE ~(j < i)
    <3>1. j - (i - 1) \in 1 .. Len(s) - i /\ i + (j - (i - 1)) = j + 1 /\ ~(j <= i - 1)
      BY <1>0, <2>3
    <3> QED BY <1>2, <2>1, <2>3, <3>1
  <2> QED BY <2>2, <2>3
<1> QED BY <1>3, <1>4 DEF RemoveAt, a, b

(* A removal from the last part is one from the whole. *)
LEMMA RemovedConcat ==
  ASSUME NEW S, NEW s \in Seq(S), NEW t \in Seq(S), NEW i \in 1 .. Len(t)
  PROVE  /\ Len(s) + i \in 1 .. Len(s \o t)
         /\ s \o RemoveAt(t, i) = RemoveAt(s \o t, Len(s) + i)
<1>1. s \o t \in Seq(S) /\ Len(s \o t) = Len(s) + Len(t) /\ Len(s) \in Nat /\ Len(t) \in Nat
  BY ConcatProperties
<1>2. Len(s) + i \in 1 .. Len(s \o t)
  BY <1>1
<1> DEFINE m == RemoveAt(t, i)  r == RemoveAt(s \o t, Len(s) + i)
<1>3. /\ m \in Seq(S) /\ Len(m) = Len(t) - 1
      /\ \A j \in 1 .. Len(t) - 1 : m[j] = IF j < i THEN t[j] ELSE t[j + 1]
  BY Removed
<1>4. /\ r \in Seq(S) /\ Len(r) = Len(s) + Len(t) - 1
      /\ \A j \in 1 .. Len(s) + Len(t) - 1 : r[j] = IF j < Len(s) + i THEN (s \o t)[j] ELSE (s \o t)[j + 1]
  <2> DEFINE u == s \o t  n == Len(s) + i
  <2>1. u \in Seq(S) /\ n \in 1 .. Len(u) /\ Len(u) = Len(s) + Len(t)
    BY <1>1, <1>2
  <2> HIDE DEF u, n
  <2>2. /\ RemoveAt(u, n) \in Seq(S) /\ Len(RemoveAt(u, n)) = Len(u) - 1
        /\ \A j \in 1 .. Len(u) - 1 : RemoveAt(u, n)[j] = IF j < n THEN u[j] ELSE u[j + 1]
    BY <2>1, Removed
  <2> QED BY <2>1, <2>2 DEF u, n
<1> HIDE DEF m, r
<1> DEFINE l == s \o m
<1>5. l \in Seq(S) /\ Len(l) = Len(s) + Len(t) - 1
  <2>1. l \in Seq(S) /\ Len(l) = Len(s) + Len(m)
    BY <1>3, ConcatProperties
  <2> QED BY <1>1, <1>3, <2>1
<1>6. ASSUME NEW j \in 1 .. Len(l) PROVE l[j] = r[j]
  <2>1. l[j] = IF j <= Len(s) THEN s[j] ELSE m[j - Len(s)]
    BY <1>1, <1>3, <1>5, ConcatProperties
  <2>2. j \in 1 .. Len(s) + Len(t) /\ j + 1 \in 1 .. Len(s) + Len(t)
    BY <1>1, <1>5
  <2>3. (s \o t)[j] = IF j <= Len(s) THEN s[j] ELSE t[j - Len(s)]
    BY <2>2, ConcatProperties
  <2>4. (s \o t)[j + 1] = IF j + 1 <= Len(s) THEN s[j + 1] ELSE t[j + 1 - Len(s)]
    BY <2>2, ConcatProperties
  <2>5. r[j] = IF j < Len(s) + i THEN (s \o t)[j] ELSE (s \o t)[j + 1]
    BY <1>1, <1>4, <1>5
  <2>6. CASE j <= Len(s)
    BY <1>1, <2>1, <2>3, <2>5, <2>6
  <2>7. CASE j > Len(s)
    <3>1. /\ j - Len(s) \in 1 .. Len(t) - 1 /\ ~(j <= Len(s)) /\ ~(j + 1 <= Len(s))
          /\ j < Len(s) + i <=> j - Len(s) < i
          /\ j + 1 - Len(s) = (j - Len(s)) + 1
      BY <1>1, <1>5, <2>7
    <3>2. m[j - Len(s)] = IF j - Len(s) < i THEN t[j - Len(s)] ELSE t[(j - Len(s)) + 1]
      BY <1>3, <3>1
    <3> QED BY <2>1, <2>3, <2>4, <2>5, <3>1, <3>2
  <2> QED BY <1>1, <1>5, <2>6, <2>7
<1> HIDE DEF l
<1>7. l = r
  BY <1>4, <1>5, <1>6, SeqEqual
<1> QED BY <1>2, <1>7 DEF l, r, m

(* The first of the last part may move up. *)
LEMMA MovesUp ==
  ASSUME NEW S, NEW s \in Seq(S), NEW t \in Seq(S), t # <<>>
  PROVE  s \o t = Append(s, Head(t)) \o Tail(t)
<1> DEFINE a == Append(s, Head(t))  b == Tail(t)
<1>1. /\ Head(t) \in S /\ Head(t) = t[1] /\ b \in Seq(S) /\ Len(b) = Len(t) - 1
      /\ \A i \in 1 .. Len(t) - 1 : b[i] = t[i + 1]
  BY HeadTailProperties
<1>2. /\ a \in Seq(S) /\ Len(a) = Len(s) + 1 /\ a[Len(s) + 1] = Head(t)
      /\ \A i \in 1 .. Len(s) : a[i] = s[i]
  BY <1>1, AppendProperties
<1>3. Len(s) \in Nat /\ Len(t) \in Nat
  OBVIOUS
<1> HIDE DEF a, b
<1> DEFINE l == s \o t  r == a \o b
<1>4. l \in Seq(S) /\ Len(l) = Len(s) + Len(t) /\ \A i \in 1 .. Len(s) + Len(t) : l[i] = IF i <= Len(s) THEN s[i] ELSE t[i - Len(s)]
  BY ConcatProperties
<1>5. r \in Seq(S) /\ Len(r) = Len(a) + Len(b) /\ \A i \in 1 .. Len(a) + Len(b) : r[i] = IF i <= Len(a) THEN a[i] ELSE b[i - Len(a)]
  BY <1>1, <1>2, ConcatProperties
<1> HIDE DEF l, r
<1>6. Len(r) = Len(l)
  BY <1>1, <1>2, <1>3, <1>4, <1>5
<1>7. ASSUME NEW i \in 1 .. Len(l) PROVE l[i] = r[i]
  <2>1. /\ l[i] = IF i <= Len(s) THEN s[i] ELSE t[i - Len(s)]
        /\ r[i] = IF i <= Len(a) THEN a[i] ELSE b[i - Len(a)]
    BY <1>4, <1>5, <1>6
  <2>2. CASE i <= Len(s)
    BY <1>2, <1>3, <1>4, <2>1, <2>2
  <2>3. CASE i = Len(s) + 1
    <3>1. l[i] = t[1] /\ r[i] = a[Len(s) + 1]
      BY <1>2, <1>3, <2>1, <2>3
    <3> QED BY <1>1, <1>2, <3>1
  <2>4. CASE i > Len(s) + 1
    <3>1. i - Len(a) \in 1 .. Len(t) - 1 /\ (i - Len(a)) + 1 = i - Len(s) /\ ~(i <= Len(s)) /\ ~(i <= Len(a))
      BY <1>2, <1>3, <1>4, <2>4
    <3> QED BY <1>1, <2>1, <3>1
  <2> QED BY <1>3, <1>4, <2>2, <2>3, <2>4
<1>8. l = r
  BY <1>4, <1>5, <1>6, <1>7, SeqEqual
<1> QED BY <1>8 DEF l, r, a, b

-----------------------------------------------------------------------------
(* The invariant *)

Elems    == Items \cup {End}
Whole(c) == hand[c] \o buffer[c] \o sending[c]
Told(c)  == Len(hand[c]) + Len(buffer[c])

(* Who waits has nothing to wait for; what is in a hand belongs to one.    *)
Orderly(c) ==
  /\ reader[c] = "waiting" /\ hand[c] = <<>> => buffer[c] = <<>> /\ sending[c] = <<>>
  /\ sending[c] # <<>> => Len(buffer[c]) = size
  /\ hand[c] # <<>> => reader[c] \in {"waiting", "leaving"}

(* Nothing comes after the end, and nothing is left behind it.             *)
EndLast(c) ==
  /\ ~Closed(c) => /\ End \in Range(Whole(c)) => done[c]
                   /\ \A i \in 1 .. Len(Whole(c)) : Whole(c)[i] = End => i = Len(Whole(c))
  /\ reader[c] = "ending" => done[c] /\ Whole(c) = <<>>

Inv == TypeOK /\ \A c \in Channels : Orderly(c) /\ EndLast(c)

(* The end of a channel that is done is in its line, also while no reader  *)
(* is there yet, unless a callback takes the items.                        *)
Due(c) ==
  /\ reader[c] # "none" => Callback(c) \notin callbacks
  /\ done[c] /\ reader[c] \in Reading \cup {"none"} /\ Callback(c) \notin callbacks
       => End \in Range(Whole(c))

Strict == ~MarkerTimesOut /\ ~Mixes

(* A step that keeps the promise to one channel: FifoChannel!Next of it.   *)
Settles(c, least) == Settled(c)' >= least /\ Settled(c)' <= Len(Line(c)')

Sent(c, x) ==
  /\ Open(c) /\ End \notin Range(Line(c)) /\ x \in Elems
  /\ Line(c)' = Append(Line(c), x)
  /\ Settles(c, Settled(c)) /\ got'[c] = got[c] /\ Open(c)' = Open(c)

Withdrawn(c) ==
  /\ \E i \in Settled(c) + 1 .. Len(Line(c)) : Line(c)' = RemoveAt(Line(c), i)
  /\ Settled(c)' = Settled(c) /\ got'[c] = got[c] /\ Open(c)' = Open(c)

Delivered(c) ==
  /\ Open(c) /\ Line(c) # <<>> /\ Head(Line(c)) # End
  /\ got'[c] = Append(got[c], Head(Line(c))) /\ Line(c)' = Tail(Line(c))
  /\ Settled(c)' + 1 >= Settled(c) /\ Settled(c)' <= Len(Line(c)') /\ Open(c)' = Open(c)

Finished(c) ==
  /\ Open(c) /\ ~Open(c)' /\ Line(c)' = <<>> /\ Settled(c)' = 0 /\ got'[c] = got[c]

Still(c) ==
  Line(c)' = Line(c) /\ Settled(c)' = Settled(c) /\ got'[c] = got[c] /\ Open(c)' = Open(c)

Keeps(c) == Still(c) \/ (\E x : Sent(c, x)) \/ Withdrawn(c) \/ Delivered(c) \/ Finished(c)

LEMMA Constants ==
  /\ Sizes \subseteq Nat /\ MaxItems \in Nat
  /\ Items \subseteq Nat /\ End = 0 /\ End \notin Items /\ Items \subseteq Elems /\ End \in Elems
BY ResponseStreamAssumption DEF Items, End, Elems

(* What the types say of one channel. *)
LEMMA Parts ==
  ASSUME TypeOK, NEW c \in Channels
  PROVE  /\ hand[c] \in Seq(Elems) /\ buffer[c] \in Seq(Elems) /\ sending[c] \in Seq(Elems)
         /\ Len(hand[c]) \in Nat /\ Len(buffer[c]) \in Nat /\ Len(sending[c]) \in Nat
         /\ Len(hand[c]) <= 1 /\ Len(buffer[c]) <= size /\ size \in Nat
         /\ hand[c] \o buffer[c] \in Seq(Elems) /\ Len(hand[c] \o buffer[c]) = Told(c)
         /\ Whole(c) \in Seq(Elems) /\ Len(Whole(c)) = Told(c) + Len(sending[c])
         /\ got[c] \in Seq(Items) /\ next[c] \in 1 .. MaxItems + 1 /\ reader[c] \in Phases
<1>1. hand[c] \in Seq(Elems) /\ buffer[c] \in Seq(Elems) /\ sending[c] \in Seq(Elems)
  BY DEF TypeOK, Elems
<1>2. hand[c] \o buffer[c] \in Seq(Elems) /\ Len(hand[c] \o buffer[c]) = Told(c)
  BY <1>1, ConcatProperties DEF Told
<1>3. Whole(c) \in Seq(Elems) /\ Len(Whole(c)) = Told(c) + Len(sending[c])
  <2> DEFINE u == hand[c] \o buffer[c]  s == sending[c]
  <2>1. u \in Seq(Elems) /\ s \in Seq(Elems) /\ Len(u) = Told(c) /\ Whole(c) = u \o s
    BY <1>1, <1>2 DEF Whole
  <2> HIDE DEF u, s
  <2>2. u \o s \in Seq(Elems) /\ Len(u \o s) = Len(u) + Len(s)
    BY <2>1, ConcatProperties
  <2> QED BY <2>1, <2>2 DEF s
<1> QED BY <1>1, <1>2, <1>3, Constants DEF TypeOK

(* What a step does not touch stays as it is. *)
LEMMA Elsewhere ==
  ASSUME NEW d \in Channels, Orderly(d), EndLast(d), size' = size,
         reader'[d] = reader[d], done'[d] = done[d],
         hand'[d] = hand[d], buffer'[d] = buffer[d], sending'[d] = sending[d]
  PROVE  Orderly(d)' /\ EndLast(d)' /\ Whole(d)' = Whole(d) /\ Told(d)' = Told(d)
BY DEF Orderly, EndLast, Whole, Told, Closed

-----------------------------------------------------------------------------
(* What the operations of the stream do to the line. *)

QueueTypes ==
  /\ {buffer, sending, hand} \subseteq [Channels -> Seq(Elems)]
  /\ \A c \in Channels : Len(buffer[c]) <= size /\ Len(hand[c]) <= 1

LEMMA PutLine ==
  ASSUME TypeOK, NEW c \in Channels, Orderly(c), NEW x \in Elems, Put(c, x),
         size' = size, reader' = reader
  PROVE  /\ QueueTypes' /\ Orderly(c)'
         /\ Whole(c)' = Append(Whole(c), x)
         /\ Told(c)' >= Told(c) /\ Told(c)' <= Len(Whole(c)')
         /\ \A d \in Channels \ {c} : hand'[d] = hand[d] /\ buffer'[d] = buffer[d] /\ sending'[d] = sending[d]
<1>0. {buffer, sending, hand} \subseteq [Channels -> Seq(Elems)]
  BY DEF TypeOK, Elems
<1> DEFINE h == hand[c]  b == buffer[c]  s == sending[c]  u == h \o b
<1>a. /\ h \in Seq(Elems) /\ b \in Seq(Elems) /\ s \in Seq(Elems) /\ u \in Seq(Elems)
      /\ Len(h) \in Nat /\ Len(b) \in Nat /\ Len(s) \in Nat /\ size \in Nat /\ Len(b) <= size
      /\ Len(u) = Len(h) + Len(b) /\ Whole(c) = u \o s /\ Whole(c) \in Seq(Elems)
      /\ Len(Whole(c)) = Len(h) + Len(b) + Len(s) /\ Told(c) = Len(h) + Len(b)
  BY Parts DEF Told, Whole
<1>b. /\ u \o Append(s, x) = Append(Whole(c), x) /\ h \o Append(b, x) = Append(u, x)
      /\ Append(u, x) \in Seq(Elems)
      /\ Append(Whole(c), x) \in Seq(Elems) /\ Len(Append(Whole(c), x)) = Len(Whole(c)) + 1
  <2> HIDE DEF h, b, s, u
  <2>1. u \o Append(s, x) = Append(u \o s, x)
    BY <1>a, AppendConcat, SMTT(30)
  <2>2. h \o Append(b, x) = Append(h \o b, x)
    BY <1>a, AppendConcat, SMTT(30)
  <2>3. Append(u, x) \in Seq(Elems) /\ Append(Whole(c), x) \in Seq(Elems) /\ Len(Append(Whole(c), x)) = Len(Whole(c)) + 1
    BY <1>a, AppendProperties
  <2> QED BY <1>a, <2>1, <2>2, <2>3 DEF u
<1>c. /\ Told(c) \in Nat /\ Len(Whole(c)) \in Nat /\ Told(c) <= Len(Whole(c))
      /\ Len(buffer[c]) < size \/ Len(buffer[c]) >= size
  <2> HIDE DEF h, b, s, u
  <2>1. Told(c) \in Nat /\ Len(Whole(c)) \in Nat /\ Told(c) <= Len(Whole(c))
    BY <1>a
  <2>2. Len(b) < size \/ Len(b) >= size
    BY <1>a
  <2> QED BY <2>1, <2>2 DEF b
<1>1. CASE reader[c] = "waiting" /\ hand[c] = <<>>
  <2>1. hand' = [hand EXCEPT ![c] = <<x>>] /\ buffer' = buffer /\ sending' = sending
    BY <1>1 DEF Put
  <2>2. buffer[c] = <<>> /\ sending[c] = <<>>
    BY <1>1 DEF Orderly
  <2>3. hand'[c] = <<x>> /\ <<x>> \in Seq(Elems) /\ Len(<<x>>) = 1 /\ <<x>> # <<>>
    BY <1>0, <2>1
  <2>4. QueueTypes'
    BY <1>0, <2>1, <2>3 DEF QueueTypes, TypeOK
  <2>5. Orderly(c)'
    BY <1>1, <2>1, <2>2, <2>3 DEF Orderly
  <2>6. Whole(c)' = Append(Whole(c), x)
    <3>1. <<>> \o <<>> \o <<>> = <<>> /\ <<x>> \o <<>> \o <<>> = <<x>> /\ Append(<<>>, x) = <<x>>
      BY <2>3, ConcatEmptySeq
    <3> QED BY <1>1, <2>1, <2>2, <2>3, <3>1 DEF Whole
  <2>7. Told(c) = 0 /\ Told(c)' = 1 /\ Len(Whole(c)') = 1
    BY <1>1, <2>1, <2>2, <2>3, <2>6 DEF Told, Whole
  <2> QED BY <1>0, <2>1, <2>4, <2>5, <2>6, <2>7
<1>2. CASE ~(reader[c] = "waiting" /\ hand[c] = <<>>) /\ Len(buffer[c]) < size
  <2>0. ~(Len(buffer[c]) >= size)
    BY <1>2, <1>a
  <2>1. buffer' = [buffer EXCEPT ![c] = Append(@, x)] /\ hand' = hand /\ sending' = sending
    BY <1>2, <2>0, Zenon DEF Put
  <2>2. sending[c] = <<>>
    BY <1>2, Parts DEF Orderly
  <2>3. /\ buffer'[c] = Append(buffer[c], x) /\ buffer'[c] \in Seq(Elems)
        /\ Len(buffer'[c]) = Len(buffer[c]) + 1 /\ Len(buffer'[c]) <= size
    BY <1>0, <1>2, <2>1, Parts, AppendProperties
  <2>4. QueueTypes'
    BY <1>0, <2>1, <2>3 DEF QueueTypes, TypeOK
  <2>5. Orderly(c)'
    BY <1>2, <2>1, <2>2 DEF Orderly
  <2>6. Whole(c)' = Append(Whole(c), x) /\ Len(Whole(c)') = Len(Whole(c)) + 1
    <3>1. Whole(c)' = Append(u, x) \o <<>> /\ Whole(c) = u \o <<>>
      BY <2>1, <2>2, <2>3, <1>b, <1>a DEF Whole
    <3>2. Append(u, x) \o <<>> = Append(u, x) /\ u \o <<>> = u
      <4> HIDE DEF u
      <4> QED BY <1>a, <1>b, ConcatEmptySeq
    <3> QED BY <3>1, <3>2, <1>b
  <2>7. Told(c)' = Told(c) + 1 /\ Told(c) \in Nat /\ Told(c)' <= Len(Whole(c)')
    <3>1. Told(c)' = Told(c) + 1
      <4>1. Told(c)' = Len(hand[c]) + Len(buffer'[c]) /\ Told(c) = Len(hand[c]) + Len(buffer[c])
        BY <2>1 DEF Told
      <4>2. Len(hand[c]) \in Nat /\ Len(buffer[c]) \in Nat
        BY <1>a
      <4> DEFINE k == Len(hand[c])  m == Len(buffer[c])
      <4>3. Told(c)' = k + (m + 1) /\ Told(c) = k + m /\ k \in Nat /\ m \in Nat
        BY <2>3, <4>1, <4>2
      <4> HIDE DEF k, m
      <4> QED BY <4>3
    <3> QED BY <2>6, <3>1, <1>c
  <2> QED BY <1>0, <2>1, <2>4, <2>5, <2>6, <2>7
<1>3. CASE ~(reader[c] = "waiting" /\ hand[c] = <<>>) /\ Len(buffer[c]) >= size
  <2>1. sending' = [sending EXCEPT ![c] = Append(@, x)] /\ hand' = hand /\ buffer' = buffer
    <3>1. ~(Len(buffer[c]) < size)
      BY <1>3, <1>a
    <3> QED BY <1>3, <3>1, Zenon DEF Put
  <2>2. Len(buffer[c]) = size
    BY <1>3, <1>a
  <2>3. sending'[c] = Append(sending[c], x) /\ sending'[c] \in Seq(Elems)
    BY <1>0, <2>1, Parts, AppendProperties
  <2>4. QueueTypes'
    BY <1>0, <2>1, <2>3 DEF QueueTypes, TypeOK
  <2>5. Orderly(c)'
    BY <1>3, <2>1, <2>2 DEF Orderly
  <2>6. Whole(c)' = Append(Whole(c), x) /\ Len(Whole(c)') = Len(Whole(c)) + 1
    <3>1. Whole(c)' = u \o Append(s, x)
      BY <2>1, <2>3 DEF Whole
    <3> QED BY <3>1, <1>b
  <2>7. Told(c)' = Told(c) /\ Told(c) \in Nat /\ Told(c)' <= Len(Whole(c)')
    <3>1. Told(c)' = Told(c)
      BY <2>1 DEF Told
    <3> QED BY <2>6, <3>1, <1>c
  <2> QED BY <1>0, <2>1, <2>4, <2>5, <2>6, <2>7
<1> QED BY <1>1, <1>2, <1>3, <1>c

LEMMA ShiftLine ==
  ASSUME TypeOK, NEW c \in Channels, Orderly(c), hand[c] = <<>>, Filled(c) # <<>>, Shift(c), size' = size
  PROVE  /\ QueueTypes' /\ hand' = hand
         /\ sending'[c] # <<>> => Len(buffer'[c]) = size'
         /\ Whole(c) # <<>> /\ Head(Whole(c)) = Head(Filled(c)) /\ Whole(c)' = Tail(Whole(c))
         /\ Told(c)' + 1 >= Told(c) /\ Told(c)' <= Len(Whole(c)')
         /\ \A d \in Channels \ {c} : hand'[d] = hand[d] /\ buffer'[d] = buffer[d] /\ sending'[d] = sending[d]
<1>0. {buffer, sending, hand} \subseteq [Channels -> Seq(Elems)]
  BY DEF TypeOK, Elems
<1> DEFINE b == buffer[c]  s == sending[c]  f == Filled(c)
<1>1. /\ buffer' = [buffer EXCEPT ![c] = Tail(f)] /\ hand' = hand
      /\ sending' = [sending EXCEPT ![c] = IF s = <<>> THEN s ELSE Tail(s)]
  BY DEF Shift
<1>2. /\ b \in Seq(Elems) /\ s \in Seq(Elems) /\ Len(b) \in Nat /\ Len(b) <= size /\ size \in Nat
      /\ hand[c] \o b = b
  BY Parts, ConcatEmptySeq
<1>3. Whole(c) = b \o s /\ Told(c) = Len(b)
  <2>1. Len(<<>>) = 0
    BY EmptySeq
  <2> QED BY <1>2, <2>1 DEF Whole, Told
<1>4. f \in Seq(Elems) /\ Len(f) \in Nat /\ Len(f) <= size + 1
      /\ IF s = <<>> THEN f = b ELSE f = Append(b, Head(s)) /\ Len(b) = size
  <2>1. CASE s = <<>>
    <3>1. f = b
      BY <2>1 DEF Filled
    <3> HIDE DEF f, b
    <3> QED BY <1>2, <2>1, <3>1
  <2>2. CASE s # <<>>
    <3>1. f = Append(b, Head(s)) /\ Len(b) = size
      BY <2>2 DEF Filled, Orderly
    <3>2. Head(s) \in Elems
      BY <1>2, <2>2, HeadTailProperties
    <3> HIDE DEF f, b, s
    <3>3. f \in Seq(Elems) /\ Len(f) = Len(b) + 1
      BY <1>2, <3>1, <3>2, AppendProperties
    <3> QED BY <1>2, <2>2, <3>1, <3>3
  <2> QED BY <2>1, <2>2
<1>5. Tail(f) \in Seq(Elems) /\ Len(Tail(f)) = Len(f) - 1
  <2> f # <<>>
    OBVIOUS
  <2> HIDE DEF f
  <2> QED BY <1>4, HeadTailProperties
<1>6. s # <<>> => Tail(s) \in Seq(Elems)
  BY <1>2, HeadTailProperties
<1>7. /\ buffer'[c] = Tail(f) /\ sending'[c] = (IF s = <<>> THEN <<>> ELSE Tail(s)) /\ hand'[c] = <<>>
      /\ sending'[c] \in Seq(Elems)
  BY <1>0, <1>1, <1>2, <1>6
<1>8. QueueTypes'
  <2>1. buffer' \in [Channels -> Seq(Elems)] /\ sending' \in [Channels -> Seq(Elems)] /\ hand' \in [Channels -> Seq(Elems)]
    BY <1>0, <1>1, <1>5, <1>7
  <2>2. Len(buffer'[c]) <= size
    <3> HIDE DEF f
    <3>1. Len(Tail(f)) <= size
      <4> DEFINE k == Len(f)
      <4>1. k \in Nat /\ k <= size + 1 /\ size \in Nat /\ Len(Tail(f)) = k - 1
        BY <1>2, <1>4, <1>5
      <4> HIDE DEF k
      <4> QED BY <4>1, SMTT(30)
    <3> QED BY <1>7, <3>1
  <2> QED BY <1>1, <2>1, <2>2 DEF QueueTypes, TypeOK
<1>9. sending'[c] # <<>> => Len(buffer'[c]) = size /\ Len(f) = size + 1
  <2> SUFFICES ASSUME sending'[c] # <<>> PROVE Len(buffer'[c]) = size /\ Len(f) = size + 1
    OBVIOUS
  <2>1. s # <<>>
    BY <1>7
  <2>2. f = Append(b, Head(s)) /\ Len(b) = size /\ Head(s) \in Elems
    BY <1>2, <1>4, <2>1, HeadTailProperties
  <2> HIDE DEF f, b, s
  <2>3. Len(f) = size + 1
    BY <1>2, <2>2, AppendProperties
  <2>4. Len(Tail(f)) = size
    BY <1>2, <1>5, <2>3
  <2> QED BY <1>7, <2>3, <2>4
<1>10. /\ Whole(c) # <<>> /\ Head(Whole(c)) = Head(f) /\ Whole(c)' = Tail(Whole(c))
       /\ Told(c)' = Len(f) - 1
  <2>1. Whole(c)' = Tail(f) \o (IF s = <<>> THEN <<>> ELSE Tail(s)) /\ Told(c)' = Len(f) - 1
    <3>1. <<>> \o Tail(f) = Tail(f) /\ Len(<<>>) = 0
      <4> HIDE DEF f
      <4> QED BY <1>5, ConcatEmptySeq, EmptySeq
    <3>2. Whole(c)' = <<>> \o Tail(f) \o (IF s = <<>> THEN <<>> ELSE Tail(s)) /\ Told(c)' = 0 + Len(Tail(f))
      BY <1>7, <3>1, SMTT(30) DEF Whole, Told
    <3>3. Len(f) \in Nat /\ Len(Tail(f)) = Len(f) - 1
      BY <1>4, <1>5
    <3> DEFINE k == Len(f)  m == Len(Tail(f))  t == Tail(f)
    <3>4. k \in Nat /\ m = k - 1 /\ Told(c)' = 0 + m /\ <<>> \o t = t
      BY <3>1, <3>2, <3>3
    <3>5. Told(c)' = k - 1
      <4> HIDE DEF k, m
      <4> QED BY <3>4
    <3>6. Whole(c)' = t \o (IF s = <<>> THEN <<>> ELSE Tail(s))
      BY <3>2, <3>4, Zenon
    <3> QED BY <3>5, <3>6, Zenon
  <2>2. f # <<>>
    OBVIOUS
  <2>3. CASE s = <<>>
    <3>1. f = b
      BY <1>4, <2>3
    <3> HIDE DEF f, b, s
    <3>2. b \o <<>> = b /\ Tail(f) \o <<>> = Tail(f)
      BY <1>2, <1>5, ConcatEmptySeq
    <3> QED BY <1>3, <2>1, <2>2, <2>3, <3>1, <3>2
  <2>4. CASE s # <<>>
    <3>1. f = Append(b, Head(s))
      BY <1>4, <2>4
    <3> HIDE DEF f, b, s
    <3>2. b \o s = f \o Tail(s)
      BY <1>2, <2>4, <3>1, MovesUp
    <3>3. f \o Tail(s) # <<>> /\ Head(f \o Tail(s)) = Head(f) /\ Tail(f \o Tail(s)) = Tail(f) \o Tail(s)
      BY <1>4, <1>6, <2>2, <2>4, FirstOfConcat
    <3> QED BY <1>3, <2>1, <2>4, <3>2, <3>3
  <2> QED BY <2>3, <2>4
<1>11. Told(c)' + 1 >= Told(c) /\ Told(c)' <= Len(Whole(c)')
  <2>1. Len(f) >= Len(b)
    <3>1. CASE s = <<>>
      BY <1>4, <3>1
    <3>2. CASE s # <<>>
      <4>1. f = Append(b, Head(s)) /\ Head(s) \in Elems
        BY <1>2, <1>4, <3>2, HeadTailProperties
      <4> HIDE DEF f, b, s
      <4> QED BY <1>2, <4>1, AppendProperties
    <3> QED BY <3>1, <3>2
  <2>2. Len(Whole(c)') >= Len(f) - 1
    <3> DEFINE w == buffer'[c]  v == sending'[c]
    <3>1. Whole(c)' = hand'[c] \o w \o v /\ w \in Seq(Elems) /\ v \in Seq(Elems) /\ Len(w) = Len(f) - 1 /\ hand'[c] \o w = w
      <4>1. <<>> \o Tail(f) = Tail(f)
        <5> HIDE DEF f
        <5> QED BY <1>5, ConcatEmptySeq
      <4> QED BY <1>5, <1>7, <4>1 DEF Whole
    <3> HIDE DEF w, v, f
    <3>2. Len(w \o v) = Len(w) + Len(v) /\ Len(w) \in Nat /\ Len(v) \in Nat
      BY <3>1, ConcatProperties
    <3> QED BY <3>1, <3>2
  <2> HIDE DEF f, b, s
  <2> QED BY <1>2, <1>3, <1>4, <1>10, <2>1, <2>2
<1>12. ASSUME NEW d \in Channels \ {c} PROVE hand'[d] = hand[d] /\ buffer'[d] = buffer[d] /\ sending'[d] = sending[d]
  BY <1>0, <1>1
<1> QED BY <1>1, <1>8, <1>9, <1>10, <1>11, <1>12

LEMMA WokenLine ==
  ASSUME TypeOK, NEW c \in Channels, Orderly(c), hand[c] # <<>>,
         hand' = [hand EXCEPT ![c] = <<>>], UNCHANGED <<size, buffer, sending>>
  PROVE  /\ QueueTypes'
         /\ Whole(c) # <<>> /\ Head(Whole(c)) = Head(hand[c]) /\ Whole(c)' = Tail(Whole(c))
         /\ Told(c)' + 1 >= Told(c) /\ Told(c)' <= Len(Whole(c)')
         /\ \A d \in Channels \ {c} : hand'[d] = hand[d] /\ buffer'[d] = buffer[d] /\ sending'[d] = sending[d]
<1>0. {buffer, sending, hand} \subseteq [Channels -> Seq(Elems)]
  BY DEF TypeOK, Elems
<1>1. hand'[c] = <<>> /\ buffer' = buffer /\ sending' = sending
  BY <1>0
<1> DEFINE h == hand[c]  b == buffer[c]  s == sending[c]
<1>2. /\ h \in Seq(Elems) /\ b \in Seq(Elems) /\ s \in Seq(Elems) /\ h # <<>> /\ h \o b \in Seq(Elems)
      /\ Len(h) \in Nat /\ Len(h) <= 1 /\ Len(b) \in Nat /\ Len(s) \in Nat
      /\ Whole(c) = (h \o b) \o s /\ Told(c) = Len(h) + Len(b)
  BY Parts DEF Whole, Told
<1>3. Whole(c)' = (<<>> \o b) \o s /\ Told(c)' = Len(<<>>) + Len(b)
  BY <1>1 DEF Whole, Told
<1> HIDE DEF h, b, s
<1>4. Len(h) = 1 /\ Tail(h) = <<>> /\ Len(<<>>) = 0 /\ <<>> \o b = b
  <2>0. h \in Seq(Elems) /\ h # <<>>
    BY <1>2
  <2>1. Len(h) = 1
    <3>1. Len(h) \in Nat \ {0}
      BY <2>0, EmptySeq
    <3> DEFINE k == Len(h)
    <3>2. k \in Nat \ {0} /\ k <= 1
      BY <1>2, <3>1
    <3> HIDE DEF k
    <3>3. k = 1
      BY <3>2
    <3> QED BY <3>3 DEF k
  <2>2. Tail(h) \in Seq(Elems) /\ Len(Tail(h)) = 0
    BY <1>2, <2>1, HeadTailProperties
  <2>3. Tail(h) = <<>>
    BY <2>2, EmptySeq
  <2> QED BY <1>2, <2>1, <2>3, ConcatEmptySeq, EmptySeq
<1>5. h \o b # <<>> /\ Head(h \o b) = Head(h) /\ Tail(h \o b) = Tail(h) \o b
  BY <1>2, FirstOfConcat
<1>6. (h \o b) \o s # <<>> /\ Head((h \o b) \o s) = Head(h \o b) /\ Tail((h \o b) \o s) = Tail(h \o b) \o s
  <2> DEFINE u == h \o b
  <2>1. u \in Seq(Elems) /\ u # <<>>
    BY <1>2, <1>5
  <2> HIDE DEF u
  <2>2. u \o s # <<>> /\ Head(u \o s) = Head(u) /\ Tail(u \o s) = Tail(u) \o s
    BY <1>2, <2>1, FirstOfConcat
  <2> QED BY <2>2 DEF u
<1>7. Whole(c) # <<>> /\ Head(Whole(c)) = Head(h) /\ Whole(c)' = Tail(Whole(c))
  BY <1>2, <1>3, <1>4, <1>5, <1>6, Zenon
<1>8. Told(c)' + 1 >= Told(c) /\ Told(c)' <= Len(Whole(c)')
  <2>1. Len(b \o s) = Len(b) + Len(s)
    BY <1>2, ConcatProperties
  <2>2. Told(c)' = 0 + Len(b) /\ Told(c) = 1 + Len(b) /\ Len(Whole(c)') = Len(b) + Len(s)
    BY <1>2, <1>3, <1>4, <2>1
  <2> QED BY <1>2, <2>2
<1>9. QueueTypes'
  <2>1. <<>> \in Seq(Elems) /\ hand \in [Channels -> Seq(Elems)]
    BY <1>0, EmptySeq
  <2>2. hand' \in [Channels -> Seq(Elems)]
    BY <2>1
  <2>3. \A d \in Channels : Len(hand'[d]) <= 1
    BY <1>1, <1>4, <2>1 DEF TypeOK
  <2> QED BY <1>0, <1>1, <2>2, <2>3 DEF QueueTypes, TypeOK
<1> QED BY <1>0, <1>1, <1>7, <1>8, <1>9 DEF h

LEMMA GivesUpLine ==
  ASSUME TypeOK, NEW c \in Channels, Orderly(c), NEW i \in 1 .. Len(sending[c]),
         sending' = [sending EXCEPT ![c] = RemoveAt(@, i)], UNCHANGED <<size, buffer, hand, reader>>
  PROVE  /\ QueueTypes' /\ Orderly(c)' /\ Told(c)' = Told(c)
         /\ Told(c) + i \in Told(c) + 1 .. Len(Whole(c))
         /\ Told(c) + i \in 1 .. Len(Whole(c))
         /\ Whole(c)' = RemoveAt(Whole(c), Told(c) + i)
         /\ Whole(c)[Told(c) + i] = sending[c][i]
         /\ \A d \in Channels \ {c} : hand'[d] = hand[d] /\ buffer'[d] = buffer[d] /\ sending'[d] = sending[d]
<1>0. {buffer, sending, hand} \subseteq [Channels -> Seq(Elems)]
  BY DEF TypeOK, Elems
<1> DEFINE u == hand[c] \o buffer[c]  s == sending[c]
<1>1. /\ u \in Seq(Elems) /\ s \in Seq(Elems) /\ Len(u) = Told(c) /\ Whole(c) = u \o s
      /\ Len(u) \in Nat /\ Len(s) \in Nat /\ i \in 1 .. Len(s)
  <2>1. u \in Seq(Elems) /\ s \in Seq(Elems) /\ Len(u) = Told(c) /\ Whole(c) = u \o s /\ Len(s) \in Nat
    BY Parts DEF Whole
  <2> HIDE DEF u
  <2>2. Len(u) \in Nat
    BY <2>1, LenProperties
  <2> QED BY <2>1, <2>2
<1>2. sending'[c] = RemoveAt(s, i) /\ hand' = hand /\ buffer' = buffer
  BY <1>0
<1>3. Whole(c)' = u \o RemoveAt(s, i) /\ Told(c)' = Told(c)
  BY <1>2 DEF Whole, Told
<1>4. Orderly(c)'
  <2>1. s # <<>>
    <3> SUFFICES ASSUME s = <<>> PROVE FALSE
      OBVIOUS
    <3> Len(s) = 0
      BY EmptySeq
    <3> QED BY <1>1
  <2> QED BY <1>2, <2>1 DEF Orderly
<1> HIDE DEF u, s
<1>5. RemoveAt(s, i) \in Seq(Elems)
  BY <1>1, Removed
<1>6. QueueTypes'
  BY <1>0, <1>2, <1>5 DEF QueueTypes, TypeOK
<1>7. Len(u) + i \in 1 .. Len(u \o s) /\ u \o RemoveAt(s, i) = RemoveAt(u \o s, Len(u) + i)
  BY <1>1, RemovedConcat
<1>8. (u \o s)[Len(u) + i] = s[i]
  <2>1. Len(u) + i \in 1 .. Len(u) + Len(s) /\ ~(Len(u) + i <= Len(u)) /\ (Len(u) + i) - Len(u) = i
    BY <1>1
  <2>2. (u \o s)[Len(u) + i] = IF Len(u) + i <= Len(u) THEN u[Len(u) + i] ELSE s[(Len(u) + i) - Len(u)]
    BY <1>1, <2>1, ConcatProperties
  <2> QED BY <2>1, <2>2
<1>9. Told(c) + i \in Told(c) + 1 .. Len(Whole(c))
  <2>1. Len(u \o s) = Len(u) + Len(s)
    BY <1>1, ConcatProperties
  <2> QED BY <1>1, <2>1
<1>10. ASSUME NEW d \in Channels \ {c} PROVE sending'[d] = sending[d]
  BY <1>0
<1> QED BY <1>1, <1>2, <1>3, <1>4, <1>6, <1>7, <1>8, <1>9, <1>10 DEF s

-----------------------------------------------------------------------------
(* Lines that have nothing after the end stay so. *)

Tidy(q) == \A i \in 1 .. Len(q) : q[i] = End => i = Len(q)

LEMMA TidyAppend ==
  ASSUME NEW q \in Seq(Elems), End \notin Range(q), NEW x \in Elems
  PROVE  Tidy(Append(q, x)) /\ Range(Append(q, x)) = Range(q) \cup {x}
<1>1. /\ Append(q, x) \in Seq(Elems) /\ Len(Append(q, x)) = Len(q) + 1 /\ Len(q) \in Nat
      /\ \A i \in 1 .. Len(q) : Append(q, x)[i] = q[i]
      /\ Append(q, x)[Len(q) + 1] = x
      /\ DOMAIN q = 1 .. Len(q) /\ DOMAIN Append(q, x) = 1 .. Len(q) + 1
  BY AppendProperties
<1> DEFINE t == Append(q, x)
<1> HIDE DEF t
<1>2. \A i \in 1 .. Len(q) : q[i] # End
  BY <1>1 DEF Range
<1>3. \A i \in 1 .. Len(t) : i \in 1 .. Len(q) \/ i = Len(q) + 1
  BY <1>1 DEF t
<1>4. Tidy(t)
  BY <1>1, <1>2, <1>3 DEF Tidy, t
<1>5. Range(t) = Range(q) \cup {x}
  <2>1. ASSUME NEW y \in Range(t) PROVE y \in Range(q) \cup {x}
    BY <1>1, <1>3, <2>1 DEF Range, t
  <2>2. ASSUME NEW y \in Range(q) PROVE y \in Range(t)
    <3>1. PICK i \in 1 .. Len(q) : y = q[i]
      BY <1>1 DEF Range
    <3>2. i \in 1 .. Len(q) + 1 /\ t[i] = y
      BY <1>1, <3>1 DEF t
    <3> QED BY <1>1, <3>2 DEF Range, t
  <2>3. x \in Range(t)
    <3>1. Len(q) + 1 \in 1 .. Len(q) + 1
      BY <1>1
    <3> QED BY <1>1, <3>1 DEF Range, t
  <2> QED BY <2>1, <2>2, <2>3
<1> QED BY <1>4, <1>5 DEF t

LEMMA TidyTail ==
  ASSUME NEW q \in Seq(Elems), q # <<>>, Tidy(q)
  PROVE  /\ Tidy(Tail(q)) /\ Range(Tail(q)) \subseteq Range(q)
         /\ Head(q) = End => q = <<End>> /\ Tail(q) = <<>>
         /\ Head(q) # End /\ End \in Range(q) => End \in Range(Tail(q))
<1> DEFINE t == Tail(q)
<1>1. /\ t \in Seq(Elems) /\ Len(t) = Len(q) - 1 /\ Head(q) = q[1] /\ Len(q) \in Nat \ {0}
      /\ \A i \in 1 .. Len(t) : t[i] = q[i + 1]
      /\ DOMAIN q = 1 .. Len(q) /\ DOMAIN t = 1 .. Len(t)
  BY HeadTailProperties, EmptySeq
<1> HIDE DEF t
<1>2. \A i \in 1 .. Len(t) : i + 1 \in 1 .. Len(q)
  BY <1>1
<1>3. Tidy(t)
  <2> SUFFICES ASSUME NEW i \in 1 .. Len(t), t[i] = End PROVE i = Len(t)
    BY DEF Tidy
  <2>1. i + 1 = Len(q)
    BY <1>1, <1>2 DEF Tidy
  <2> QED BY <1>1, <2>1
<1>4. Range(t) \subseteq Range(q)
  BY <1>1, <1>2, SMTT(30) DEF Range
<1>5. ASSUME Head(q) = End PROVE q = <<End>> /\ t = <<>>
  <2>1. Len(q) = 1
    BY <1>1, <1>5 DEF Tidy
  <2>2. t = <<>>
    BY <1>1, <2>1, EmptySeq
  <2>3. <<End>> \in Seq(Elems) /\ Len(<<End>>) = 1 /\ <<End>>[1] = End
    BY Constants
  <2>4. \A i \in 1 .. Len(q) : q[i] = <<End>>[i]
    BY <1>1, <1>5, <2>1, <2>3
  <2>5. q = <<End>>
    BY <2>1, <2>3, <2>4, SeqEqual
  <2> QED BY <2>2, <2>5
<1>6. ASSUME Head(q) # End, End \in Range(q) PROVE End \in Range(t)
  <2>1. PICK i \in 1 .. Len(q) : q[i] = End
    BY <1>1, <1>6 DEF Range
  <2>2. i # 1
    BY <1>1, <1>6, <2>1
  <2>3. i - 1 \in 1 .. Len(t) /\ (i - 1) + 1 = i
    BY <1>1, <2>2
  <2>4. t[i - 1] = End
    BY <1>1, <2>1, <2>3
  <2> QED BY <1>1, <2>3, <2>4 DEF Range
<1> QED BY <1>3, <1>4, <1>5, <1>6 DEF t

LEMMA TidyRemoved ==
  ASSUME NEW q \in Seq(Elems), NEW n \in 1 .. Len(q), Tidy(q)
  PROVE  /\ Tidy(RemoveAt(q, n)) /\ Range(RemoveAt(q, n)) \subseteq Range(q)
         /\ q[n] # End /\ End \in Range(q) => End \in Range(RemoveAt(q, n))
<1> DEFINE t == RemoveAt(q, n)
<1>1. /\ t \in Seq(Elems) /\ Len(t) = Len(q) - 1 /\ Len(q) \in Nat
      /\ \A j \in 1 .. Len(q) - 1 : t[j] = IF j < n THEN q[j] ELSE q[j + 1]
  BY Removed
<1> HIDE DEF t
<1>2. DOMAIN q = 1 .. Len(q) /\ DOMAIN t = 1 .. Len(q) - 1
  BY <1>1
<1>3. \A j \in 1 .. Len(q) - 1 : j \in 1 .. Len(q) /\ j + 1 \in 1 .. Len(q) /\ j # Len(q)
  BY <1>1
<1>4. Tidy(t)
  <2> SUFFICES ASSUME NEW j \in 1 .. Len(q) - 1, t[j] = End PROVE j = Len(q) - 1
    BY <1>1 DEF Tidy
  <2>1. q[j] # End
    BY <1>3 DEF Tidy
  <2>2. q[j + 1] = End
    BY <1>1, <2>1
  <2>3. j + 1 = Len(q)
    BY <1>3, <2>2 DEF Tidy
  <2> QED BY <1>1, <2>3
<1>5. Range(t) \subseteq Range(q)
  BY <1>1, <1>2, <1>3 DEF Range
<1>6. ASSUME q[n] # End, End \in Range(q) PROVE End \in Range(t)
  <2>1. PICK i \in 1 .. Len(q) : q[i] = End
    BY <1>2, <1>6 DEF Range
  <2>2. i = Len(q) /\ i # n
    BY <1>6, <2>1 DEF Tidy
  <2>3. i - 1 \in 1 .. Len(q) - 1 /\ ~(i - 1 < n) /\ (i - 1) + 1 = i
    BY <1>1, <2>2
  <2>4. t[i - 1] = End
    BY <1>1, <2>1, <2>3
  <2> QED BY <1>2, <2>3, <2>4 DEF Range
<1> QED BY <1>4, <1>5, <1>6 DEF t

-----------------------------------------------------------------------------
(* Each step keeps the invariant and the promise. *)

(* Nothing happens to a channel that a step does not touch. *)
LEMMA Others ==
  ASSUME Inv, NEW c \in Channels, size' = size,
         \A d \in Channels \ {c} :
           /\ hand'[d] = hand[d] /\ buffer'[d] = buffer[d] /\ sending'[d] = sending[d]
           /\ reader'[d] = reader[d] /\ done'[d] = done[d] /\ got'[d] = got[d]
           /\ Callback(d) \in callbacks' <=> Callback(d) \in callbacks,
         TypeOK', Orderly(c)', EndLast(c)', Keeps(c), Strict /\ Due(c) => Due(c)'
  PROVE  /\ Inv' /\ \A d \in Channels : Keeps(d)
         /\ Strict /\ (\A d \in Channels : Due(d)) => (\A d \in Channels : Due(d))'
<1>1. ASSUME NEW d \in Channels \ {c}
      PROVE  Orderly(d)' /\ EndLast(d)' /\ Keeps(d) /\ (Due(d) => Due(d)')
  <2>1. Orderly(d)' /\ EndLast(d)' /\ Whole(d)' = Whole(d) /\ Told(d)' = Told(d)
    <3>1. Orderly(d) /\ EndLast(d)
      BY DEF Inv
    <3> QED BY <3>1, Elsewhere
  <2>2. Line(d)' = Line(d) /\ Settled(d)' = Settled(d) /\ Open(d)' = Open(d)
    BY <2>1 DEF Line, Settled, Open, Closed, Whole, Told
  <2>3. Keeps(d)
    BY <2>2 DEF Keeps, Still
  <2>4. Due(d) => Due(d)'
    BY <2>1 DEF Due, Callback
  <2> QED BY <2>1, <2>3, <2>4
<1>2. Inv'
  BY <1>1 DEF Inv
<1>3. \A d \in Channels : Keeps(d)
  BY <1>1
<1>4. ASSUME Strict, \A d \in Channels : Due(d) PROVE (\A d \in Channels : Due(d))'
  BY <1>1, <1>4
<1> QED BY <1>2, <1>3, <1>4

(* While a channel is not closed its line is what it holds. *)
LEMMA Seen ==
  ASSUME NEW c \in Channels
  PROVE  /\ ~Closed(c) => Line(c) = Whole(c) /\ Settled(c) = Told(c)
         /\ Closed(c) => Line(c) = <<>> /\ Settled(c) = 0
         /\ Closed(c) => ~Open(c)
BY DEF Line, Whole, Settled, Told, Closed, Open

(* What is put into a channel that is not done. *)
LEMMA PutKeeps ==
  ASSUME Inv, NEW c \in Channels, NEW x \in Elems, ~done[c], ~Closed(c), Put(c, x),
         UNCHANGED <<size, callbacks, reader, got>>,
         next' \in [Channels -> 1 .. MaxItems + 1], done' \in [Channels -> BOOLEAN],
         x = End => done'[c], \A d \in Channels \ {c} : done'[d] = done[d],
         x # End => done' = done
  PROVE  /\ Inv' /\ \A d \in Channels : Keeps(d)
         /\ Strict /\ (\A d \in Channels : Due(d)) => (\A d \in Channels : Due(d))'
<1>0. TypeOK /\ Orderly(c) /\ EndLast(c)
  BY DEF Inv
<1>1. /\ QueueTypes' /\ Orderly(c)' /\ Whole(c)' = Append(Whole(c), x)
      /\ Told(c)' >= Told(c) /\ Told(c)' <= Len(Whole(c)')
      /\ \A d \in Channels \ {c} : hand'[d] = hand[d] /\ buffer'[d] = buffer[d] /\ sending'[d] = sending[d]
  BY <1>0, PutLine
<1>2. TypeOK'
  BY <1>0, <1>1 DEF TypeOK, QueueTypes, Elems
<1>3. Whole(c) \in Seq(Elems) /\ End \notin Range(Whole(c)) /\ reader[c] # "ending"
  BY <1>0, Parts DEF EndLast
<1>4. Tidy(Whole(c)') /\ Range(Whole(c)') = Range(Whole(c)) \cup {x}
  BY <1>1, <1>3, TidyAppend
<1>5. EndLast(c)'
  BY <1>3, <1>4 DEF EndLast, Tidy
<1>6. Sent(c, x)
  <2>1. /\ Line(c) = Whole(c) /\ Settled(c) = Told(c) /\ Line(c)' = Whole(c)' /\ Settled(c)' = Told(c)'
        /\ Open(c) /\ Open(c)' = Open(c)
    BY <1>3, Seen DEF Open, Closed, Line, Settled, Whole, Told
  <2> QED BY <1>1, <1>3, <2>1, Zenon DEF Sent, Settles
<1>7. Keeps(c)
  BY <1>6 DEF Keeps
<1>8. Due(c) => Due(c)'
  BY <1>4 DEF Due
<1>9. \A d \in Channels \ {c} :
        /\ hand'[d] = hand[d] /\ buffer'[d] = buffer[d] /\ sending'[d] = sending[d]
        /\ reader'[d] = reader[d] /\ done'[d] = done[d] /\ got'[d] = got[d]
        /\ Callback(d) \in callbacks' <=> Callback(d) \in callbacks
  BY <1>1
<1> QED BY <1>1, <1>2, <1>5, <1>7, <1>8, <1>9, Others

LEMMA SendsKeeps ==
  ASSUME Inv, NEW c \in Channels, Sends(c)
  PROVE  /\ Inv' /\ \A d \in Channels : Keeps(d)
         /\ Strict /\ (\A d \in Channels : Due(d)) => (\A d \in Channels : Due(d))'
<1>1. next[c] \in Items /\ next[c] \in Elems /\ next[c] # End
  BY Constants DEF Inv, TypeOK, Sends, Items, Elems
<1>2. next' \in [Channels -> 1 .. MaxItems + 1] /\ done' \in [Channels -> BOOLEAN]
  BY Constants DEF Inv, TypeOK, Sends
<1> QED BY <1>1, <1>2, PutKeeps DEF Sends

LEMMA SetDoneKeeps ==
  ASSUME Inv, NEW c \in Channels, SetDone(c)
  PROVE  /\ Inv' /\ \A d \in Channels : Keeps(d)
         /\ Strict /\ (\A d \in Channels : Due(d)) => (\A d \in Channels : Due(d))'
<1>0. TypeOK /\ Orderly(c) /\ EndLast(c)
  BY DEF Inv
<1>1. /\ ~done[c] /\ done' \in [Channels -> BOOLEAN] /\ done'[c] = TRUE
      /\ \A d \in Channels \ {c} : done'[d] = done[d]
      /\ UNCHANGED <<size, callbacks, reader, got, next>>
  BY <1>0 DEF TypeOK, SetDone
<1>2. CASE Callback(c) \in callbacks \/ Closed(c)
  <2>1. UNCHANGED queues
    BY <1>2 DEF SetDone
  <2>2. TypeOK'
    BY <1>0, <1>1, <2>1 DEF TypeOK, queues
  <2>3. Orderly(c)' /\ EndLast(c)'
    BY <1>0, <1>1, <2>1 DEF Orderly, EndLast, Whole, Closed, queues
  <2>4. Keeps(c)
    BY <1>1, <2>1 DEF Keeps, Still, Line, Settled, Open, Closed, queues
  <2>5. Due(c) => Due(c)'
    BY <1>1, <1>2 DEF Due, Closed, Reading
  <2>6. \A d \in Channels \ {c} :
          /\ hand'[d] = hand[d] /\ buffer'[d] = buffer[d] /\ sending'[d] = sending[d]
          /\ reader'[d] = reader[d] /\ done'[d] = done[d] /\ got'[d] = got[d]
          /\ Callback(d) \in callbacks' <=> Callback(d) \in callbacks
    BY <1>1, <2>1 DEF queues
  <2> QED BY <1>1, <2>2, <2>3, <2>4, <2>5, <2>6, Others
<1>3. CASE ~(Callback(c) \in callbacks \/ Closed(c))
  <2>1. Put(c, End)
    BY <1>3 DEF SetDone
  <2>2. next' \in [Channels -> 1 .. MaxItems + 1] /\ End \in Elems
    BY <1>0, <1>1, Constants DEF TypeOK
  <2> QED BY <1>1, <1>3, <2>1, <2>2, PutKeeps
<1> QED BY <1>2, <1>3

LEMMA GivesUpKeeps ==
  ASSUME Inv, NEW c \in Channels, GivesUp(c)
  PROVE  /\ Inv' /\ \A d \in Channels : Keeps(d)
         /\ Strict /\ (\A d \in Channels : Due(d)) => (\A d \in Channels : Due(d))'
<1>0. TypeOK /\ Orderly(c) /\ EndLast(c)
  BY DEF Inv
<1>1. PICK i \in 1 .. Len(sending[c]) :
        (sending[c][i] = End => MarkerTimesOut) /\ sending' = [sending EXCEPT ![c] = RemoveAt(@, i)]
  BY DEF GivesUp
<1>2. UNCHANGED <<size, callbacks, done, buffer, hand, reader, got, next>>
  BY DEF GivesUp
<1>3. /\ QueueTypes' /\ Orderly(c)' /\ Told(c)' = Told(c)
      /\ Told(c) + i \in Told(c) + 1 .. Len(Whole(c))
      /\ Told(c) + i \in 1 .. Len(Whole(c))
      /\ Whole(c)' = RemoveAt(Whole(c), Told(c) + i)
      /\ Whole(c)[Told(c) + i] = sending[c][i]
      /\ \A d \in Channels \ {c} : hand'[d] = hand[d] /\ buffer'[d] = buffer[d] /\ sending'[d] = sending[d]
  BY <1>0, <1>1, <1>2, GivesUpLine
<1>4. TypeOK'
  BY <1>0, <1>2, <1>3 DEF TypeOK, QueueTypes, Elems
<1> DEFINE q == Whole(c)  n == Told(c) + i
<1>5. q \in Seq(Elems) /\ n \in 1 .. Len(q) /\ (~Closed(c) => Tidy(q)) /\ q # <<>>
  <2>1. q \in Seq(Elems) /\ n \in 1 .. Len(q)
    BY <1>0, <1>3, Parts
  <2>2. ~Closed(c) => Tidy(q)
    BY <1>0 DEF EndLast, Tidy
  <2>3. q # <<>>
    <3> HIDE DEF q, n
    <3> SUFFICES ASSUME q = <<>> PROVE FALSE
      OBVIOUS
    <3>1. Len(q) = 0
      BY EmptySeq
    <3> QED BY <2>1, <3>1
  <2> QED BY <2>1, <2>2, <2>3
<1>6. ~Closed(c) => /\ Tidy(RemoveAt(q, n)) /\ Range(RemoveAt(q, n)) \subseteq Range(q)
                    /\ q[n] # End /\ End \in Range(q) => End \in Range(RemoveAt(q, n))
  <2> HIDE DEF q, n
  <2> QED BY <1>5, TidyRemoved
<1>7. EndLast(c)'
  BY <1>0, <1>2, <1>3, <1>5, <1>6 DEF EndLast, Tidy, Closed
<1>8. Keeps(c)
  <2>1. CASE Closed(c)
    <3>1. Closed(c)'
      BY <1>2, <2>1 DEF Closed
    <3>2. Line(c) = <<>> /\ Settled(c) = 0 /\ Line(c)' = <<>> /\ Settled(c)' = 0
      BY <2>1, <3>1 DEF Line, Settled
    <3>3. Open(c)' = Open(c)
      BY <1>2 DEF Open
    <3> QED BY <1>2, <3>2, <3>3 DEF Keeps, Still
  <2>2. CASE ~Closed(c)
    <3>1. /\ Line(c) = Whole(c) /\ Settled(c) = Told(c) /\ Line(c)' = Whole(c)' /\ Settled(c)' = Told(c)'
          /\ Open(c)' = Open(c)
      BY <1>2, <2>2 DEF Open, Closed, Line, Settled, Whole, Told
    <3>2. Withdrawn(c)
      BY <1>2, <1>3, <3>1 DEF Withdrawn
    <3> QED BY <3>2 DEF Keeps
  <2> QED BY <2>1, <2>2
<1>9. Strict /\ Due(c) => Due(c)'
  BY <1>1, <1>2, <1>3, <1>6 DEF Strict, Due, Reading, Closed
<1>10. \A d \in Channels \ {c} :
         /\ hand'[d] = hand[d] /\ buffer'[d] = buffer[d] /\ sending'[d] = sending[d]
         /\ reader'[d] = reader[d] /\ done'[d] = done[d] /\ got'[d] = got[d]
         /\ Callback(d) \in callbacks' <=> Callback(d) \in callbacks
  BY <1>2, <1>3
<1> QED BY <1>2, <1>3, <1>4, <1>7, <1>8, <1>9, <1>10, Others

(* A generator that is fetched, dropped or left takes nothing. *)
LEMMA PhaseKeeps ==
  ASSUME Inv, NEW c \in Channels, GetGenerator(c) \/ Drop(c) \/ Leave(c)
  PROVE  /\ Inv' /\ \A d \in Channels : Keeps(d)
         /\ Strict /\ (\A d \in Channels : Due(d)) => (\A d \in Channels : Due(d))'
<1>0. TypeOK /\ Orderly(c) /\ EndLast(c)
  BY DEF Inv
<1>1. PICK p \in {"created", "dropped", "leaving"} :
        /\ reader' = [reader EXCEPT ![c] = p]
        /\ p = "leaving" \/ reader[c] \in {"none", "created"}
        /\ reader[c] \in {"none", "created", "waiting", "body"}
        /\ p = "created" \/ reader[c] # "none"
        /\ p = "created" => reader[c] = "none" /\ (Strict => Callback(c) \notin callbacks)
  BY Zenon DEF GetGenerator, Drop, Leave, Strict
<1>2. UNCHANGED <<size, callbacks, done, buffer, sending, hand, got, next>>
  BY DEF GetGenerator, Drop, Leave, queues
<1>3. reader'[c] = p /\ \A d \in Channels \ {c} : reader'[d] = reader[d]
  BY <1>0, <1>1 DEF TypeOK
<1>4. TypeOK'
  <2>1. reader' \in [Channels -> Phases]
    BY <1>0, <1>1 DEF TypeOK, Phases, Reading
  <2> QED BY <1>0, <1>2, <2>1 DEF TypeOK
<1>5. Orderly(c)' /\ EndLast(c)'
  BY <1>0, <1>1, <1>2, <1>3 DEF Orderly, EndLast, Whole, Closed
<1>6. Keeps(c)
  BY <1>1, <1>2, <1>3 DEF Keeps, Still, Line, Settled, Open, Closed
<1>7. Strict /\ Due(c) => Due(c)'
  BY <1>1, <1>2, <1>3 DEF Due, Reading, Whole
<1>8. \A d \in Channels \ {c} :
        /\ hand'[d] = hand[d] /\ buffer'[d] = buffer[d] /\ sending'[d] = sending[d]
        /\ reader'[d] = reader[d] /\ done'[d] = done[d] /\ got'[d] = got[d]
        /\ Callback(d) \in callbacks' <=> Callback(d) \in callbacks
  BY <1>2, <1>3
<1> QED BY <1>2, <1>4, <1>5, <1>6, <1>7, <1>8, Others

(* A reader receives the first of the line. *)
LEMMA ReceivesKeeps ==
  ASSUME Inv, NEW c \in Channels, reader[c] \in Reading,
         QueueTypes', sending'[c] # <<>> => Len(buffer'[c]) = size', hand'[c] = <<>>,
         Whole(c) # <<>>, Whole(c)' = Tail(Whole(c)),
         Told(c)' + 1 >= Told(c), Told(c)' <= Len(Whole(c)'),
         \A d \in Channels \ {c} : hand'[d] = hand[d] /\ buffer'[d] = buffer[d] /\ sending'[d] = sending[d],
         Receives(c, Head(Whole(c))), UNCHANGED <<size, callbacks, done, next>>
  PROVE  /\ Inv' /\ \A d \in Channels : Keeps(d)
         /\ Strict /\ (\A d \in Channels : Due(d)) => (\A d \in Channels : Due(d))'
<1>0. TypeOK /\ Orderly(c) /\ EndLast(c)
  BY DEF Inv
<1> DEFINE q == Whole(c)  x == Head(q)
<1>1. q \in Seq(Elems) /\ q # <<>> /\ Tidy(q) /\ (End \in Range(q) => done[c])
  BY <1>0, Parts DEF EndLast, Tidy, Closed, Reading
<1>2. /\ Tidy(Tail(q)) /\ Range(Tail(q)) \subseteq Range(q)
      /\ x = End => q = <<End>> /\ Tail(q) = <<>>
      /\ x # End /\ End \in Range(q) => End \in Range(Tail(q))
  <2> HIDE DEF q
  <2> QED BY <1>1, TidyTail
<1>3. x \in Elems /\ (x = End => done[c])
  <2> HIDE DEF q
  <2>1. x \in Elems /\ x = q[1] /\ 1 \in DOMAIN q
    <3>1. Len(q) \in Nat \ {0} /\ DOMAIN q = 1 .. Len(q)
      BY <1>1, EmptySeq
    <3>2. x \in Elems /\ x = q[1]
      BY <1>1, HeadTailProperties
    <3> QED BY <3>1, <3>2
  <2> QED BY <1>1, <2>1 DEF Range, x
<1>4. /\ reader'[c] = (IF x = End THEN "ending" ELSE "body")
      /\ got'[c] = (IF x = End THEN got[c] ELSE Append(got[c], x))
      /\ \A d \in Channels \ {c} : reader'[d] = reader[d] /\ got'[d] = got[d]
      /\ reader' \in [Channels -> Phases] /\ got' \in [Channels -> Seq(Items)]
  <2>1. reader \in [Channels -> Phases] /\ got \in [Channels -> Seq(Items)]
    BY <1>0 DEF TypeOK
  <2>2. /\ reader' = [reader EXCEPT ![c] = IF x = End THEN "ending" ELSE "body"]
        /\ got' = [got EXCEPT ![c] = IF x = End THEN @ ELSE Append(@, x)]
    BY DEF Receives
  <2> HIDE DEF x
  <2>3. x # End => Append(got[c], x) \in Seq(Items)
    <3> SUFFICES ASSUME x # End PROVE Append(got[c], x) \in Seq(Items)
      OBVIOUS
    <3>1. x \in Items /\ got[c] \in Seq(Items)
      BY <1>3, <2>1 DEF Elems
    <3> QED BY <3>1, AppendProperties
  <2>4. reader' \in [Channels -> Phases]
    BY <2>1, <2>2 DEF Phases, Reading
  <2>5. got' \in [Channels -> Seq(Items)]
    BY <2>1, <2>2, <2>3
  <2> QED BY <2>1, <2>2, <2>4, <2>5
<1>5. TypeOK'
  BY <1>0, <1>4 DEF TypeOK, QueueTypes, Elems
<1>6. Orderly(c)'
  BY <1>4 DEF Orderly
<1>7. EndLast(c)'
  <2>1. ~Closed(c)' /\ (End \in Range(Whole(c)') => done'[c])
    BY <1>1, <1>2, <1>4 DEF Closed
  <2>2. \A i \in 1 .. Len(Whole(c)') : Whole(c)'[i] = End => i = Len(Whole(c)')
    BY <1>2 DEF Tidy
  <2>3. reader'[c] = "ending" => done'[c] /\ Whole(c)' = <<>>
    BY <1>2, <1>3, <1>4
  <2> QED BY <2>1, <2>2, <2>3 DEF EndLast
<1>8. Keeps(c)
  <2>1. /\ Line(c) = q /\ Settled(c) = Told(c) /\ Open(c) /\ Line(c)' = Tail(q) /\ Settled(c)' = Told(c)'
        /\ Open(c)' = (x # End)
    BY <1>4 DEF Line, Settled, Open, Closed, Whole, Told, Reading
  <2>2. CASE x = End
    <3>1. Line(c)' = <<>> /\ ~Open(c)' /\ got'[c] = got[c]
      BY <1>2, <1>4, <2>1, <2>2
    <3>2. Settled(c)' = 0
      <4>1. Told(c)' \in Nat /\ Told(c)' <= 0
        <5>1. (Told(c) \in Nat)'
          BY <1>5, Parts DEF Told
        <5>2. Len(Whole(c)') = 0
          BY <1>2, <2>2, EmptySeq
        <5> QED BY <5>1, <5>2
      <4> QED BY <2>1, <4>1
    <3> QED BY <2>1, <3>1, <3>2 DEF Keeps, Finished
  <2>3. CASE x # End
    BY <1>1, <1>4, <2>1, <2>3 DEF Keeps, Delivered
  <2> QED BY <2>2, <2>3
<1>9. Due(c) => Due(c)'
  BY <1>2, <1>4 DEF Due, Reading
<1>10. \A d \in Channels \ {c} :
         /\ hand'[d] = hand[d] /\ buffer'[d] = buffer[d] /\ sending'[d] = sending[d]
         /\ reader'[d] = reader[d] /\ done'[d] = done[d] /\ got'[d] = got[d]
         /\ Callback(d) \in callbacks' <=> Callback(d) \in callbacks
  BY <1>4
<1> QED BY <1>5, <1>6, <1>7, <1>8, <1>9, <1>10, Others

LEMMA ReadKeeps ==
  ASSUME Inv, NEW c \in Channels, Read(c)
  PROVE  /\ Inv' /\ \A d \in Channels : Keeps(d)
         /\ Strict /\ (\A d \in Channels : Due(d)) => (\A d \in Channels : Due(d))'
<1>0. TypeOK /\ Orderly(c) /\ EndLast(c)
  BY DEF Inv
<1>1. /\ reader[c] \in {"created", "body"} /\ hand[c] = <<>>
      /\ UNCHANGED <<size, callbacks, done, next>>
  BY <1>0 DEF Read, Orderly
<1>2. CASE Filled(c) = <<>>
  <2>1. reader' = [reader EXCEPT ![c] = "waiting"] /\ UNCHANGED <<buffer, sending, hand, got>>
    BY <1>2 DEF Read, queues
  <2>2. reader'[c] = "waiting" /\ \A d \in Channels \ {c} : reader'[d] = reader[d]
    BY <1>0, <2>1 DEF TypeOK
  <2>3. buffer[c] = <<>> /\ sending[c] = <<>>
    <3>1. sending[c] = <<>>
      <4> SUFFICES ASSUME sending[c] # <<>> PROVE FALSE
        OBVIOUS
      <4> DEFINE b == buffer[c]  y == Head(sending[c])
      <4>1. Append(b, y) = <<>> /\ b \in Seq(Elems) /\ y \in Elems
        BY <1>0, <1>2, Parts, HeadTailProperties DEF Filled
      <4> HIDE DEF b, y
      <4>2. Append(b, y) # <<>>
        BY <4>1, AppendProperties
      <4> QED BY <4>1, <4>2
    <3> QED BY <1>2, <3>1 DEF Filled
  <2>4. TypeOK'
    <3>1. reader' \in [Channels -> Phases]
      BY <1>0, <2>1 DEF TypeOK, Phases, Reading
    <3> QED BY <1>0, <1>1, <2>1, <3>1 DEF TypeOK
  <2>5. Orderly(c)' /\ EndLast(c)'
    BY <1>0, <1>1, <2>1, <2>2, <2>3 DEF Orderly, EndLast, Whole, Closed
  <2>6. Keeps(c)
    BY <1>1, <2>1, <2>2 DEF Keeps, Still, Line, Settled, Open, Closed
  <2>7. Due(c) => Due(c)'
    BY <1>1, <2>1, <2>2 DEF Due, Reading, Whole
  <2>8. \A d \in Channels \ {c} :
          /\ hand'[d] = hand[d] /\ buffer'[d] = buffer[d] /\ sending'[d] = sending[d]
          /\ reader'[d] = reader[d] /\ done'[d] = done[d] /\ got'[d] = got[d]
          /\ Callback(d) \in callbacks' <=> Callback(d) \in callbacks
    BY <1>1, <2>1, <2>2
  <2> QED BY <1>1, <2>4, <2>5, <2>6, <2>7, <2>8, Others
<1>3. CASE Filled(c) # <<>>
  <2>1. Shift(c) /\ Receives(c, Head(Filled(c)))
    BY <1>3 DEF Read
  <2>2. /\ QueueTypes' /\ hand' = hand
        /\ sending'[c] # <<>> => Len(buffer'[c]) = size'
        /\ Whole(c) # <<>> /\ Head(Whole(c)) = Head(Filled(c)) /\ Whole(c)' = Tail(Whole(c))
        /\ Told(c)' + 1 >= Told(c) /\ Told(c)' <= Len(Whole(c)')
        /\ \A d \in Channels \ {c} : hand'[d] = hand[d] /\ buffer'[d] = buffer[d] /\ sending'[d] = sending[d]
    BY <1>0, <1>1, <1>3, <2>1, ShiftLine
  <2> QED BY <1>1, <2>1, <2>2, ReceivesKeeps DEF Reading
<1> QED BY <1>2, <1>3

LEMMA WokenKeeps ==
  ASSUME Inv, NEW c \in Channels, Woken(c)
  PROVE  /\ Inv' /\ \A d \in Channels : Keeps(d)
         /\ Strict /\ (\A d \in Channels : Due(d)) => (\A d \in Channels : Due(d))'
<1>0. TypeOK /\ Orderly(c) /\ EndLast(c)
  BY DEF Inv
<1>1. /\ reader[c] = "waiting" /\ hand[c] # <<>> /\ hand' = [hand EXCEPT ![c] = <<>>]
      /\ Receives(c, Head(hand[c])) /\ UNCHANGED <<size, callbacks, done, buffer, sending, next>>
  BY DEF Woken
<1>2. /\ QueueTypes'
      /\ Whole(c) # <<>> /\ Head(Whole(c)) = Head(hand[c]) /\ Whole(c)' = Tail(Whole(c))
      /\ Told(c)' + 1 >= Told(c) /\ Told(c)' <= Len(Whole(c)')
      /\ \A d \in Channels \ {c} : hand'[d] = hand[d] /\ buffer'[d] = buffer[d] /\ sending'[d] = sending[d]
  BY <1>0, <1>1, WokenLine
<1>3. hand'[c] = <<>> /\ (sending'[c] # <<>> => Len(buffer'[c]) = size')
  BY <1>0, <1>1 DEF TypeOK, Orderly
<1> QED BY <1>1, <1>2, <1>3, ReceivesKeeps DEF Reading

LEMMA CloseKeeps ==
  ASSUME Inv, NEW c \in Channels, Close(c)
  PROVE  /\ Inv' /\ \A d \in Channels : Keeps(d)
         /\ Strict /\ (\A d \in Channels : Due(d)) => (\A d \in Channels : Due(d))'
<1>0. TypeOK /\ Orderly(c) /\ EndLast(c)
  BY DEF Inv
<1>1. /\ reader[c] \in {"ending", "leaving"}
      /\ reader' = [reader EXCEPT ![c] = IF @ = "ending" THEN "ended" ELSE "left"]
      /\ done' = IF c = "response" THEN [done EXCEPT ![c] = TRUE] ELSE done
      /\ sending' = [sending EXCEPT ![c] = <<>>] /\ hand' = [hand EXCEPT ![c] = <<>>]
      /\ UNCHANGED <<size, callbacks, buffer, got, next>>
  BY DEF Close
<1>2. /\ reader'[c] \in {"ended", "left"} /\ sending'[c] = <<>> /\ hand'[c] = <<>>
      /\ \A d \in Channels \ {c} :
           reader'[d] = reader[d] /\ sending'[d] = sending[d] /\ hand'[d] = hand[d] /\ done'[d] = done[d]
  BY <1>0, <1>1 DEF TypeOK
<1>3. TypeOK'
  <2>1. <<>> \in Seq(Elems) /\ Len(<<>>) = 0
    BY EmptySeq
  <2>2. reader' \in [Channels -> Phases] /\ done' \in [Channels -> BOOLEAN]
    BY <1>0, <1>1 DEF TypeOK, Phases
  <2>3. sending' \in [Channels -> Seq(Elems)] /\ hand' \in [Channels -> Seq(Elems)]
    BY <1>0, <1>1, <2>1 DEF TypeOK, Elems
  <2>4. ASSUME NEW d \in Channels PROVE Len(hand'[d]) <= 1
    <3>1. CASE d = c
      <4> DEFINE l == Len(<<>>)
      <4>1. hand'[d] = <<>> /\ l = 0
        BY <1>2, <2>1, <3>1
      <4>2. Len(hand'[d]) = l
        BY <4>1
      <4> HIDE DEF l
      <4> QED BY <4>1, <4>2
    <3>2. CASE d # c
      BY <1>0, <1>2, <3>2 DEF TypeOK
    <3> QED BY <3>1, <3>2
  <2> QED BY <1>0, <1>1, <2>2, <2>3, <2>4 DEF TypeOK, Elems
<1>4. Orderly(c)' /\ EndLast(c)'
  BY <1>2 DEF Orderly, EndLast, Closed
<1>5. Keeps(c)
  <2>1. Line(c)' = <<>> /\ Settled(c)' = 0 /\ ~Open(c)' /\ got'[c] = got[c]
    BY <1>1, <1>2 DEF Line, Settled, Open, Closed
  <2>2. CASE reader[c] = "ending"
    <3>1. Line(c) = <<>> /\ Settled(c) = Told(c) /\ ~Open(c) /\ Whole(c) = <<>>
      BY <1>0, <2>2 DEF EndLast, Line, Settled, Open, Closed, Whole, Told
    <3>2. Told(c) = 0
      <4>1. /\ Len(Whole(c)) = Told(c) + Len(sending[c]) /\ Len(hand[c]) \in Nat
            /\ Len(buffer[c]) \in Nat /\ Len(sending[c]) \in Nat
        BY <1>0, Parts
      <4>2. Len(Whole(c)) = 0
        BY <3>1, EmptySeq
      <4> DEFINE k == Len(hand[c])  m == Len(buffer[c])  n == Len(sending[c])
      <4>3. 0 = Told(c) + n /\ Told(c) = k + m /\ k \in Nat /\ m \in Nat /\ n \in Nat
        BY <4>1, <4>2 DEF Told
      <4> HIDE DEF k, m, n
      <4> QED BY <4>3
    <3> QED BY <2>1, <3>1, <3>2 DEF Keeps, Still, Open
  <2>3. CASE reader[c] = "leaving"
    <3>1. Open(c)
      BY <2>3 DEF Open
    <3> QED BY <2>1, <3>1 DEF Keeps, Finished
  <2> QED BY <1>1, <2>2, <2>3
<1>6. Due(c) => Due(c)'
  BY <1>1, <1>2 DEF Due, Reading
<1>7. \A d \in Channels \ {c} :
        /\ hand'[d] = hand[d] /\ buffer'[d] = buffer[d] /\ sending'[d] = sending[d]
        /\ reader'[d] = reader[d] /\ done'[d] = done[d] /\ got'[d] = got[d]
        /\ Callback(d) \in callbacks' <=> Callback(d) \in callbacks
  BY <1>1, <1>2
<1> QED BY <1>1, <1>3, <1>4, <1>5, <1>6, <1>7, Others

LEMMA SetCallbackKeeps ==
  ASSUME Inv, NEW c \in Channels, SetCallback(c)
  PROVE  /\ Inv' /\ \A d \in Channels : Keeps(d)
         /\ Strict /\ (\A d \in Channels : Due(d)) => (\A d \in Channels : Due(d))'
<1>0. TypeOK /\ Orderly(c) /\ EndLast(c)
  BY DEF Inv
<1>1. /\ callbacks' = callbacks \cup {Callback(c)}
      /\ UNCHANGED <<size, done, buffer, sending, hand, reader, got, next>>
      /\ Strict => reader[c] = "none"
  BY DEF SetCallback, queues, Strict
<1>2. TypeOK'
  BY <1>0, <1>1 DEF TypeOK, Callback
<1>3. Orderly(c)' /\ EndLast(c)'
  BY <1>0, <1>1 DEF Orderly, EndLast, Whole, Closed
<1>4. Keeps(c)
  BY <1>1 DEF Keeps, Still, Line, Settled, Open, Closed
<1>5. Strict /\ Due(c) => Due(c)'
  BY <1>1 DEF Due
<1>6. \A d \in Channels \ {c} :
        /\ hand'[d] = hand[d] /\ buffer'[d] = buffer[d] /\ sending'[d] = sending[d]
        /\ reader'[d] = reader[d] /\ done'[d] = done[d] /\ got'[d] = got[d]
        /\ Callback(d) \in callbacks' <=> Callback(d) \in callbacks
  BY <1>1 DEF Callback, Channels
<1> QED BY <1>1, <1>2, <1>3, <1>4, <1>5, <1>6, Others

LEMMA ResponsesKept ==
  ASSUME Keeps("response") PROVE [Responses!Next]_(Responses!vars)
<1>1. CASE Still("response")
  BY <1>1 DEF Still, Responses!vars
<1>2. ASSUME NEW x, Sent("response", x) PROVE Responses!Next
  <2>1. CASE x = End
    BY <1>2, <2>1 DEF Sent, Settles, Responses!Next, Responses!Finish, Responses!Ended, Responses!Settles, Responses!Range, Range
  <2>2. CASE x \in Items
    BY <1>2, <2>2 DEF Sent, Settles, Responses!Next, Responses!Send, Responses!Ended, Responses!Settles, Responses!Range, Range
  <2> QED BY <1>2, <2>1, <2>2 DEF Sent, Elems
<1>3. CASE Withdrawn("response")
  BY <1>3 DEF Withdrawn, Responses!Next, Responses!Withdraw, Responses!RemoveAt, RemoveAt
<1>4. CASE Delivered("response")
  BY <1>4 DEF Delivered, Responses!Next, Responses!Deliver
<1>5. CASE Finished("response")
  BY <1>5 DEF Finished, Open, Responses!Next, Responses!Leave
<1> QED BY <1>1, <1>2, <1>3, <1>4, <1>5 DEF Keeps

LEMMA InputsKept ==
  ASSUME Keeps("input") PROVE [Inputs!Next]_(Inputs!vars)
<1>1. CASE Still("input")
  BY <1>1 DEF Still, Inputs!vars
<1>2. ASSUME NEW x, Sent("input", x) PROVE Inputs!Next
  <2>1. CASE x = End
    BY <1>2, <2>1 DEF Sent, Settles, Inputs!Next, Inputs!Finish, Inputs!Ended, Inputs!Settles, Inputs!Range, Range
  <2>2. CASE x \in Items
    BY <1>2, <2>2 DEF Sent, Settles, Inputs!Next, Inputs!Send, Inputs!Ended, Inputs!Settles, Inputs!Range, Range
  <2> QED BY <1>2, <2>1, <2>2 DEF Sent, Elems
<1>3. CASE Withdrawn("input")
  BY <1>3 DEF Withdrawn, Inputs!Next, Inputs!Withdraw, Inputs!RemoveAt, RemoveAt
<1>4. CASE Delivered("input")
  BY <1>4 DEF Delivered, Inputs!Next, Inputs!Deliver
<1>5. CASE Finished("input")
  BY <1>5 DEF Finished, Open, Inputs!Next, Inputs!Leave
<1> QED BY <1>1, <1>2, <1>3, <1>4, <1>5 DEF Keeps

-----------------------------------------------------------------------------
(* The theorems *)

LEMMA InitKeeps == Init => Inv /\ \A c \in Channels : Due(c)
<1> SUFFICES ASSUME Init PROVE Inv /\ \A c \in Channels : Due(c)
  OBVIOUS
<1>1. <<>> \in Seq(Elems) /\ <<>> \in Seq(Items) /\ Len(<<>>) = 0 /\ <<>> \o <<>> = <<>>
  BY EmptySeq, ConcatEmptySeq
<1>2. ASSUME NEW c \in Channels
      PROVE  /\ hand[c] = <<>> /\ buffer[c] = <<>> /\ sending[c] = <<>> /\ got[c] = <<>>
             /\ reader[c] = "none" /\ done[c] = FALSE /\ next[c] = 1 /\ Whole(c) = <<>>
  BY <1>1 DEF Init, Whole
<1>3. TypeOK
  <2>1. {buffer, sending, hand} \subseteq [Channels -> Seq(Elems)] /\ got \in [Channels -> Seq(Items)]
    BY <1>1 DEF Init
  <2>2. next \in [Channels -> 1 .. MaxItems + 1] /\ size \in Nat
    BY Constants DEF Init
  <2>3. \A c \in Channels : Len(buffer[c]) <= size /\ Len(hand[c]) <= 1
    <3> DEFINE l == Len(<<>>)
    <3>1. l = 0 /\ \A c \in Channels : Len(buffer[c]) = l /\ Len(hand[c]) = l
      BY <1>1, <1>2
    <3> HIDE DEF l
    <3> QED BY <2>2, <3>1
  <2> QED BY <2>1, <2>2, <2>3 DEF Init, TypeOK, Elems, Phases
<1>4. \A c \in Channels : Orderly(c) /\ EndLast(c) /\ Due(c)
  <2> SUFFICES ASSUME NEW c \in Channels PROVE Orderly(c) /\ EndLast(c) /\ Due(c)
    OBVIOUS
  <2>1. \A i \in 1 .. Len(Whole(c)) : FALSE
    <3> DEFINE l == Len(Whole(c))
    <3>1. l = 0
      BY <1>1, <1>2
    <3> HIDE DEF l
    <3>2. \A i \in 1 .. l : FALSE
      BY <3>1
    <3> QED BY <3>2 DEF l
  <2>2. End \notin Range(Whole(c))
    <3> DEFINE q == Whole(c)
    <3>1. q \in Seq(Elems)
      BY <1>1, <1>2
    <3> HIDE DEF q
    <3>2. DOMAIN q = 1 .. Len(q)
      BY <3>1
    <3> QED BY <2>1, <3>2 DEF Range, q
  <2> QED BY <1>2, <2>1, <2>2 DEF Orderly, EndLast, Due
<1> QED BY <1>3, <1>4 DEF Inv

LEMMA StepKeeps ==
  ASSUME Inv, [Next]_vars
  PROVE  /\ Inv' /\ \A d \in Channels : Keeps(d)
         /\ Strict /\ (\A d \in Channels : Due(d)) => (\A d \in Channels : Due(d))'
<1>1. CASE YieldResponse \/ PushObject
  <2>1. Sends("response")
    BY <1>1 DEF YieldResponse, PushObject
  <2> QED BY <2>1, SendsKeeps DEF Channels
<1>2. CASE SendToProducer
  BY <1>2, SendsKeeps DEF SendToProducer, Channels
<1>3. ASSUME NEW c \in Channels,
             \/ SetDone(c) \/ GivesUp(c) \/ SetCallback(c)
             \/ GetGenerator(c) \/ Drop(c) \/ Read(c) \/ Woken(c) \/ Leave(c) \/ Close(c)
      PROVE  /\ Inv' /\ \A d \in Channels : Keeps(d)
             /\ Strict /\ (\A d \in Channels : Due(d)) => (\A d \in Channels : Due(d))'
  BY <1>3, SetDoneKeeps, GivesUpKeeps, SetCallbackKeeps, PhaseKeeps, ReadKeeps, WokenKeeps, CloseKeeps, Zenon
<1>4. CASE UNCHANGED vars
  <2>1. UNCHANGED <<size, callbacks, done, buffer, sending, hand, reader, got, next>>
    BY <1>4 DEF vars, queues
  <2>2. Inv'
    BY <2>1 DEF Inv, TypeOK, Orderly, EndLast, Whole, Closed
  <2>3. \A d \in Channels : Keeps(d)
    BY <2>1 DEF Keeps, Still, Line, Settled, Open, Closed
  <2>4. (\A d \in Channels : Due(d)) => (\A d \in Channels : Due(d))'
    BY <2>1 DEF Due, Whole
  <2> QED BY <2>2, <2>3, <2>4
<1> QED BY <1>1, <1>2, <1>3, <1>4 DEF Next

LEMMA InvHolds == Spec => []Inv
<1>1. Init => Inv
  BY InitKeeps
<1>2. Inv /\ [Next]_vars => Inv'
  BY StepKeeps
<1> QED BY <1>1, <1>2, PTL DEF Spec

(* The queues hold items and end markers, never more than their capacity;  *)
(* streaming.py 205-226.                                                   *)
THEOREM TypeCorrect == Spec => []TypeOK
<1>1. Inv => TypeOK
  BY DEF Inv
<1> QED BY <1>1, InvHolds, PTL

(* Each channel is a FifoChannel: what the consumer has had is what was    *)
(* sent, in order and each once, what a sender was told is sent stays in   *)
(* the line until the reader has it or leaves, and the end is the last.    *)
THEOREM InOrder == Spec => InOrderToTheEnd
<1>1. Init => Responses!Init /\ Inputs!Init
  <2> SUFFICES ASSUME Init PROVE Responses!Init /\ Inputs!Init
    OBVIOUS
  <2>1. <<>> \o <<>> = <<>> /\ Len(<<>>) = 0
    BY EmptySeq, ConcatEmptySeq
  <2>2. ASSUME NEW c \in Channels PROVE Line(c) = <<>> /\ Settled(c) = 0 /\ got[c] = <<>> /\ Open(c) = TRUE
    <3>1. hand[c] = <<>> /\ buffer[c] = <<>> /\ sending[c] = <<>> /\ got[c] = <<>> /\ reader[c] = "none"
      BY DEF Init
    <3>2. Settled(c) = Len(<<>>) + Len(<<>>)
      BY <3>1 DEF Settled, Closed
    <3>3. Settled(c) = 0
      <4> DEFINE l == Len(<<>>)
      <4>1. l = 0 /\ Settled(c) = l + l
        BY <2>1, <3>2
      <4> HIDE DEF l
      <4> QED BY <4>1
    <3> QED BY <2>1, <3>1, <3>3 DEF Line, Closed, Open
  <2>3. "response" \in Channels /\ "input" \in Channels
    BY DEF Channels
  <2> QED BY <2>2, <2>3 DEF Responses!Init, Inputs!Init
<1>2. Inv /\ [Next]_vars => [Responses!Next]_(Responses!vars) /\ [Inputs!Next]_(Inputs!vars)
  <2> SUFFICES ASSUME Inv, [Next]_vars
               PROVE  [Responses!Next]_(Responses!vars) /\ [Inputs!Next]_(Inputs!vars)
    OBVIOUS
  <2>1. Keeps("response") /\ Keeps("input")
    BY StepKeeps DEF Channels
  <2> QED BY <2>1, ResponsesKept, InputsKept
<1> QED BY <1>1, <1>2, InvHolds, PTL DEF Spec, InOrderToTheEnd, Responses!Spec, Inputs!Spec

(* When a channel has been declared done, the end is in the line of its    *)
(* reader, provided that putting the marker does not time out and that no  *)
(* program mixes a callback with a reader.                                 *)
THEOREM EndOnTheWay ==
  ASSUME ~MarkerTimesOut, ~Mixes
  PROVE  Spec => []EndOnItsWay
<1> DEFINE Promised == \A c \in Channels : Due(c)
<1>1. Init => Promised
  BY InitKeeps
<1>2. Inv /\ Promised /\ [Next]_vars => Promised'
  BY StepKeeps DEF Strict
<1>3. Promised => EndOnItsWay
  <2> SUFFICES ASSUME Promised, NEW c \in Channels, done[c], reader[c] \in Reading
               PROVE  End \in Range(Line(c))
    BY DEF EndOnItsWay
  <2>1. End \in Range(Whole(c)) /\ ~Closed(c)
    BY DEF Due, Reading, Closed
  <2> QED BY <2>1, Seen
<1> QED BY <1>1, <1>2, <1>3, InvHolds, PTL DEF Spec
=============================================================================
