------------------------------ MODULE WeakCache ------------------------------
(***************************************************************************)
(* WeakValueLRUCache (weakcache.py), from which trigger_event takes its    *)
(* locks: an ordered dictionary of weak references, oldest entry first.    *)
(* get, put and expire hold a threading lock and are one step each.  The   *)
(* operations without that lock are called from one thread; an iteration   *)
(* over items is a step per element, since its consumer may do anything    *)
(* to the cache in between.                                                *)
(***************************************************************************)
EXTENDS Naturals, Sequences, SequencesExt, Functions, Selection

CONSTANTS
  Keys,
  Objects,     (* Values: a name is used again when its object is dead.    *)
  Falsy,       (* Those that are false as a condition.                     *)
  Capacities,
  Dead         (* What the weak reference to a dead object returns.        *)

ASSUME WeakCacheAssumption ==
  Falsy \subseteq Objects /\ Dead \notin Objects /\ Capacities \subseteq Nat

VARIABLES
  cache,       (* _cache: the entries, each a key and its object           *)
  capacity,    (* _capacity                                                *)
  loose,       (* _loose_mode                                              *)
  items,       (* the items() iterations that run: what is left of their   *)
               (* copy, at most one                                        *)
  broken,      (* whether such an iteration has failed                     *)
  uses,        (* what was put and is alive, in the order of its last use  *)
  modes        (* the modes the cache has been in                          *)

vars == <<cache, capacity, loose, items, broken, uses, modes>>

Entry == [key : Keys, obj : Objects \cup {Dead}]

KeysOf(s)    == {s[i].key : i \in DOMAIN s}
Omit(s, k)   == Only(s, {x \in Entry : x.key # k})
Alive(s)     == Only(s, {x \in Entry : x.obj # Dead})
At(s, k)     == CHOOSE x \in Range(s) : x.key = k
ToEnd(s, k)  == IF k \in KeysOf(s) THEN Append(Omit(s, k), At(s, k)) ELSE s
Leaving(s, o) == Only(s, {x \in Entry : x.obj # o})
Killed(s, o) == [i \in DOMAIN s |-> IF s[i].obj = o THEN [s[i] EXCEPT !.obj = Dead] ELSE s[i]]

Init ==
  /\ cache = <<>> /\ items = <<>> /\ uses = <<>> /\ broken = FALSE
  /\ capacity \in Capacities /\ loose \in BOOLEAN /\ modes = {loose}

-----------------------------------------------------------------------------
(* get: a dead entry is dropped, another becomes the most recent one.      *)
Get_keeping_place(k) ==   \* mutant: a hit does not renew the entry
  /\ k \in KeysOf(cache)
  /\ cache' = IF At(cache, k).obj = Dead THEN Omit(cache, k) ELSE cache
  /\ uses' = IF At(cache, k).obj = Dead THEN uses ELSE ToEnd(uses, k)
  /\ UNCHANGED <<capacity, loose, items, broken, modes>>

Get(k) ==
  /\ k \in KeysOf(cache)
  /\ cache' = IF At(cache, k).obj = Dead THEN Omit(cache, k) ELSE ToEnd(cache, k)
  /\ uses' = IF At(cache, k).obj = Dead THEN uses ELSE ToEnd(uses, k)
  /\ UNCHANGED <<capacity, loose, items, broken, modes>>

(* put.  A new key that does not fit makes room from the oldest entry on,  *)
(* looking at each entry once at most: loose mode moves what is alive to   *)
(* the end and drops the rest, strict mode drops whatever it meets.        *)
Excess(length) == IF length + 1 > capacity THEN length + 1 - capacity ELSE 0

SparesDead(x) == loose /\ x.obj \notin Falsy   \* mutant: does not ask whether it is alive

SparesNone(x) == FALSE   \* mutant: loose mode is not looked at

Spares(x) == loose /\ x.obj # Dead /\ x.obj \notin Falsy

Look(s) == IF Spares(Head(s)) THEN Append(Tail(s), Head(s)) ELSE Tail(s)

Room(s) ==
  LET after[n \in 0 .. Len(s)] ==
        IF n = 0 THEN s
        ELSE IF Len(s) - Len(after[n - 1]) >= Excess(Len(s)) THEN after[n - 1]
        ELSE Look(after[n - 1])
  IN  after[Len(s)]

Stored(k, o) ==
  Append(IF k \in KeysOf(cache) THEN Omit(cache, k) ELSE Room(cache), [key |-> k, obj |-> o])

Put(k, o) ==
  /\ cache' = Stored(k, o)
  /\ uses' = Append(Omit(uses, k), [key |-> k, obj |-> o])
  /\ UNCHANGED <<capacity, loose, items, broken, modes>>

(* expire: the dead among the n oldest; by default a fifth of the entries. *)
Expire(n) ==
  /\ cache' = Alive(SubSeq(cache, 1, n)) \o SubSeq(cache, n + 1, Len(cache))
  /\ UNCHANGED <<capacity, loose, items, broken, uses, modes>>

(* pop and del of one key, and clear.                                      *)
Forget(k) ==
  /\ k \in KeysOf(cache)
  /\ cache' = Omit(cache, k) /\ uses' = Omit(uses, k)
  /\ UNCHANGED <<capacity, loose, items, broken, modes>>

Clear ==
  /\ cache' = <<>> /\ uses' = <<>>
  /\ UNCHANGED <<capacity, loose, items, broken, modes>>

(* resize drops nothing by itself. *)
Resize(c) == capacity' = c /\ UNCHANGED <<cache, loose, items, broken, uses, modes>>

SetLoose ==
  /\ loose' = ~loose /\ modes' = {TRUE, FALSE}
  /\ UNCHANGED <<cache, capacity, items, broken, uses>>

(* The last strong reference to an object goes away.                       *)
Die(o) ==
  /\ \E x \in Range(cache) \cup Range(items) : x.obj = o
  /\ cache' = Killed(cache, o) /\ items' = Killed(items, o)
  /\ uses' = Leaving(uses, o)
  /\ UNCHANGED <<capacity, loose, broken, modes>>

-----------------------------------------------------------------------------
(* Iterations.  items() goes through a copy of the entries, drops the keys *)
(* that are dead now and yields what the copy has for the others.          *)
_cleanup_key_if_expired(k) ==
  cache' = IF k \in KeysOf(cache) /\ At(cache, k).obj = Dead THEN Omit(cache, k) ELSE cache

ItemsBegin ==
  /\ items = <<>> /\ cache # <<>>
  /\ items' = cache
  /\ UNCHANGED <<cache, capacity, loose, broken, uses, modes>>

ItemsNext ==
  /\ items # <<>>
  /\ LET x == Head(items) IN
     /\ _cleanup_key_if_expired(x.key)
     /\ IF x.key \in KeysOf(Alive(cache)) /\ x.obj = Dead
        THEN broken' = TRUE /\ items' = <<>>
        ELSE broken' = broken /\ items' = Tail(items)
  /\ UNCHANGED <<capacity, loose, uses, modes>>

(* One step of __iter__ and keys().                                        *)
IterNext(k) ==
  /\ _cleanup_key_if_expired(k)
  /\ UNCHANGED <<capacity, loose, items, broken, uses, modes>>

-----------------------------------------------------------------------------
Next ==
  \/ \E k \in Keys : Get(k) \/ Forget(k) \/ IterNext(k) \/ \E o \in Objects : Put(k, o)
  \/ \E n \in 1 .. Len(cache) : Expire(n)
  \/ \E o \in Objects : Die(o)
  \/ \E c \in Capacities : Resize(c)
  \/ Clear \/ SetLoose \/ ItemsBegin \/ ItemsNext

Spec == Init /\ [][Next]_vars

-----------------------------------------------------------------------------
TypeOK ==
  /\ cache \in Seq(Entry) /\ items \in Seq(Entry) /\ uses \in Seq(Entry)
  /\ capacity \in Capacities /\ {loose, broken} \subseteq BOOLEAN /\ modes \subseteq BOOLEAN
  /\ \A i, j \in DOMAIN cache : cache[i].key = cache[j].key => i = j

(* What the cache has for a key is what was last put under it, and a cache *)
(* that has always been loose has forgotten nothing that is in use, which  *)
(* is what makes it fit for a pool of locks.                               *)
HoldsLatest ==
  /\ Range(Alive(cache)) \subseteq Range(uses)
  /\ modes = {TRUE} => \A x \in Range(uses) : x.obj \notin Falsy => x \in Range(cache)

(* A cache that has always been strict has the most recently used of what  *)
(* is alive, in the order of use: what it has dropped alive was older than *)
(* everything it keeps.                                                    *)
RecentOnes == modes = {FALSE} => IsSuffix(Alive(cache), uses)

(* After a new key is put the cache is back within its capacity, though    *)
(* never without that key, or it is loose and everything in it is in use;  *)
(* and no more has been thrown out than the capacity asks for.             *)
Within(length) == length <= capacity \/ length = 1
FitsAgain ==
  [][KeysOf(cache') \ KeysOf(cache) # {} =>
       /\ Within(Len(cache')) \/ (loose /\ \A x \in Range(Front(cache')) : x.obj \notin Falsy \cup {Dead})
       /\ Len(cache') > Len(cache) \/ Len(cache') >= capacity]_vars

(* What items() yields is alive: the assertion in its loop holds.          *)
ItemsAlive == ~broken
=============================================================================
