--------------------------- MODULE ResponseStream ---------------------------
(***************************************************************************)
(* The two channels of a SuspendObjectStream (streaming.py): items from    *)
(* the producer to the consumer (yield_response, push_object) and back     *)
(* (send_to_producer), the end markers, the generators that read them, and *)
(* the callbacks that take the place of the first channel.                 *)
(*                                                                         *)
(* One step is the code between two awaits, on one event loop: the flag is *)
(* looked at and the item is put without an await in between.  The memory  *)
(* object stream of anyio is modelled from how it is used: who finds it    *)
(* full waits in line, who finds it empty is handed the next item, and     *)
(* closing the receiving end wakes who waits to send.                      *)
(***************************************************************************)
EXTENDS Naturals, Sequences, SequencesExt

CONSTANTS
  Sizes,          (* The values of queue_size.                             *)
  MaxItems,       (* Bound on the items put into each channel.             *)
  MarkerTimesOut, (* Whether putting an end marker may time out as well,   *)
                  (* or be cancelled.                                      *)
  Mixes           (* Whether a channel may have a callback and a reader.   *)

ASSUME ResponseStreamAssumption ==
  Sizes \subseteq Nat /\ MaxItems \in Nat /\ {MarkerTimesOut, Mixes} \subseteq BOOLEAN

Channels == {"response", "input"}
Items    == 1 .. MaxItems     (* Items are numbered in the order of the calls.    *)
End      == 0                 (* __eof_marker *)

(* "yield" is _callback_fun, "push" is _callback_fun_sending.  Each is the *)
(* one that the code looks at before it puts the end marker of a channel.  *)
Callback(c) == IF c = "response" THEN "yield" ELSE "push"

VARIABLES
  size,       (* queue_size                                                *)
  callbacks,  (* the callbacks that are set                                *)
  done,       (* done[c]: _queue_done, _peer_done                          *)
  buffer,     (* buffer[c]: what is in the memory object stream            *)
  sending,    (* sending[c]: what the calls that wait for room have        *)
  hand,       (* hand[c]: what has been handed to a waiting reader         *)
  reader,     (* reader[c]: the generator of the channel                   *)
  got,        (* got[c]: what it has yielded                               *)
  next        (* next[c]: number of the next item                          *)

queues == <<buffer, sending, hand>>
vars   == <<size, callbacks, done, queues, reader, got, next>>

(* A generator is "waiting" at its stream or has yielded to the "body" of  *)
(* its consumer; then its finally is due, after the end ("ending") or      *)
(* before ("leaving").  One that is thrown away unused has no finally.     *)
Reading == {"created", "waiting", "body"}
Phases  == Reading \cup {"none", "dropped", "ending", "leaving", "ended", "left"}

Init ==
  /\ size \in Sizes
  /\ callbacks \in SUBSET {"yield", "push"}
  /\ done = [c \in Channels |-> FALSE]
  /\ buffer = [c \in Channels |-> <<>>] /\ sending = buffer /\ hand = buffer /\ got = buffer
  /\ reader = [c \in Channels |-> "none"]
  /\ next = [c \in Channels |-> 1]

-----------------------------------------------------------------------------
(* The memory object stream *)

Closed(c) == reader[c] \in {"ended", "left"}

(* send(): handed to who waits, put into the buffer, or kept in line.      *)
Put(c, x) ==
  LET awaited == reader[c] = "waiting" /\ hand[c] = <<>>
  IN  \/ /\ awaited
         /\ hand' = [hand EXCEPT ![c] = <<x>>] /\ UNCHANGED <<buffer, sending>>
      \/ /\ ~awaited /\ Len(buffer[c]) < size
         /\ buffer' = [buffer EXCEPT ![c] = Append(@, x)] /\ UNCHANGED <<sending, hand>>
      \/ /\ ~awaited /\ Len(buffer[c]) >= size
         /\ sending' = [sending EXCEPT ![c] = Append(@, x)] /\ UNCHANGED <<buffer, hand>>

(* receive(): the first that waits in line moves up before one is taken.   *)
Filled(c) == IF sending[c] = <<>> THEN buffer[c] ELSE Append(buffer[c], Head(sending[c]))

Shift(c) ==
  /\ buffer' = [buffer EXCEPT ![c] = Tail(Filled(c))]
  /\ sending' = [sending EXCEPT ![c] = IF @ = <<>> THEN @ ELSE Tail(@)]
  /\ UNCHANGED hand

-----------------------------------------------------------------------------
(* Sending *)

(* Mutant: a channel that is done takes items. *)
SendsAfterTheEnd(c) ==
  /\ ~Closed(c)
  /\ next[c] <= MaxItems /\ next' = [next EXCEPT ![c] = @ + 1]
  /\ Put(c, next[c])
  /\ UNCHANGED <<size, callbacks, done, reader, got>>

(* The next item of a channel goes to its stream.  On a closed one send()  *)
(* raises, and so do the calls below on a channel that is done.            *)
Sends(c) ==
  /\ ~done[c] /\ ~Closed(c)
  /\ next[c] <= MaxItems /\ next' = [next EXCEPT ![c] = @ + 1]
  /\ Put(c, next[c])
  /\ UNCHANGED <<size, callbacks, done, reader, got>>

YieldResponse  == "yield" \notin callbacks /\ Sends("response")
PushObject     == "push" \notin callbacks /\ Sends("response")
SendToProducer == Sends("input")

(* Mutant: the marker is dropped at once when the queue is full. *)
SetDoneNoWait(c) ==
  /\ ~done[c] /\ done' = [done EXCEPT ![c] = TRUE]
  /\ IF Callback(c) \in callbacks \/ Closed(c) \/ Len(buffer[c]) = size
     THEN UNCHANGED queues ELSE Put(c, End)
  /\ UNCHANGED <<size, callbacks, reader, got, next>>

(* Mutant: no marker when either callback is set. *)
SetDoneAnyCallback(c) ==
  /\ ~done[c] /\ done' = [done EXCEPT ![c] = TRUE]
  /\ IF callbacks # {} \/ Closed(c) THEN UNCHANGED queues ELSE Put(c, End)
  /\ UNCHANGED <<size, callbacks, reader, got, next>>

(* set_queue_done, send_done_to_producer: a second call finds the flag.    *)
SetDone(c) ==
  /\ ~done[c] /\ done' = [done EXCEPT ![c] = TRUE]
  /\ IF Callback(c) \in callbacks \/ Closed(c) THEN UNCHANGED queues ELSE Put(c, End)
  /\ UNCHANGED <<size, callbacks, reader, got, next>>

(* A call that waits for room times out or is cancelled. *)
GivesUp(c) ==
  /\ \E i \in 1 .. Len(sending[c]) :
       /\ sending[c][i] = End => MarkerTimesOut
       /\ sending' = [sending EXCEPT ![c] = RemoveAt(@, i)]
  /\ UNCHANGED <<size, callbacks, done, buffer, hand, reader, got, next>>

-----------------------------------------------------------------------------
(* Reading *)

(* get_response_generator, get_producer_input_generator.  The second looks *)
(* at no callback; that a program does not mix the two is Mixes.           *)
GetGenerator(c) ==
  /\ reader[c] = "none"
  /\ c = "response" \/ ~Mixes => Callback(c) \notin callbacks
  /\ reader' = [reader EXCEPT ![c] = "created"]
  /\ UNCHANGED <<size, callbacks, done, queues, got, next>>

(* What was received is yielded, unless it is the marker. *)
Receives(c, x) ==
  /\ reader' = [reader EXCEPT ![c] = IF x = End THEN "ending" ELSE "body"]
  /\ got' = [got EXCEPT ![c] = IF x = End THEN @ ELSE Append(@, x)]

(* The consumer asks for the next item. *)
Read(c) ==
  /\ reader[c] \in {"created", "body"}
  /\ IF Filled(c) = <<>>
     THEN reader' = [reader EXCEPT ![c] = "waiting"] /\ UNCHANGED <<queues, got>>
     ELSE Shift(c) /\ Receives(c, Head(Filled(c)))
  /\ UNCHANGED <<size, callbacks, done, next>>

(* A reader that waited goes on with what it was handed. *)
Woken(c) ==
  /\ reader[c] = "waiting" /\ hand[c] # <<>>
  /\ Receives(c, Head(hand[c]))
  /\ hand' = [hand EXCEPT ![c] = <<>>]
  /\ UNCHANGED <<size, callbacks, done, buffer, sending, next>>

(* The consumer breaks off, or is cancelled.  The finally of the generator *)
(* runs later: it is finalised by the loop, or waits for the state lock.   *)
Leave(c) ==
  /\ reader[c] \in {"waiting", "body"}
  /\ reader' = [reader EXCEPT ![c] = "leaving"]
  /\ UNCHANGED <<size, callbacks, done, queues, got, next>>

(* Mutant: the stream is not closed. *)
CloseQuietly(c) ==
  /\ reader[c] \in {"ending", "leaving"}
  /\ reader' = [reader EXCEPT ![c] = IF @ = "ending" THEN "ended" ELSE "left"]
  /\ done' = IF c = "response" THEN [done EXCEPT ![c] = TRUE] ELSE done
  /\ UNCHANGED <<size, callbacks, queues, got, next>>

(* Only the generator of the responses declares its channel done. *)
Close(c) ==
  /\ reader[c] \in {"ending", "leaving"}
  /\ reader' = [reader EXCEPT ![c] = IF @ = "ending" THEN "ended" ELSE "left"]
  /\ done' = IF c = "response" THEN [done EXCEPT ![c] = TRUE] ELSE done
  /\ sending' = [sending EXCEPT ![c] = <<>>] /\ hand' = [hand EXCEPT ![c] = <<>>]
  /\ UNCHANGED <<size, callbacks, buffer, got, next>>

(* The consumer never iterates: a generator that has not started ends      *)
(* without its finally.                                                    *)
Drop(c) ==
  /\ reader[c] = "created"
  /\ reader' = [reader EXCEPT ![c] = "dropped"]
  /\ UNCHANGED <<size, callbacks, done, queues, got, next>>

-----------------------------------------------------------------------------
(* set_callback_func, set_callback_fun_sending: neither looks at readers.  *)
SetCallback(c) ==
  /\ Callback(c) \notin callbacks
  /\ ~Mixes => reader[c] = "none"
  /\ callbacks' = callbacks \cup {Callback(c)}
  /\ UNCHANGED <<size, done, queues, reader, got, next>>

Next ==
  \/ YieldResponse \/ PushObject \/ SendToProducer
  \/ \E c \in Channels :
       \/ SetDone(c) \/ GivesUp(c) \/ SetCallback(c)
       \/ GetGenerator(c) \/ Drop(c) \/ Read(c) \/ Woken(c) \/ Leave(c) \/ Close(c)

Spec == Init /\ [][Next]_vars

(* A consumer that iterates asks for the next item or leaves; a handed     *)
(* item and a finally that is due are the loop's business.                 *)
Fairness == \A c \in Channels : WF_vars(Read(c)) /\ WF_vars(Woken(c)) /\ WF_vars(Close(c))
FairSpec == Spec /\ Fairness

-----------------------------------------------------------------------------
(* Types, and the capacity of the queues. *)
TypeOK ==
  /\ size \in Sizes
  /\ callbacks \subseteq {"yield", "push"}
  /\ done \in [Channels -> BOOLEAN]
  /\ {buffer, sending, hand} \subseteq [Channels -> Seq(Items \cup {End})]
  /\ \A c \in Channels : Len(buffer[c]) <= size /\ Len(hand[c]) <= 1
  /\ reader \in [Channels -> Phases]
  /\ got \in [Channels -> Seq(Items)]
  /\ next \in [Channels -> 1 .. MaxItems + 1]

Line(c) == IF Closed(c) THEN <<>> ELSE hand[c] \o buffer[c] \o sending[c]

(* Each channel keeps the promise of FifoChannel.  What a sender is told   *)
(* is sent is what is in the hand of the reader or in the buffer.          *)
Settled(c) == IF Closed(c) THEN 0 ELSE Len(hand[c]) + Len(buffer[c])
Open(c)    == reader[c] \notin {"ending", "ended", "left"}

Responses == INSTANCE FifoChannel WITH line <- Line("response"), got <- got["response"],
               settled <- Settled("response"), open <- Open("response")
Inputs    == INSTANCE FifoChannel WITH line <- Line("input"), got <- got["input"],
               settled <- Settled("input"), open <- Open("input")

(* Items are read in the order of the calls, each once; none is lost that  *)
(* its sender believes sent, whoever times out, and the end comes last.    *)
InOrderToTheEnd == Responses!Spec /\ Inputs!Spec

(* When a channel has been declared done, its reader still gets the end.   *)
EndOnItsWay == \A c \in Channels :
  done[c] /\ reader[c] \in Reading => End \in Range(Line(c))

(* A reader of a channel that is done comes to its end. *)
ReaderEnds == \A c \in Channels :
  done[c] /\ reader[c] \in Reading ~> reader[c] \in {"ended", "left", "dropped"}

(* A call that waits for room returns when somebody reads, or has read.    *)
SendersReturn == \A c \in Channels : \A x \in Items \cup {End} :
  x \in Range(sending[c]) /\ reader[c] \notin {"none", "dropped"}
    ~> x \notin Range(sending[c]) \/ reader[c] = "dropped"
=============================================================================
