------------------------------ MODULE Channel ------------------------------
(***************************************************************************)
(* One broadcast channel of crates/proxy/src/broadcast.rs (the client      *)
(* crate carries the same file), as operators on its State: what a send, a *)
(* subscription, the drop of a receiver and a take do under its lock.      *)
(***************************************************************************)
EXTENDS Naturals, Sequences

CONSTANT Capacity     \* channel(capacity), after max(1)

ASSUME CapacityAssumption == Capacity \in Nat \ {0}

Channels(V) == [buffer : Seq(V), head : Nat, receivers : Nat]

(* channel(capacity) whose first receiver has been dropped. *)
NewChannel == [buffer |-> <<>>, head |-> 0, receivers |-> 0]

(* The position after the last value: where a new receiver starts. *)
End(ch) == ch.head + Len(ch.buffer)

(* Mutated form: the oldest value is kept past the capacity. *)
SendToUntrimmed(ch, v) ==
  IF ch.receivers = 0 THEN ch ELSE [ch EXCEPT !.buffer = Append(@, v)]

(* Mutated form: the position of the oldest value is not advanced with it. *)
SendToHeadKept(ch, v) ==
  LET grown == Append(ch.buffer, v)
  IN  IF ch.receivers = 0 THEN ch
      ELSE [ch EXCEPT !.buffer = IF Len(grown) > Capacity THEN Tail(grown) ELSE grown]

(* send: without a receiver the value is not kept. *)
SendTo(ch, v) ==
  LET grown == Append(ch.buffer, v)
  IN  IF ch.receivers = 0 THEN ch
      ELSE IF Len(grown) > Capacity
        THEN [ch EXCEPT !.buffer = Tail(grown), !.head = @ + 1]
        ELSE [ch EXCEPT !.buffer = grown]

Subscribed(ch)   == [ch EXCEPT !.receivers = @ + 1]
ReceiverGone(ch) == [ch EXCEPT !.receivers = @ - 1]

(* take, for a receiver at position `next`: it lags, or finds a value, or   *)
(* neither.                                                                 *)
Lags(ch, next)   == next < ch.head
Holds(ch, next)  == ch.head <= next /\ next < End(ch)
Value(ch, next)  == ch.buffer[next - ch.head + 1]

(* The values that a receiver at `next` has yet to take. *)
Upcoming(ch, next) == {Value(ch, p) : p \in {q \in next .. End(ch) : Holds(ch, q)}}
=============================================================================
