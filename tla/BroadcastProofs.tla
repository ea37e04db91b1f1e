-------------------------- MODULE BroadcastProofs --------------------------
(***************************************************************************)
(* That the lag reports of the broadcast channel are exact and its close   *)
(* comes last, for every capacity and any number of handles and sends.     *)
(*                                                                         *)
(* Accounted needs to know what the channel holds: BInv says that the      *)
(* value at position p is the (p+1)-th, that a live receiver stands where  *)
(* its owner thinks it does, and that the counters of handles are exact,   *)
(* so that nobody can send once `senders` is zero.                         *)
(***************************************************************************)
EXTENDS Broadcast, FiniteSetTheorems, TLAPS

Numbered(ch) == \A i \in 1 .. Len(ch.buffer) : ch.buffer[i] = ch.head + i

Held == {s \in Sender : tx[s] \in {"idle", "sent"}}
Kept == {r \in Receiver : rx[r].pc \in {"idle", "look", "await"}}

Positions == \A r \in Kept : rx[r].at = rx[r].next /\ rx[r].next <= sent

BInv ==
  /\ TypeOK
  /\ Numbered(chan) /\ sent = End(chan)
  /\ senders = Cardinality(Held)
  /\ chan.receivers = Cardinality(Kept)
  /\ Positions
  /\ Accounted

-----------------------------------------------------------------------------
(***************************************************************************)
(* The operators of Channel on a numbered buffer.                          *)
(***************************************************************************)

(* A send keeps the numbering, moves the end by one, and stays within the   *)
(* capacity.                                                                *)
LEMMA SendToNumbered ==
  ASSUME NEW ch \in Channels(Nat), Numbered(ch), ch.receivers > 0,
         Len(ch.buffer) <= Capacity,
         NEW sentTo, sentTo = SendTo(ch, End(ch) + 1)
  PROVE  /\ sentTo \in Channels(Nat) /\ Numbered(sentTo)
         /\ End(sentTo) = End(ch) + 1 /\ sentTo.receivers = ch.receivers
         /\ Len(sentTo.buffer) <= Capacity
<1> DEFINE grown == Append(ch.buffer, End(ch) + 1)
           n == Len(ch.buffer)
<1>1. ch.buffer \in Seq(Nat) /\ ch.head \in Nat /\ ch.receivers \in Nat /\ n \in Nat
  BY DEF Channels
<1>2. End(ch) = ch.head + n
  BY DEF End
<1>3. /\ grown \in Seq(Nat) /\ Len(grown) = n + 1
      /\ \A i \in 1 .. n + 1 : grown[i] = ch.head + i
  <2>1. grown \in Seq(Nat) /\ Len(grown) = n + 1
    BY <1>1, <1>2
  <2>2. /\ \A i \in 1 .. n : grown[i] = ch.buffer[i]
        /\ grown[n + 1] = ch.head + (n + 1)
    BY <1>1, <1>2
  <2>3. \A i \in 1 .. n : ch.buffer[i] = ch.head + i
    BY DEF Numbered
  <2> HIDE DEF grown, n
  <2>4. QED
    BY <2>1, <2>2, <2>3, <1>1
<1>4. sentTo =
        IF n + 1 > Capacity
          THEN [ch EXCEPT !.buffer = Tail(grown), !.head = @ + 1]
          ELSE [ch EXCEPT !.buffer = grown]
  BY <1>1, <1>3 DEF SendTo
<1> HIDE DEF grown, n
<1>5. Tail(grown) \in Seq(Nat) /\ Len(Tail(grown)) = n
  BY <1>1, <1>3
<1>6. \A i \in 1 .. n : Tail(grown)[i] = (ch.head + 1) + i
  <2> TAKE i \in 1 .. n
  <2>1. Tail(grown)[i] = grown[i + 1] /\ i + 1 \in 1 .. n + 1
    BY <1>1, <1>3
  <2>2. grown[i + 1] = ch.head + (i + 1)
    BY <2>1, <1>3
  <2>3. ch.head + (i + 1) = (ch.head + 1) + i
    BY <1>1
  <2>4. QED
    BY <2>1, <2>2, <2>3, Zenon
<1>7. CASE n + 1 > Capacity
  <2> DEFINE rest == Tail(grown)
  <2>0. rest \in Seq(Nat) /\ Len(rest) = n /\ \A i \in 1 .. n : rest[i] = (ch.head + 1) + i
    BY <1>5, <1>6
  <2>1. sentTo = [buffer |-> rest, head |-> ch.head + 1, receivers |-> ch.receivers]
    BY <1>4, <1>7 DEF Channels
  <2> HIDE DEF rest
  <2>2. /\ sentTo \in Channels(Nat) /\ sentTo.buffer = rest
        /\ sentTo.head = ch.head + 1 /\ sentTo.receivers = ch.receivers
    BY <2>1, <1>1, <2>0 DEF Channels
  <2>3. Numbered(sentTo)
    BY <2>2, <2>0 DEF Numbered
  <2>4. End(sentTo) = End(ch) + 1
    BY <2>2, <2>0, <1>1, <1>2 DEF End
  <2>5. Len(sentTo.buffer) <= Capacity
    BY <2>2, <2>0 DEF n
  <2>6. QED
    BY <2>2, <2>3, <2>4, <2>5
<1>8. CASE ~(n + 1 > Capacity)
  <2>1. sentTo = [buffer |-> grown, head |-> ch.head, receivers |-> ch.receivers]
    BY <1>4, <1>8 DEF Channels
  <2>2. /\ sentTo \in Channels(Nat) /\ sentTo.buffer = grown
        /\ sentTo.head = ch.head /\ sentTo.receivers = ch.receivers
    BY <2>1, <1>1, <1>3 DEF Channels
  <2>3. Numbered(sentTo)
    BY <2>2, <1>3 DEF Numbered
  <2>4. QED
    BY <2>2, <2>3, <1>1, <1>2, <1>3, <1>8, CapacityAssumption DEF End
<1>9. QED
  BY <1>7, <1>8

(* A subscription and the drop of a receiver change one counter only. *)
LEMMA ReceiversOnly ==
  ASSUME NEW ch \in Channels(Nat), NEW n \in Nat, Numbered(ch)
  PROVE  LET new == [ch EXCEPT !.receivers = n]
         IN  /\ new \in Channels(Nat) /\ Numbered(new) /\ End(new) = End(ch)
             /\ new.buffer = ch.buffer /\ new.receivers = n
  BY DEF Channels, Numbered, End

-----------------------------------------------------------------------------
(***************************************************************************)
(* The initial state.                                                      *)
(***************************************************************************)
LEMMA InitBInv == Init => BInv
<1> SUFFICES ASSUME Init PROVE BInv
  OBVIOUS
<1> DEFINE s0 == CHOOSE x \in Sender : TRUE
           r0 == CHOOSE x \in Receiver : TRUE
<1>1. s0 \in Sender /\ r0 \in Receiver
  BY BroadcastAssumption
<1> HIDE DEF s0, r0
<1>2. chan = [buffer |-> <<>>, head |-> 0, receivers |-> 1]
  BY DEF Init, Subscribed, NewChannel
<1>3. chan \in Channels(Nat) /\ Numbered(chan) /\ End(chan) = 0 /\ Len(chan.buffer) = 0
      /\ chan.receivers = 1
  BY <1>2 DEF Channels, Numbered, End
<1>4. Held = {s0}
  BY <1>1 DEF Init, Held, s0
<1>5. Kept = {r0}
  BY <1>1 DEF Init, Kept, NoReceiver, Fresh, r0
<1>6. Cardinality(Held) = 1 /\ Cardinality(Kept) = 1
  BY <1>4, <1>5, FS_Singleton
<1>7. TypeOK
  BY <1>3, CapacityAssumption
  DEF Init, TypeOK, NoReceiver, Fresh, TxStates, RxStates, Results
<1>8. Positions /\ Accounted
  BY <1>5 DEF Init, Positions, Accounted, NoReceiver, Fresh, Kept
<1>9. QED
  BY <1>3, <1>6, <1>7, <1>8 DEF BInv, Init

-----------------------------------------------------------------------------
(***************************************************************************)
(* Senders.                                                                *)
(***************************************************************************)
LEMMA SendBInv == ASSUME BInv, NEW s \in Sender, Send(s) PROVE BInv'
<1>1. /\ chan' \in Channels(Nat) /\ Numbered(chan')
      /\ End(chan') = End(chan) + 1 /\ chan'.receivers = chan.receivers
      /\ Len(chan'.buffer) <= Capacity
  BY SendToNumbered DEF Send, BInv, TypeOK
<1>2. Held' = Held /\ Kept' = Kept
  BY DEF Send, Held, Kept, BInv, TypeOK
<1>3. senders # 0
  <2>1. IsFiniteSet(Held)
    BY BroadcastAssumption, FS_Subset DEF Held
  <2>2. s \in Held
    BY DEF Send, Held
  <2>3. QED
    BY <2>1, <2>2, FS_EmptySet DEF BInv
<1>4. sent \in Nat /\ sent' = sent + 1 /\ rx' = rx /\ senders' = senders /\ changed' = changed
  BY DEF Send, BInv, TypeOK
<1>5. TypeOK'
  BY <1>1, <1>4 DEF Send, BInv, TypeOK, TxStates
<1>6. Positions'
  BY <1>2, <1>4 DEF BInv, Positions, TypeOK, Kept
<1>7. Accounted'
  BY <1>3, <1>4 DEF BInv, Accounted
<1>8. QED
  BY <1>1, <1>2, <1>4, <1>5, <1>6, <1>7 DEF BInv, End

LEMMA SubscribeBInv ==
  ASSUME BInv, NEW s \in Sender, NEW r \in Receiver, Subscribe(s, r) PROVE BInv'
<1>1. chan.receivers + 1 \in Nat /\ chan' = [chan EXCEPT !.receivers = chan.receivers + 1]
  BY DEF BInv, TypeOK, Channels, Subscribe, Subscribed
<1>2. /\ chan' \in Channels(Nat) /\ Numbered(chan') /\ End(chan') = End(chan)
      /\ chan'.buffer = chan.buffer /\ chan'.receivers = chan.receivers + 1
  BY <1>1, ReceiversOnly DEF BInv, TypeOK
<1>3. /\ rx \in [Receiver -> [pc : RxStates, next : Nat, snap : Nat, out : Results,
                              got : Nat, at : Nat]]
      /\ rx' = [rx EXCEPT ![r] = Fresh(sent, sent)] /\ rx[r].pc = "none"
      /\ sent' = sent /\ sent \in Nat /\ senders' = senders /\ changed' = changed /\ tx' = tx
  BY DEF Subscribe, BInv, TypeOK
<1>4. r \notin Kept /\ Kept' = Kept \cup {r} /\ Held' = Held
  BY <1>3 DEF Kept, Held, Fresh
<1>5. Cardinality(Kept') = Cardinality(Kept) + 1
  <2>1. IsFiniteSet(Kept)
    BY BroadcastAssumption, FS_Subset DEF Kept
  <2>2. QED
    BY <2>1, <1>4, FS_AddElement
<1>6. TypeOK'
  BY <1>2, <1>3 DEF BInv, TypeOK, Fresh, RxStates, Results
<1>7. Positions'
  BY <1>3, <1>4 DEF BInv, Positions, Fresh, Kept
<1>8. Accounted'
  BY <1>3 DEF BInv, Accounted, Fresh
<1>9. QED
  BY <1>2, <1>3, <1>4, <1>5, <1>6, <1>7, <1>8 DEF BInv

(* A step of Sender s that leaves the channel and the receivers alone. *)
LEMMA TxStep ==
  ASSUME BInv, NEW n \in Nat, NEW m \in Nat, NEW new \in [Sender -> TxStates],
         tx' = new, senders' = n, changed' = m, UNCHANGED <<chan, rx, sent>>,
         n = Cardinality(Held'),
         senders = 0 => n = 0
  PROVE  BInv'
<1>1. TypeOK'
  BY DEF BInv, TypeOK
<1>2. Kept' = Kept
  BY DEF Kept
<1>3. Positions' /\ Accounted'
  BY <1>2 DEF BInv, Positions, Accounted
<1>4. QED
  BY <1>1, <1>2, <1>3 DEF BInv

LEMMA CloneBInv ==
  ASSUME BInv, NEW s \in Sender, NEW t \in Sender, Clone(s, t) PROVE BInv'
<1>1. tx \in [Sender -> TxStates] /\ senders \in Nat /\ changed \in Nat
      /\ IsFiniteSet(Held) /\ senders = Cardinality(Held)
  BY BroadcastAssumption, FS_Subset DEF BInv, TypeOK, Held
<1>2. Held' = Held \cup {t} /\ t \notin Held /\ s \in Held
  BY <1>1 DEF Clone, Held
<1>3. Cardinality(Held') = senders + 1 /\ senders # 0
  BY <1>1, <1>2, FS_AddElement, FS_EmptySet
<1>4. [tx EXCEPT ![t] = "idle"] \in [Sender -> TxStates]
  BY <1>1 DEF TxStates
<1>5. senders + 1 \in Nat /\ (senders = 0 => senders + 1 = 0)
  BY <1>1, <1>3
<1>6. /\ tx' = [tx EXCEPT ![t] = "idle"] /\ senders' = senders + 1 /\ changed' = changed
      /\ UNCHANGED <<chan, rx, sent>>
  BY DEF Clone
<1>7. senders + 1 = Cardinality(Held')
  BY <1>3
<1>8. QED
  BY <1>1, <1>4, <1>5, <1>6, <1>7, TxStep, Zenon

LEMMA DropSenderBInv ==
  ASSUME BInv, NEW s \in Sender, DropSender(s) PROVE BInv'
<1>1. tx \in [Sender -> TxStates] /\ senders \in Nat /\ changed \in Nat
      /\ IsFiniteSet(Held) /\ senders = Cardinality(Held)
  BY BroadcastAssumption, FS_Subset DEF BInv, TypeOK, Held
<1>2. Held' = Held \ {s} /\ s \in Held
  BY <1>1 DEF DropSender, Held
<1>3. Cardinality(Held') = senders - 1 /\ senders # 0
  BY <1>1, <1>2, FS_RemoveElement, FS_EmptySet
<1>4. [tx EXCEPT ![s] = IF senders = 1 THEN "last" ELSE "gone"] \in [Sender -> TxStates]
  BY <1>1 DEF TxStates
<1>5. senders - 1 \in Nat
  BY <1>1, <1>3
<1>6. QED
  BY <1>1, <1>3, <1>4, <1>5, TxStep DEF DropSender

LEMMA NotifyWaitersBInv ==
  ASSUME BInv, NEW s \in Sender, NotifyWaiters(s) PROVE BInv'
<1>1. tx \in [Sender -> TxStates] /\ senders \in Nat /\ changed \in Nat
      /\ senders = Cardinality(Held)
  BY DEF BInv, TypeOK
<1>2. Held' = Held
  BY <1>1 DEF NotifyWaiters, Held
<1>3. [tx EXCEPT ![s] = IF tx[s] = "sent" THEN "idle" ELSE "gone"] \in [Sender -> TxStates]
  BY <1>1 DEF TxStates
<1>4. changed + 1 \in Nat
  BY <1>1
<1>5. /\ tx' = [tx EXCEPT ![s] = IF tx[s] = "sent" THEN "idle" ELSE "gone"]
      /\ senders' = senders /\ changed' = changed + 1 /\ UNCHANGED <<chan, rx, sent>>
  BY DEF NotifyWaiters
<1>6. senders = Cardinality(Held')
  BY <1>1, <1>2
<1>7. QED
  BY <1>1, <1>3, <1>4, <1>5, <1>6, TxStep, Zenon

-----------------------------------------------------------------------------
(***************************************************************************)
(* Receivers.                                                              *)
(***************************************************************************)
Record == [pc : RxStates, next : Nat, snap : Nat, out : Results, got : Nat, at : Nat]

(* A step of Receiver r that leaves it in being and the rest alone. *)
LEMMA RxStep ==
  ASSUME BInv, NEW r \in Kept,
         rx' \in [Receiver -> Record], \A q \in Receiver \ {r} : rx'[q] = rx[q],
         UNCHANGED <<chan, senders, changed, tx, sent>>,
         rx'[r].pc \in {"idle", "look", "await"},
         rx'[r].at = rx'[r].next, rx'[r].next <= sent,
         rx'[r].out = "value" => rx'[r].got = rx'[r].at,
         rx'[r].out = "closed" => senders = 0 /\ rx'[r].at = sent
  PROVE  BInv'
<1>1. r \in Receiver /\ rx \in [Receiver -> Record]
  BY DEF Kept, BInv, TypeOK, Record
<1>2. Kept' = Kept /\ Held' = Held
  BY <1>1 DEF Kept, Held
<1>3. TypeOK'
  BY <1>1 DEF BInv, TypeOK, Record
<1>4. Positions' /\ Accounted'
  BY <1>1, <1>2 DEF BInv, Positions, Accounted, Kept
<1>5. QED
  BY <1>2, <1>3, <1>4 DEF BInv

(* What is known of a Receiver in being. *)
LEMMA KeptFacts ==
  ASSUME BInv, NEW r \in Receiver, rx[r].pc \in {"idle", "look", "await"}
  PROVE  /\ r \in Kept /\ rx \in [Receiver -> Record] /\ rx[r] \in Record
         /\ rx[r].next \in Nat /\ rx[r].snap \in Nat /\ rx[r].got \in Nat
         /\ rx[r].out \in Results
         /\ rx[r].at = rx[r].next /\ rx[r].next <= sent
         /\ rx[r].out = "value" => rx[r].got = rx[r].at
         /\ rx[r].out = "closed" => senders = 0 /\ rx[r].at = sent
         /\ sent = End(chan) /\ sent \in Nat /\ changed \in Nat /\ chan.head \in Nat
         /\ chan.buffer \in Seq(Nat)
  BY DEF BInv, TypeOK, Record, Kept, Positions, Accounted, Channels

LEMMA RecvBInv == ASSUME BInv, NEW r \in Receiver, Recv(r) PROVE BInv'
<1>1. rx[r].pc \in {"idle", "look", "await"} /\ rx \in [Receiver -> Record]
  BY DEF Recv, BInv, TypeOK, Record
<1>2. rx' \in [Receiver -> Record]
  <2>1. changed \in Nat
    BY <1>1, KeptFacts
  <2>2. QED
    BY <1>1, <2>1 DEF Recv, Record, RxStates, Results
<1>3. /\ \A q \in Receiver \ {r} : rx'[q] = rx[q]
      /\ UNCHANGED <<chan, senders, changed, tx, sent>>
  BY <1>1 DEF Recv
<1>4. /\ rx'[r].pc = "look" /\ rx'[r].next = rx[r].next /\ rx'[r].out = rx[r].out
      /\ rx'[r].got = rx[r].got /\ rx'[r].at = rx[r].at
  BY <1>1 DEF Recv, Record
<1>5. QED
  BY <1>1, <1>2, <1>3, <1>4, KeptFacts, RxStep

LEMMA WokenBInv == ASSUME BInv, NEW r \in Receiver, Woken(r) PROVE BInv'
<1>1. rx[r].pc \in {"idle", "look", "await"} /\ rx \in [Receiver -> Record]
  BY DEF Woken, BInv, TypeOK, Record
<1>2. rx' \in [Receiver -> Record]
  <2>1. changed \in Nat
    BY <1>1, KeptFacts
  <2>2. QED
    BY <1>1, <2>1 DEF Woken, Record, RxStates, Results
<1>3. /\ \A q \in Receiver \ {r} : rx'[q] = rx[q]
      /\ UNCHANGED <<chan, senders, changed, tx, sent>>
  BY <1>1 DEF Woken
<1>4. /\ rx'[r].pc = "look" /\ rx'[r].next = rx[r].next /\ rx'[r].out = rx[r].out
      /\ rx'[r].got = rx[r].got /\ rx'[r].at = rx[r].at
  BY <1>1 DEF Woken, Record
<1>5. QED
  BY <1>1, <1>2, <1>3, <1>4, KeptFacts, RxStep

LEMMA RecvDroppedBInv == ASSUME BInv, NEW r \in Receiver, RecvDropped(r) PROVE BInv'
<1>1. rx[r].pc \in {"idle", "look", "await"} /\ rx \in [Receiver -> Record]
  BY DEF RecvDropped, BInv, TypeOK, Record
<1>2. rx' \in [Receiver -> Record]
  <2>1. changed \in Nat
    BY <1>1, KeptFacts
  <2>2. QED
    BY <1>1, <2>1 DEF RecvDropped, Record, RxStates, Results, Go
<1>3. /\ \A q \in Receiver \ {r} : rx'[q] = rx[q]
      /\ UNCHANGED <<chan, senders, changed, tx, sent>>
  BY <1>1 DEF RecvDropped, Go
<1>4. /\ rx'[r].pc = "idle" /\ rx'[r].next = rx[r].next /\ rx'[r].out = rx[r].out
      /\ rx'[r].got = rx[r].got /\ rx'[r].at = rx[r].at
  BY <1>1 DEF RecvDropped, Record, Go
<1>5. QED
  BY <1>1, <1>2, <1>3, <1>4, KeptFacts, RxStep

LEMMA TakeNothingBInv == ASSUME BInv, NEW r \in Receiver, TakeNothing(r) PROVE BInv'
<1>1. rx[r].pc \in {"idle", "look", "await"} /\ rx \in [Receiver -> Record]
  BY DEF TakeNothing, BInv, TypeOK, Record
<1>2. rx' \in [Receiver -> Record]
  <2>1. changed \in Nat
    BY <1>1, KeptFacts
  <2>2. QED
    BY <1>1, <2>1 DEF TakeNothing, Record, RxStates, Results, Go
<1>3. /\ \A q \in Receiver \ {r} : rx'[q] = rx[q]
      /\ UNCHANGED <<chan, senders, changed, tx, sent>>
  BY <1>1 DEF TakeNothing, Go
<1>4. /\ rx'[r].pc = "await" /\ rx'[r].next = rx[r].next /\ rx'[r].out = rx[r].out
      /\ rx'[r].got = rx[r].got /\ rx'[r].at = rx[r].at
  BY <1>1 DEF TakeNothing, Record, Go
<1>5. QED
  BY <1>1, <1>2, <1>3, <1>4, KeptFacts, RxStep

LEMMA TakeLaggedBInv == ASSUME BInv, NEW r \in Receiver, TakeLagged(r) PROVE BInv'
<1>1. rx[r].pc \in {"idle", "look", "await"} /\ rx \in [Receiver -> Record]
  BY DEF TakeLagged, BInv, TypeOK, Record
<1>2. chan.head <= sent /\ rx[r].at + (chan.head - rx[r].next) = chan.head
  BY <1>1, KeptFacts DEF End
<1>3. rx' \in [Receiver -> Record]
  <2>1. chan.head \in Nat /\ rx[r].at + (chan.head - rx[r].next) \in Nat
    BY <1>2, <1>1, KeptFacts
  <2> DEFINE at == rx[r].at + (chan.head - rx[r].next)
             new == [rx[r] EXCEPT !.pc = "idle", !.out = "lagged", !.next = chan.head,
                                  !.at = at]
  <2>2. rx' = [rx EXCEPT ![r] = new]
    BY <1>1 DEF TakeLagged
  <2>3. at \in Nat
    BY <2>1
  <2> HIDE DEF at
  <2>4. new \in Record
    BY <1>1, <2>1, <2>3 DEF Record, RxStates, Results
  <2> HIDE DEF new
  <2>5. QED
    BY <1>1, <2>2, <2>4
<1>4. /\ \A q \in Receiver \ {r} : rx'[q] = rx[q]
      /\ UNCHANGED <<chan, senders, changed, tx, sent>>
  BY <1>1 DEF TakeLagged
<1>5. /\ rx'[r].pc = "idle" /\ rx'[r].next = chan.head /\ rx'[r].out = "lagged"
      /\ rx'[r].got = rx[r].got /\ rx'[r].at = rx[r].at + (chan.head - rx[r].next)
  BY <1>1 DEF TakeLagged, Record
<1>6. QED
  BY <1>1, <1>2, <1>3, <1>4, <1>5, KeptFacts, RxStep

LEMMA TakeValueBInv == ASSUME BInv, NEW r \in Receiver, TakeValue(r) PROVE BInv'
<1>1. rx[r].pc \in {"idle", "look", "await"} /\ rx \in [Receiver -> Record]
  BY DEF TakeValue, BInv, TypeOK, Record
<1>2. rx[r].next + 1 <= sent /\ Value(chan, rx[r].next) = rx[r].next + 1
  <2>1. /\ chan.head <= rx[r].next /\ rx[r].next < chan.head + Len(chan.buffer)
        /\ \A i \in 1 .. Len(chan.buffer) : chan.buffer[i] = chan.head + i
    BY DEF TakeValue, Holds, End, BInv, Numbered
  <2>2. rx[r].next - chan.head + 1 \in 1 .. Len(chan.buffer)
    BY <2>1, <1>1, KeptFacts
  <2>3. /\ rx[r].next \in Nat /\ chan.head \in Nat /\ Len(chan.buffer) \in Nat
        /\ sent = chan.head + Len(chan.buffer)
    BY <1>1, KeptFacts DEF BInv, End
  <2>4. Value(chan, rx[r].next) = chan.buffer[rx[r].next - chan.head + 1]
    BY DEF Value
  <2>5. chan.buffer[rx[r].next - chan.head + 1] = chan.head + (rx[r].next - chan.head + 1)
    BY <2>1, <2>2
  <2>6. chan.head + (rx[r].next - chan.head + 1) = rx[r].next + 1
    BY <2>3
  <2>7. rx[r].next + 1 <= sent
    BY <2>1, <2>3
  <2>8. QED
    BY <2>4, <2>5, <2>6, <2>7, Zenon
<1>3. rx' \in [Receiver -> Record]
  <2>1. rx[r].next + 1 \in Nat /\ Value(chan, rx[r].next) \in Nat /\ rx[r].at + 1 \in Nat
    BY <1>2, <1>1, KeptFacts
  <2> DEFINE value == Value(chan, rx[r].next)
             next == rx[r].next + 1
             at == rx[r].at + 1
             new == [rx[r] EXCEPT !.pc = "idle", !.out = "value", !.next = next,
                                  !.got = value, !.at = at]
  <2>2. rx' = [rx EXCEPT ![r] = new]
    BY <1>1 DEF TakeValue
  <2>3. value \in Nat /\ next \in Nat /\ at \in Nat
    BY <2>1
  <2> HIDE DEF value, next, at
  <2>4. new \in Record
    BY <1>1, <2>3 DEF Record, RxStates, Results
  <2> HIDE DEF new
  <2>5. QED
    BY <1>1, <2>2, <2>4
<1>4. /\ \A q \in Receiver \ {r} : rx'[q] = rx[q]
      /\ UNCHANGED <<chan, senders, changed, tx, sent>>
  BY <1>1 DEF TakeValue
<1>5. /\ rx'[r].pc = "idle" /\ rx'[r].next = rx[r].next + 1 /\ rx'[r].out = "value"
      /\ rx'[r].got = Value(chan, rx[r].next) /\ rx'[r].at = rx[r].at + 1
  BY <1>1 DEF TakeValue, Record
<1>6. QED
  BY <1>1, <1>2, <1>3, <1>4, <1>5, KeptFacts, RxStep

LEMMA TakeClosedBInv == ASSUME BInv, NEW r \in Receiver, TakeClosed(r) PROVE BInv'
<1>1. rx[r].pc \in {"idle", "look", "await"} /\ rx \in [Receiver -> Record]
  BY DEF TakeClosed, BInv, TypeOK, Record
<1>2. senders = 0 /\ rx[r].at = sent
  BY <1>1, KeptFacts DEF TakeClosed, Lags, Holds, End
<1>3. rx' \in [Receiver -> Record]
  <2>1. changed \in Nat
    BY <1>2, <1>1, KeptFacts
  <2>2. QED
    BY <1>1, <2>1 DEF TakeClosed, Record, RxStates, Results
<1>4. /\ \A q \in Receiver \ {r} : rx'[q] = rx[q]
      /\ UNCHANGED <<chan, senders, changed, tx, sent>>
  BY <1>1 DEF TakeClosed
<1>5. /\ rx'[r].pc = "idle" /\ rx'[r].next = rx[r].next /\ rx'[r].out = "closed"
      /\ rx'[r].got = rx[r].got /\ rx'[r].at = rx[r].at
  BY <1>1 DEF TakeClosed, Record
<1>6. QED
  BY <1>1, <1>2, <1>3, <1>4, <1>5, KeptFacts, RxStep

LEMMA DropReceiverBInv == ASSUME BInv, NEW r \in Receiver, DropReceiver(r) PROVE BInv'
<1>1. rx[r].pc = "idle" /\ rx' = [rx EXCEPT ![r].pc = "gone"]
      /\ UNCHANGED <<senders, changed, tx, sent>>
  BY DEF DropReceiver, Go
<1>2. rx \in [Receiver -> Record]
  BY DEF BInv, TypeOK, Record
<1>3. r \in Kept /\ Kept' = Kept \ {r} /\ Held' = Held
  BY <1>1, <1>2 DEF Kept, Held, Record
<1>4. IsFiniteSet(Kept) /\ chan.receivers = Cardinality(Kept)
  BY BroadcastAssumption, FS_Subset DEF BInv, Kept
<1>5. Cardinality(Kept') = chan.receivers - 1 /\ chan.receivers # 0
  BY <1>3, <1>4, FS_RemoveElement, FS_EmptySet
<1>6. chan.receivers - 1 \in Nat /\ chan' = [chan EXCEPT !.receivers = chan.receivers - 1]
  BY <1>5 DEF BInv, TypeOK, Channels, DropReceiver, ReceiverGone
<1>7. /\ chan' \in Channels(Nat) /\ Numbered(chan') /\ End(chan') = End(chan)
      /\ chan'.buffer = chan.buffer /\ chan'.receivers = chan.receivers - 1
  BY <1>6, ReceiversOnly DEF BInv, TypeOK
<1>8. rx' \in [Receiver -> Record]
  BY <1>1, <1>2 DEF Record, RxStates
<1>9. TypeOK'
  BY <1>1, <1>7, <1>8 DEF BInv, TypeOK, Record
<1>10. Positions' /\ Accounted'
  BY <1>1, <1>2, <1>3 DEF BInv, Positions, Accounted, Record, Kept
<1>11. QED
  BY <1>1, <1>3, <1>5, <1>7, <1>9, <1>10 DEF BInv

-----------------------------------------------------------------------------
(***************************************************************************)
(* The theorems.                                                           *)
(***************************************************************************)
LEMMA NextBInv == BInv /\ [Next]_vars => BInv'
<1> SUFFICES ASSUME BInv, [Next]_vars PROVE BInv'
  OBVIOUS
<1>1. CASE UNCHANGED vars
  <2>1. Held' = Held /\ Kept' = Kept /\ TypeOK' /\ Positions' /\ Accounted'
    BY <1>1 DEF vars, Held, Kept, BInv, TypeOK, Positions, Accounted
  <2>2. QED
    BY <1>1, <2>1 DEF vars, BInv
<1>2. CASE \E s \in Sender : \/ Send(s) \/ NotifyWaiters(s) \/ DropSender(s)
                             \/ \E r \in Receiver : Subscribe(s, r)
                             \/ \E t \in Sender : Clone(s, t)
  BY <1>2, SendBInv, NotifyWaitersBInv, DropSenderBInv, SubscribeBInv, CloneBInv
<1>3. CASE \E r \in Receiver : Receiving(r) \/ Recv(r) \/ RecvDropped(r) \/ DropReceiver(r)
  BY <1>3, RecvBInv, WokenBInv, RecvDroppedBInv, TakeNothingBInv, TakeLaggedBInv,
     TakeValueBInv, TakeClosedBInv, DropReceiverBInv
  DEF Receiving
<1>4. QED
  BY <1>1, <1>2, <1>3 DEF Next

(* Every variable keeps its type, and the buffer its capacity. *)
THEOREM TypeCorrect == Spec => []TypeOK
<1>1. BInv => TypeOK
  BY DEF BInv
<1>2. QED
  BY <1>1, InitBInv, NextBInv, PTL DEF Spec

(* What a receiver is given adds up: every value sent after it subscribed   *)
(* is received in its turn or counted in a lag report, and the close comes  *)
(* after the last of them (send, subscribe, take, and the drops).           *)
THEOREM LagReportsExact == Spec => []Accounted
<1>1. BInv => Accounted
  BY DEF BInv
<1>2. QED
  BY <1>1, InitBInv, NextBInv, PTL DEF Spec
=============================================================================
