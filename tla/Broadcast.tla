----------------------------- MODULE Broadcast -----------------------------
(***************************************************************************)
(* The broadcast channel of crates/proxy/src/broadcast.rs, which the       *)
(* client crate carries too, with the threads that use it: Senders that    *)
(* send, subscribe, are cloned and dropped, and Receivers that wait.       *)
(*                                                                         *)
(* What is done under the channel's lock is one step, the operators of     *)
(* Channel.  The steps outside it are what can go wrong: a send wakes the  *)
(* receivers after it has given up the lock, and a receiver snapshots the  *)
(* Notify, looks, and then waits.  A value is its place among the values   *)
(* the channel has accepted.                                               *)
(***************************************************************************)
EXTENDS Channel, FiniteSets

CONSTANTS Sender, Receiver,   \* the handles there may ever be, each used once
          MaxSends            \* bound: values sent

ASSUME BroadcastAssumption ==
  /\ IsFiniteSet(Sender) /\ Sender # {}
  /\ IsFiniteSet(Receiver) /\ Receiver # {}
  /\ MaxSends \in Nat

VARIABLES
  chan,     \* State, but for its senders
  senders,  \* State.senders
  changed,  \* the Notify: how often it has woken its waiters
  tx,       \* where each Sender is
  rx,       \* each Receiver: [pc, next, snap, out, got, at]
  sent      \* history: values accepted so far

vars == <<chan, senders, changed, tx, rx, sent>>

TxStates == {"none", "idle", "sent", "last", "gone"}
RxStates == {"none", "idle", "look", "await", "gone"}
Results  == {"none", "value", "lagged", "closed"}

InRecv == {"look", "await"}

(***************************************************************************)
(* Besides `next` and its snapshot, a Receiver carries what its owner can  *)
(* tell: the last result `out`, the last value `got`, and `at`, where it   *)
(* stands by adding up the values and the lags it was told of.             *)
(***************************************************************************)
NoReceiver == [pc |-> "none", next |-> 0, snap |-> 0, out |-> "none", got |-> 0, at |-> 0]

(* A Receiver that starts at `next`, its owner counting from `at`. *)
Fresh(next, at) ==
  [pc |-> "idle", next |-> next, snap |-> 0, out |-> "none", got |-> 0, at |-> at]

Go(r, pc) == rx' = [rx EXCEPT ![r].pc = pc]

(* channel: one Sender, and one Receiver at the start. *)
Init ==
  /\ chan = Subscribed(NewChannel)
  /\ senders = 1
  /\ changed = 0
  /\ tx = [s \in Sender |-> IF s = CHOOSE x \in Sender : TRUE THEN "idle" ELSE "none"]
  /\ rx = [r \in Receiver |-> IF r = CHOOSE x \in Receiver : TRUE
                                THEN Fresh(0, 0) ELSE NoReceiver]
  /\ sent = 0

-----------------------------------------------------------------------------
(***************************************************************************)
(* Senders.                                                                *)
(***************************************************************************)

(* send, under the lock.  Without a receiver it changes nothing. *)
Send(s) ==
  /\ tx[s] = "idle"
  /\ sent < MaxSends
  /\ chan.receivers > 0
  /\ chan' = SendTo(chan, sent + 1)
  /\ sent' = sent + 1
  /\ tx' = [tx EXCEPT ![s] = "sent"]
  /\ UNCHANGED <<senders, changed, rx>>

Subscribe(s, r) ==
  /\ tx[s] = "idle"
  /\ rx[r].pc = "none"
  /\ chan' = Subscribed(chan)
  /\ rx' = [rx EXCEPT ![r] = Fresh(End(chan), sent)]
  /\ UNCHANGED <<senders, changed, tx, sent>>

Clone(s, t) ==
  /\ tx[s] = "idle"
  /\ tx[t] = "none"
  /\ senders' = senders + 1
  /\ tx' = [tx EXCEPT ![t] = "idle"]
  /\ UNCHANGED <<chan, changed, rx, sent>>

(* drop, under the lock: the last Sender has waiters to wake. *)
DropSender(s) ==
  /\ tx[s] = "idle"
  /\ senders' = senders - 1
  /\ tx' = [tx EXCEPT ![s] = IF senders = 1 THEN "last" ELSE "gone"]
  /\ UNCHANGED <<chan, changed, rx, sent>>

(* notify_waiters, the lock given up. *)
NotifyWaiters(s) ==
  /\ tx[s] \in {"sent", "last"}
  /\ changed' = changed + 1
  /\ tx' = [tx EXCEPT ![s] = IF @ = "sent" THEN "idle" ELSE "gone"]
  /\ UNCHANGED <<chan, senders, rx, sent>>

-----------------------------------------------------------------------------
(***************************************************************************)
(* Receivers.                                                              *)
(***************************************************************************)

(* recv is called: notified() before the first look. *)
Recv(r) ==
  /\ rx[r].pc = "idle"
  /\ rx' = [rx EXCEPT ![r].pc = "look", ![r].snap = changed]
  /\ UNCHANGED <<chan, senders, changed, tx, sent>>

(* take finds that the receiver fell behind, and says by how much ... *)
TakeLagged(r) ==
  /\ rx[r].pc = "look"
  /\ Lags(chan, rx[r].next)
  /\ rx' = [rx EXCEPT ![r].pc = "idle", ![r].out = "lagged", ![r].next = chan.head,
                      ![r].at = @ + (chan.head - rx[r].next)]
  /\ UNCHANGED <<chan, senders, changed, tx, sent>>

(* ... or a value ... *)
TakeValue(r) ==
  /\ rx[r].pc = "look"
  /\ Holds(chan, rx[r].next)
  /\ rx' = [rx EXCEPT ![r].pc = "idle", ![r].out = "value", ![r].next = @ + 1,
                      ![r].got = Value(chan, rx[r].next), ![r].at = @ + 1]
  /\ UNCHANGED <<chan, senders, changed, tx, sent>>

(* ... or neither, and no Sender ... *)
TakeClosed(r) ==
  /\ rx[r].pc = "look"
  /\ ~Lags(chan, rx[r].next) /\ ~Holds(chan, rx[r].next)
  /\ senders = 0
  /\ rx' = [rx EXCEPT ![r].pc = "idle", ![r].out = "closed"]
  /\ UNCHANGED <<chan, senders, changed, tx, sent>>

(* ... or nothing yet, and it waits. *)
TakeNothing(r) ==
  /\ rx[r].pc = "look"
  /\ ~Lags(chan, rx[r].next) /\ ~Holds(chan, rx[r].next)
  /\ senders > 0
  /\ Go(r, "await")
  /\ UNCHANGED <<chan, senders, changed, tx, sent>>

(* Mutated form: notified() comes after the look, and misses what came      *)
(* between.                                                                 *)
WokenLate(r) ==
  /\ rx[r].pc = "await"
  /\ \/ /\ rx[r].snap <= MaxSends + 1
        /\ rx' = [rx EXCEPT ![r].snap = changed + MaxSends + 2]
     \/ /\ rx[r].snap > MaxSends + 1
        /\ changed + MaxSends + 2 # rx[r].snap
        /\ rx' = [rx EXCEPT ![r].pc = "look", ![r].snap = changed]
  /\ UNCHANGED <<chan, senders, changed, tx, sent>>

(* The Notify has woken its waiters since the snapshot: round the loop, to  *)
(* a new snapshot and a new look.                                           *)
Woken(r) ==
  /\ rx[r].pc = "await"
  /\ changed # rx[r].snap
  /\ rx' = [rx EXCEPT ![r].pc = "look", ![r].snap = changed]
  /\ UNCHANGED <<chan, senders, changed, tx, sent>>

(* The future is dropped where it waits (a select lost it). *)
RecvDropped(r) ==
  /\ rx[r].pc = "await"
  /\ Go(r, "idle")
  /\ UNCHANGED <<chan, senders, changed, tx, sent>>

DropReceiver(r) ==
  /\ rx[r].pc = "idle"
  /\ chan' = ReceiverGone(chan)
  /\ Go(r, "gone")
  /\ UNCHANGED <<senders, changed, tx, sent>>

-----------------------------------------------------------------------------
Receiving(r) ==
  \/ TakeLagged(r) \/ TakeValue(r) \/ TakeClosed(r) \/ TakeNothing(r)
  \/ Woken(r)

Next ==
  \/ \E s \in Sender : \/ Send(s) \/ NotifyWaiters(s) \/ DropSender(s)
                       \/ \E r \in Receiver : Subscribe(s, r)
                       \/ \E t \in Sender : Clone(s, t)
  \/ \E r \in Receiver : Receiving(r) \/ Recv(r) \/ RecvDropped(r) \/ DropReceiver(r)

Spec == Init /\ [][Next]_vars

(* A thread that has begun to send or to drop goes on to the notification,  *)
(* and the pool polls a receiver that is looking or has been woken.         *)
FairSpec == /\ Spec
            /\ \A s \in Sender : WF_vars(NotifyWaiters(s))
            /\ \A r \in Receiver : WF_vars(Receiving(r))

-----------------------------------------------------------------------------
(***************************************************************************)
(* Properties.                                                             *)
(***************************************************************************)

(* Every variable has its type, and the channel never holds more than its   *)
(* capacity.                                                                *)
TypeOK ==
  /\ chan \in Channels(Nat) /\ Len(chan.buffer) <= Capacity
  /\ senders \in Nat /\ changed \in Nat /\ sent \in Nat
  /\ tx \in [Sender -> TxStates]
  /\ rx \in [Receiver -> [pc : RxStates, next : Nat, snap : Nat, out : Results,
                          got : Nat, at : Nat]]

(* "Every receiver sees every value sent after it subscribed", or is told   *)
(* "how many it missed": the values and the lags that a receiver was given  *)
(* add up to exactly the value it is given next, however often its recv was *)
(* dropped while it waited; and it is told that the channel is closed only  *)
(* when every Sender is gone and it has been given all there was.           *)
Accounted ==
  \A r \in Receiver :
    /\ rx[r].out = "value"  => rx[r].got = rx[r].at
    /\ rx[r].out = "closed" => senders = 0 /\ rx[r].at = sent

Ready(r) == Lags(chan, rx[r].next) \/ Holds(chan, rx[r].next) \/ senders = 0

(* No wake-up is lost: a recv that has something to return, or nothing to   *)
(* wait for any more, returns, wherever the send or the drop of the last    *)
(* Sender fell between its look and its wait.                               *)
Wakes == \A r \in Receiver : (rx[r].pc \in InRecv /\ Ready(r)) ~> rx[r].pc \notin InRecv
=============================================================================
