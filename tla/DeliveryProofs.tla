--------------------------- MODULE DeliveryProofs ---------------------------
(***************************************************************************)
(* The safety of Delivery for any connections, attachments, capacity of    *)
(* the channel and limit of the journal: what an attachment is given comes *)
(* in order and without a gap, across replays, lags and a change of the    *)
(* attachment.                                                             *)
(***************************************************************************)
EXTENDS Delivery, LiveRunProofs, FiniteSetTheorems, TLAPS

(* The attachments that hold a receiver of the channel. *)
Live == {a \in Att : att[a].pc \in Running \cup {"held"}}

(* While there is a receiver each event is sent, so that `receivers` must   *)
(* be exact.                                                                *)
Counted == IsFiniteSet(Live) /\ chan.receivers = Cardinality(Live)

(***************************************************************************)
(* Which phase an attachment and its connection are in.                    *)
(***************************************************************************)
Placed(a) ==
  /\ att[a].pc = "unused" => got[a] = <<>>
  /\ att[a].pc # "unused" => att[a].conn \in Conn
  /\ att[a].pc = "held" => /\ conn[att[a].conn].pc = "replay"
                           /\ conn[att[a].conn].new = a
                           /\ got[a] = <<>>
  /\ att[a].pc # "held" => att[a].replay = <<>>

Replaying(c) ==
  conn[c].pc = "replay" => /\ conn[c].new \in Att
                           /\ att[conn[c].new].pc = "held"
                           /\ att[conn[c].new].conn = c

(***************************************************************************)
(* Where the receiver of an attachment stands: what it has yet to take are *)
(* the last events published, without a hole, and the first of them comes  *)
(* right after an event that was forwarded or acknowledged.                *)
(***************************************************************************)
Stands(a) ==
  /\ att[a].next <= End(chan) /\ End(chan) <= att[a].next + run.latest
  /\ \A i \in 1 .. Len(chan.buffer) :
       att[a].next < chan.head + i => chan.buffer[i] + End(chan) = run.latest + chan.head + i
  /\ att[a].pc # "lagged" => run.latest + att[a].next <= End(chan) + Larger(att[a].last, run.acked)

(***************************************************************************)
(* What an attachment was given lies between its cursor and where its      *)
(* forwarder stands, ascending; and nothing between the two is missing.    *)
(***************************************************************************)
Within(a, events) ==
  /\ Ascending(events)
  /\ \A i \in 1 .. Len(events) : att[a].after < events[i] /\ events[i] <= att[a].last

Handed(a) ==
  /\ att[a].after <= att[a].last
  /\ Within(a, got[a])
  /\ Within(a, att[a].replay)

(* The k-th frame in the queue of connection c, of attachment a and with    *)
(* event e.                                                                 *)
FrameOf(c, k, a, e) ==
  /\ att[a].conn = c /\ att[a].pc \notin {"unused", "held"}
  /\ att[a].after < e /\ e <= att[a].last
  /\ \A i \in 1 .. Len(got[a]) : got[a][i] < e
  /\ \A i \in 1 .. k - 1 : queue[c][i][1] = a => queue[c][i][2] < e

Frame(c, k) == FrameOf(c, k, queue[c][k][1], queue[c][k][2])

Has(a, e) == \/ e \in Range(got[a]) \cup Range(att[a].replay)
             \/ <<a, e>> \in Range(queue[att[a].conn])

Complete(a) ==
  att[a].pc # "unused" /\ Open(att[a].conn) =>
    \A e \in att[a].after + 1 .. att[a].last : e > run.acked => Has(a, e)

EndedExpired(a) ==
  att[a].pc = "done" /\ ~att[a].aborted /\ Open(att[a].conn)
    => ReplayExpired(run, att[a].last)

DInv ==
  /\ TypeOK /\ GoodRun(run) /\ Counted
  /\ \A a \in Att : Placed(a) /\ Handed(a) /\ Complete(a) /\ EndedExpired(a)
  /\ \A a \in Live : Stands(a)
  /\ \A c \in Conn : Replaying(c) /\ \A k \in 1 .. Len(queue[c]) : Frame(c, k)

-----------------------------------------------------------------------------
(***************************************************************************)
(* The operators of LiveRun and Channel, as Delivery uses them.            *)
(***************************************************************************)
LEMMA LargerFacts ==
  ASSUME NEW m \in Nat, NEW n \in Nat
  PROVE  Larger(m, n) \in Nat /\ Larger(m, n) >= m /\ Larger(m, n) >= n /\ Larger(m, n) \in {m, n}
  BY DEF Larger

(* publish and acknowledge move the cursors of a run forward only. *)
LEMMA PublishedCursors ==
  ASSUME NEW r, GoodRun(r), NEW st \in RunStates
  PROVE  /\ GoodRun(Published(r, st)) /\ Published(r, st).latest = r.latest + 1
         /\ Published(r, st).acked = r.acked /\ Published(r, st).floor >= r.floor
<1>1. r \in LiveRuns /\ r.floor \in Nat /\ r.latest \in Nat
  BY DEF GoodRun, BoundedRun, LiveRuns
<1>2. Published(r, st).acked = r.acked
  BY <1>1 DEF Published, PushJournal, LiveRuns
<1>3. Published(r, st).floor >= r.floor
  <2> DEFINE grown == Append(r.journal, r.latest + 1)
  <2>1. /\ grown \in Seq(Nat) /\ grown # <<>> /\ Head(grown) \in Nat
    BY <1>1 DEF LiveRuns
  <2>2. Published(r, st).floor \in {r.floor, Larger(r.floor, Head(grown))}
    BY <1>1 DEF Published, PushJournal, LiveRuns
  <2> HIDE DEF grown
  <2>3. QED
    BY <1>1, <2>1, <2>2, LargerFacts
<1>4. QED
  BY <1>1, <1>2, <1>3, PublishedGood, PublishedFields

LEMMA AcknowledgedCursors ==
  ASSUME NEW r, GoodRun(r), NEW through \in Nat
  PROVE  /\ GoodRun(Acknowledged(r, through))
         /\ Acknowledged(r, through).latest = r.latest
         /\ Acknowledged(r, through).floor = r.floor
         /\ Acknowledged(r, through).acked >= r.acked
<1>1. r \in LiveRuns /\ r.acked \in Nat /\ r.latest \in Nat
  BY DEF GoodRun, BoundedRun, LiveRuns
<1>2. /\ Acknowledged(r, through).floor = r.floor
      /\ Acknowledged(r, through).latest = r.latest
      /\ Acknowledged(r, through).acked = Larger(r.acked, Smaller(through, r.latest))
  BY <1>1 DEF Acknowledged, LiveRuns
<1>3. Acknowledged(r, through).acked >= r.acked
  BY <1>1, <1>2 DEF Larger, Smaller
<1>4. QED
  BY <1>2, <1>3, AcknowledgedGood

(* A cursor at or above the latest event leaves nothing to replay. *)
LEMMA AfterBeyond ==
  ASSUME NEW journal \in Seq(Nat), NEW base \in Nat, NEW through \in Nat,
         through >= base + Len(journal),
         \A i \in 1 .. Len(journal) : journal[i] = base + i
  PROVE  After(journal, through) = <<>>
<1> DEFINE P(k) == /\ \A i \in 1 .. k : journal[i] <= through
                   /\ k < Len(journal) => journal[k + 1] > through
           n == CHOOSE k \in 0 .. Len(journal) : P(k)
<1>1. Len(journal) \in Nat
  OBVIOUS
<1>2. \A i \in 1 .. Len(journal) : journal[i] \in Nat /\ journal[i] <= through
  BY <1>1
<1>3. P(Len(journal)) /\ Len(journal) \in 0 .. Len(journal)
  BY <1>1, <1>2
<1>4. ASSUME NEW k \in 0 .. Len(journal), P(k) PROVE k = Len(journal)
  <2>1. CASE k < Len(journal)
    <3>1. k + 1 \in 1 .. Len(journal)
      BY <1>1, <2>1
    <3>2. QED
      BY <1>2, <1>4, <2>1, <3>1
  <2>2. QED
    BY <1>1, <2>1
<1>5. (CHOOSE k \in 0 .. Len(journal) : P(k)) = Len(journal)
  BY <1>3, <1>4
<1>6. After(journal, through) = SubSeq(journal, Len(journal) + 1, Len(journal))
  BY <1>5 DEF After
<1>7. QED
  BY <1>1, <1>6

(* A replay that runs from one event to another without a hole. *)
LEMMA Contiguous ==
  ASSUME NEW replay \in Seq(Nat), NEW from \in Nat, NEW to \in Nat, from <= to,
         Len(replay) = to - from, \A i \in 1 .. Len(replay) : replay[i] = from + i
  PROVE  /\ Ascending(replay)
         /\ \A i \in 1 .. Len(replay) : from < replay[i] /\ replay[i] <= to
         /\ \A e \in from + 1 .. to : e \in Range(replay)
         /\ from = to => replay = <<>>
         /\ from < to => replay # <<>> /\ replay[Len(replay)] = to
<1>1. DOMAIN replay = 1 .. Len(replay) /\ Len(replay) \in Nat
  OBVIOUS
<1>2. Ascending(replay)
  BY <1>1 DEF Ascending
<1>3. \A i \in 1 .. Len(replay) : from < replay[i] /\ replay[i] <= to
  BY <1>1
<1>4. ASSUME NEW e \in from + 1 .. to PROVE e \in Range(replay)
  <2>1. e - from \in 1 .. Len(replay) /\ from + (e - from) = e
    OBVIOUS
  <2>2. replay[e - from] = e
    BY <2>1
  <2>3. QED
    BY <1>1, <2>1, <2>2 DEF Range
<1>5. from = to => replay = <<>>
  BY EmptySeq
<1>6. ASSUME from < to PROVE replay # <<>> /\ replay[Len(replay)] = to
  <2>1. Len(replay) \in 1 .. Len(replay) /\ from + Len(replay) = to
    BY <1>1, <1>6
  <2>2. QED
    BY <2>1
<1>7. QED
  BY <1>2, <1>3, <1>4, <1>5, <1>6

(* What attach replays above a cursor that has not expired: the events      *)
(* above it that are not acknowledged, in order and up to the latest.       *)
LEMMA ReplayFacts ==
  ASSUME NEW r, GoodRun(r), NEW after \in Nat, ~ReplayExpired(r, after),
         NEW replay, replay = Replay(r, after)
  PROVE  /\ replay \in Seq(Nat) /\ Ascending(replay)
         /\ \A i \in 1 .. Len(replay) : after < replay[i] /\ replay[i] <= Reached(after, replay)
         /\ Reached(after, replay) \in Nat /\ after <= Reached(after, replay)
         /\ r.latest <= Larger(Reached(after, replay), r.acked)
         /\ \A e \in after + 1 .. Reached(after, replay) : e > r.acked => e \in Range(replay)
<1> DEFINE base == RetainedFrom(r)
           from == Larger(base, after)
           latest == r.latest
           acked == r.acked
<1>1. /\ r.journal \in Seq(Nat) /\ Len(r.journal) \in Nat
      /\ latest \in Nat /\ acked \in Nat /\ r.floor \in Nat
      /\ base \in Nat /\ base = Larger(acked, r.floor) /\ base <= latest
      /\ Len(r.journal) = latest - base /\ base + Len(r.journal) = latest
      /\ r.floor <= after
  BY DEF GoodRun, BoundedRun, JournalExact, LiveRuns, RetainedFrom, Larger, ReplayExpired
<1>2. \A i \in 1 .. Len(r.journal) : r.journal[i] = base + i
  BY DEF GoodRun, JournalExact
<1>3. /\ from \in Nat /\ from >= after /\ (from = after \/ from = acked)
      /\ after <= latest => from <= latest
  BY <1>1 DEF Larger
<1>4. CASE after >= latest
  <2>1. replay = <<>>
    <3> HIDE DEF base, latest, acked
    <3>1. after >= base + Len(r.journal)
      BY <1>1, <1>4
    <3>2. QED
      BY <1>1, <1>2, <3>1, AfterBeyond, Zenon DEF Replay
  <2>2. Reached(after, replay) = after /\ Len(replay) = 0 /\ replay \in Seq(Nat)
    BY <2>1 DEF Reached
  <2>3. QED
    BY <1>1, <1>4, <2>2 DEF Ascending, Larger
<1>5. CASE after < latest
  <2>1. replay \in Seq(Nat) /\ Len(replay) = latest - from
        /\ \A i \in 1 .. Len(replay) : replay[i] = from + i
    <3>1. after <= base + Len(r.journal)
      <4> HIDE DEF base, latest, acked
      <4>1. QED
        BY <1>1, <1>5
    <3> HIDE DEF base, latest, acked
    <3> DEFINE rest == After(r.journal, after)
    <3>2. r.journal \in Seq(Nat) /\ base \in Nat
      BY <1>1
    <3>3. /\ rest \in Seq(Nat) /\ Len(rest) = base + Len(r.journal) - Larger(base, after)
          /\ \A i \in 1 .. Len(rest) : rest[i] = Larger(base, after) + i
      BY <1>2, <3>1, <3>2, AfterExact
    <3>4. replay = rest /\ base + Len(r.journal) = latest
      BY <1>1 DEF Replay
    <3> HIDE DEF rest
    <3>5. from \in Nat /\ latest \in Nat /\ base \in Nat /\ Len(r.journal) \in Nat
      BY <1>1, <1>3
    <3>6. QED
      BY <3>3, <3>4, <3>5
  <2> HIDE DEF base, latest, acked, from
  <2>2. from <= latest
    BY <1>1, <1>3, <1>5
  <2>3. /\ Ascending(replay)
        /\ \A i \in 1 .. Len(replay) : from < replay[i] /\ replay[i] <= latest
        /\ \A e \in from + 1 .. latest : e \in Range(replay)
        /\ from = latest => replay = <<>>
        /\ from < latest => replay # <<>> /\ replay[Len(replay)] = latest
    <3>1. latest \in Nat /\ from \in Nat
      BY <1>1, <1>3
    <3>2. QED
      BY <2>1, <2>2, <3>1, Contiguous
  <2>4. CASE from = latest
    <3>1. Reached(after, replay) = after /\ Len(replay) = 0
      BY <2>3, <2>4 DEF Reached
    <3>2. latest <= Larger(after, acked)
      BY <1>1, <1>3, <2>4 DEF Larger
    <3>3. after + 1 .. after = {} /\ 1 .. Len(replay) = {}
      BY <3>1
    <3>4. QED
      BY <2>1, <2>3, <3>1, <3>2, <3>3 DEF latest, acked
  <2>5. CASE from < latest
    <3>1. Reached(after, replay) = latest
      BY <2>3, <2>5 DEF Reached
    <3>2. latest <= Larger(latest, acked)
      BY <1>1 DEF Larger
    <3>3. \A e \in after + 1 .. latest : e > acked => e \in from + 1 .. latest
      BY <1>1, <1>3
    <3>4. \A i \in 1 .. Len(replay) : after < replay[i] /\ replay[i] <= latest
      <4>1. \A i \in 1 .. Len(replay) : after < from + i
        BY <1>3
      <4>2. QED
        BY <2>1, <2>3, <4>1, Zenon
    <3>5. after <= latest /\ latest \in Nat
      BY <1>1, <1>5
    <3>6. QED
      BY <2>1, <2>3, <3>1, <3>2, <3>3, <3>4, <3>5, Zenon DEF latest, acked
  <2>6. QED
    BY <1>1, <1>3, <2>2, <2>4, <2>5
<1>6. QED
  BY <1>1, <1>4, <1>5


(***************************************************************************)
(* A send while there is a receiver: the value comes last, and each other  *)
(* value that is still held keeps its position.  First the two buffers     *)
(* that may come of it.                                                    *)
(***************************************************************************)
LEMMA Grown ==
  ASSUME NEW buffer \in Seq(Nat), NEW v \in Nat, NEW grown, grown = Append(buffer, v)
  PROVE  /\ grown \in Seq(Nat) /\ Len(grown) = Len(buffer) + 1
         /\ \A i \in 1 .. Len(grown) :
              \/ i = Len(buffer) + 1 /\ grown[i] = v
              \/ i \in 1 .. Len(buffer) /\ grown[i] = buffer[i]
         /\ Tail(grown) \in Seq(Nat) /\ Len(Tail(grown)) = Len(buffer)
         /\ \A i \in 1 .. Len(Tail(grown)) :
              \/ i = Len(buffer) /\ Tail(grown)[i] = v
              \/ i + 1 \in 1 .. Len(buffer) /\ Tail(grown)[i] = buffer[i + 1]
<1> DEFINE n == Len(buffer)
<1>1. /\ grown \in Seq(Nat) /\ Len(grown) = n + 1 /\ grown # <<>> /\ n \in Nat
      /\ \A i \in 1 .. n : grown[i] = buffer[i]
      /\ grown[n + 1] = v
  OBVIOUS
<1>2. /\ Tail(grown) \in Seq(Nat) /\ Len(Tail(grown)) = n
      /\ \A i \in 1 .. n : Tail(grown)[i] = grown[i + 1]
  BY <1>1
<1> HIDE DEF n
<1>3. ASSUME NEW i \in 1 .. n + 1
      PROVE  (i = n + 1 /\ grown[i] = v) \/ (i \in 1 .. n /\ grown[i] = buffer[i])
  BY <1>1
<1>4. ASSUME NEW i \in 1 .. n
      PROVE  \/ i = n /\ Tail(grown)[i] = v
             \/ i + 1 \in 1 .. n /\ Tail(grown)[i] = buffer[i + 1]
  <2>1. i + 1 \in 1 .. n + 1 /\ (i + 1 = n + 1 => i = n)
    BY <1>1
  <2>2. QED
    BY <1>2, <1>3, <2>1
<1>5. QED
  BY <1>1, <1>2, <1>3, <1>4 DEF n

LEMMA SentTo ==
  ASSUME NEW ch \in Channels(Nat), Len(ch.buffer) <= Capacity, NEW v \in Nat,
         NEW to, to = SendTo(ch, v)
  PROVE  /\ to \in Channels(Nat) /\ Len(to.buffer) <= Capacity
         /\ to.receivers = ch.receivers
         /\ ch.receivers > 0 =>
              /\ End(to) = End(ch) + 1
              /\ \A i \in 1 .. Len(to.buffer) :
                   \/ to.head + i = End(ch) + 1 /\ to.buffer[i] = v
                   \/ \E k \in 1 .. Len(ch.buffer) :
                        to.head + i = ch.head + k /\ to.buffer[i] = ch.buffer[k]
<1> DEFINE grown == Append(ch.buffer, v)
           n == Len(ch.buffer)
           h == ch.head
<1>1. ch.buffer \in Seq(Nat) /\ h \in Nat /\ ch.receivers \in Nat /\ n \in Nat
      /\ Capacity \in Nat \ {0} /\ n <= Capacity
  BY CapacityAssumption DEF Channels
<1>2. End(ch) = h + n /\ End(to) = to.head + Len(to.buffer)
  BY DEF End
<1>3. /\ grown \in Seq(Nat) /\ Len(grown) = n + 1
      /\ \A i \in 1 .. Len(grown) :
           (i = n + 1 /\ grown[i] = v) \/ (i \in 1 .. n /\ grown[i] = ch.buffer[i])
      /\ Tail(grown) \in Seq(Nat) /\ Len(Tail(grown)) = n
      /\ \A i \in 1 .. Len(Tail(grown)) :
           \/ i = n /\ Tail(grown)[i] = v
           \/ i + 1 \in 1 .. n /\ Tail(grown)[i] = ch.buffer[i + 1]
  BY <1>1, Grown
<1>4. CASE ch.receivers = 0
  <2>1. to = ch
    BY <1>4 DEF SendTo
  <2>2. QED
    BY <1>1, <1>4, <2>1
<1>5. CASE ch.receivers # 0 /\ ~(Len(grown) > Capacity)
  <2>1. to = [ch EXCEPT !.buffer = grown]
    BY <1>5 DEF SendTo
  <2> HIDE DEF grown
  <2>2. to.buffer = grown /\ to.head = h /\ to.receivers = ch.receivers /\ to \in Channels(Nat)
    BY <1>3, <2>1 DEF Channels
  <2> HIDE DEF h, n
  <2>3. End(to) = End(ch) + 1 /\ Len(to.buffer) <= Capacity
    <3>1. Len(to.buffer) = n + 1 /\ to.head = h
      BY <1>3, <2>2
    <3>2. n + 1 <= Capacity
      BY <1>1, <1>3, <1>5
    <3>3. QED
      BY <1>1, <1>2, <3>1, <3>2
  <2>4. ASSUME NEW i \in 1 .. Len(to.buffer)
        PROVE  \/ to.head + i = End(ch) + 1 /\ to.buffer[i] = v
               \/ i \in 1 .. n /\ to.head + i = h + i /\ to.buffer[i] = ch.buffer[i]
    BY <1>1, <1>2, <1>3, <2>2
  <2>5. QED
    BY <2>2, <2>3, <2>4 DEF n, h
<1>6. CASE ch.receivers # 0 /\ Len(grown) > Capacity
  <2>1. to = [ch EXCEPT !.buffer = Tail(grown), !.head = h + 1]
    BY <1>6 DEF SendTo
  <2> HIDE DEF grown
  <2>2. /\ to.buffer = Tail(grown) /\ to.head = h + 1 /\ to.receivers = ch.receivers
        /\ to \in Channels(Nat)
    <3>1. Tail(grown) \in Seq(Nat) /\ h + 1 \in Nat
      BY <1>1, <1>3
    <3>2. QED
      BY <2>1, <3>1 DEF Channels
  <2> HIDE DEF h, n
  <2>3. End(to) = End(ch) + 1 /\ Len(to.buffer) <= Capacity
    <3>1. Len(to.buffer) = n /\ to.head = h + 1
      BY <1>3, <2>2
    <3>2. QED
      BY <1>1, <1>2, <3>1
  <2>4. ASSUME NEW i \in 1 .. Len(to.buffer)
        PROVE  \/ to.head + i = End(ch) + 1 /\ to.buffer[i] = v
               \/ /\ i + 1 \in 1 .. n /\ to.head + i = h + (i + 1)
                  /\ to.buffer[i] = ch.buffer[i + 1]
    BY <1>1, <1>2, <1>3, <2>2
  <2>5. QED
    BY <2>2, <2>3, <2>4 DEF n, h
<1>7. QED
  BY <1>4, <1>5, <1>6

-----------------------------------------------------------------------------
(***************************************************************************)
(* The types, field by field.                                              *)
(***************************************************************************)
LEMMA AttFacts ==
  ASSUME TypeOK, NEW a \in Att
  PROVE  /\ att[a].pc \in AttPCs /\ att[a].conn \in Conn \cup {"none"}
         /\ att[a].after \in Nat /\ att[a].last \in Nat /\ att[a].next \in Nat
         /\ att[a].replay \in Seq(Nat) /\ att[a].aborted \in BOOLEAN
         /\ got[a] \in Seq(Nat)
  BY DEF TypeOK, Attachments

LEMMA RunFacts ==
  ASSUME TypeOK
  PROVE  /\ run.latest \in Nat /\ run.acked \in Nat /\ run.floor \in Nat
         /\ run.journal \in Seq(Nat)
  BY DEF TypeOK, LiveRuns

LEMMA ChanFacts ==
  ASSUME TypeOK
  PROVE  /\ chan.buffer \in Seq(Nat) /\ Len(chan.buffer) \in Nat
         /\ chan.head \in Nat /\ chan.receivers \in Nat
         /\ End(chan) = chan.head + Len(chan.buffer) /\ End(chan) \in Nat
  BY DEF TypeOK, Channels, End

LEMMA InitDInv == Init => DInv
<1> SUFFICES ASSUME Init PROVE DInv
  OBVIOUS
<1> USE DeliveryAssumption
<1>1. GoodRun(run)
  <2>1. GoodRun(NewRun) /\ NewRun \in LiveRuns
    BY NewRunGood DEF GoodRun, BoundedRun
  <2>2. run = [NewRun EXCEPT !.state = "running"] /\ "running" \in RunStates
    BY DEF Init, RunStates, ActiveStates
  <2> HIDE DEF NewRun
  <2>3. QED
    BY <2>1, <2>2 DEF GoodRun, BoundedRun, JournalExact, RetainedFrom, LiveRuns
<1>2. chan \in Channels(Nat) /\ Len(chan.buffer) = 0 /\ chan.receivers = 0
  <2>1. <<>> \in Seq(Nat)
    OBVIOUS
  <2>2. QED
    BY <2>1 DEF Init, NewChannel, Channels
<1>3. att \in [Att -> Attachments]
      /\ \A a \in Att : /\ att[a].pc = "unused" /\ att[a].replay = <<>>
                        /\ att[a].after = 0 /\ att[a].last = 0
  <2>1. <<>> \in Seq(Nat)
    OBVIOUS
  <2>2. QED
    BY <2>1 DEF Init, Unused, AttPCs, Attachments
<1>4. /\ conn \in [Conn -> [pc : {"ready", "replay", "closed"},
                            new : Att \cup {"none"}, cur : Att \cup {"none"}]]
      /\ \A c \in Conn : conn[c].pc = "ready"
  BY DEF Init
<1>5. /\ queue \in [Conn -> Seq(Att \X Nat)] /\ got \in [Att -> Seq(Nat)]
      /\ \A c \in Conn : queue[c] = <<>> /\ Len(queue[c]) = 0
      /\ \A a \in Att : got[a] = <<>> /\ Len(got[a]) = 0
  BY DEF Init
<1>6. TypeOK
  BY <1>1, <1>2, <1>3, <1>4, <1>5, CapacityAssumption DEF TypeOK, GoodRun, BoundedRun
<1>7. Live = {} /\ Counted
  <2>1. Live = {}
    BY <1>3 DEF Live, Running
  <2>2. QED
    BY <1>2, <2>1, FS_EmptySet DEF Counted
<1>8. \A a \in Att : Placed(a) /\ Handed(a) /\ Complete(a) /\ EndedExpired(a)
  BY <1>3, <1>5 DEF Placed, Handed, Within, Ascending, Complete, EndedExpired
<1>9. \A c \in Conn : Replaying(c) /\ \A k \in 1 .. Len(queue[c]) : Frame(c, k)
  BY <1>4, <1>5 DEF Replaying
<1>10. QED
  BY <1>1, <1>6, <1>7, <1>8, <1>9 DEF DInv

-----------------------------------------------------------------------------
(***************************************************************************)
(* The registry.                                                           *)
(***************************************************************************)
LEMMA RegistryStep ==
  ASSUME DInv, UNCHANGED <<conn, att, queue, got>>,
         GoodRun(run'), run'.acked >= run.acked, run'.floor >= run.floor
  PROVE  /\ \A a \in Att : Placed(a)' /\ Handed(a)' /\ Complete(a)' /\ EndedExpired(a)'
         /\ \A c \in Conn : Replaying(c)' /\ \A k \in 1 .. Len(queue'[c]) : Frame(c, k)'
         /\ Live' = Live
<1>1. Live' = Live
  BY DEF Live
<1>2. \A a \in Att : Placed(a)' /\ Handed(a)'
  BY DEF DInv, Placed, Handed, Within
<1>3. \A c \in Conn : Replaying(c)' /\ \A k \in 1 .. Len(queue'[c]) : Frame(c, k)'
  BY DEF DInv, Replaying, Frame, FrameOf
<1>4. TypeOK /\ run'.acked \in Nat /\ run'.floor \in Nat
  BY DEF DInv, GoodRun, BoundedRun, LiveRuns
<1>5. ASSUME NEW a \in Att PROVE Complete(a)'
  <2> SUFFICES ASSUME att[a].pc # "unused", Open(att[a].conn),
                      NEW e \in att[a].after + 1 .. att[a].last, e > run'.acked
               PROVE  Has(a, e)'
    BY DEF Complete, Open
  <2>1. e > run.acked
    BY <1>4, RunFacts, AttFacts
  <2>2. Has(a, e)
    BY <2>1 DEF DInv, Complete
  <2>3. QED
    BY <2>2 DEF Has
<1>6. ASSUME NEW a \in Att PROVE EndedExpired(a)'
  <2>1. EndedExpired(a)
    BY DEF DInv
  <2>2. QED
    BY <1>4, <2>1, RunFacts, AttFacts DEF EndedExpired, Open, ReplayExpired
<1>7. QED
  BY <1>1, <1>2, <1>3, <1>5, <1>6

LEMMA AcknowledgeDInv ==
  ASSUME DInv, NEW through \in Nat, Acknowledge(through)
  PROVE  DInv'
<1>1. /\ run' = Acknowledged(run, through)
      /\ UNCHANGED <<chan, conn, att, queue, got>> /\ GoodRun(run) /\ TypeOK
  BY DEF DInv, Acknowledge
<1>2. /\ GoodRun(run') /\ run'.latest = run.latest /\ run'.floor = run.floor
      /\ run'.acked >= run.acked
  BY <1>1, AcknowledgedCursors
<1>3. run'.acked \in Nat /\ run' \in LiveRuns
  BY <1>2 DEF GoodRun, BoundedRun, LiveRuns
<1>4. TypeOK'
  BY <1>1, <1>3 DEF TypeOK
<1>5. /\ \A a \in Att : Placed(a)' /\ Handed(a)' /\ Complete(a)' /\ EndedExpired(a)'
      /\ \A c \in Conn : Replaying(c)' /\ \A k \in 1 .. Len(queue'[c]) : Frame(c, k)'
      /\ Live' = Live
  <2>1. run'.floor >= run.floor
    BY <1>1, <1>2, RunFacts
  <2>2. QED
    BY <1>1, <1>2, <2>1, RegistryStep
<1>6. Counted'
  BY <1>1, <1>5 DEF DInv, Counted
<1>7. ASSUME NEW a \in Live PROVE Stands(a)'
  <2>1. Stands(a) /\ a \in Att
    BY DEF DInv, Live
  <2>2. Larger(att[a].last, run'.acked) \in Nat /\ Larger(att[a].last, run.acked) \in Nat
        /\ Larger(att[a].last, run'.acked) >= Larger(att[a].last, run.acked)
    BY <1>1, <1>2, <1>3, <2>1, AttFacts, RunFacts DEF Larger
  <2>3. run.latest + att[a].next \in Nat /\ End(chan) \in Nat
    BY <1>1, <2>1, AttFacts, RunFacts, ChanFacts
  <2>4. /\ chan' = chan /\ End(chan)' = End(chan) /\ att'[a] = att[a]
        /\ run'.latest = run.latest
    BY <1>1, <1>2
  <2>5. att[a].pc # "lagged" =>
          run.latest + att[a].next <= End(chan) + Larger(att[a].last, run'.acked)
    <3>1. att[a].pc # "lagged" =>
            run.latest + att[a].next <= End(chan) + Larger(att[a].last, run.acked)
      BY <2>1 DEF Stands
    <3> DEFINE m == Larger(att[a].last, run.acked)
               n == Larger(att[a].last, run'.acked)
               low == run.latest + att[a].next
    <3>2. low \in Nat /\ End(chan) \in Nat /\ m \in Nat /\ n \in Nat /\ m <= n
      BY <2>2, <2>3
    <3> HIDE DEF m, n, low
    <3>3. low <= End(chan) + m => low <= End(chan) + n
      BY <3>2
    <3>4. QED
      BY <3>1, <3>3 DEF m, n, low
  <2>6. QED
    BY <2>1, <2>4, <2>5, Zenon DEF Stands
<1>8. QED
  BY <1>2, <1>4, <1>5, <1>6, <1>7 DEF DInv

LEMMA PublishDInv == ASSUME DInv, Publish PROVE DInv'
<1>1. /\ run' = Published(run, "running") /\ chan' = SendTo(chan, run.latest + 1)
      /\ UNCHANGED <<conn, att, queue, got>> /\ GoodRun(run) /\ TypeOK /\ Counted
  BY DEF DInv, Publish
<1>2. /\ GoodRun(run') /\ run'.latest = run.latest + 1 /\ run'.acked = run.acked
      /\ run'.floor >= run.floor
  <2>1. "running" \in RunStates
    BY DEF RunStates, ActiveStates
  <2>2. QED
    BY <1>1, <2>1, PublishedCursors
<1>3. /\ chan' \in Channels(Nat) /\ Len(chan'.buffer) <= Capacity
      /\ chan'.receivers = chan.receivers
      /\ chan.receivers > 0 =>
           /\ End(chan') = End(chan) + 1
           /\ \A i \in 1 .. Len(chan'.buffer) :
                \/ chan'.head + i = End(chan) + 1 /\ chan'.buffer[i] = run.latest + 1
                \/ \E k \in 1 .. Len(chan.buffer) :
                     chan'.head + i = chan.head + k /\ chan'.buffer[i] = chan.buffer[k]
  <2>1. chan \in Channels(Nat) /\ Len(chan.buffer) <= Capacity /\ run.latest + 1 \in Nat
    BY <1>1, RunFacts DEF TypeOK
  <2>2. QED
    BY <1>1, <2>1, SentTo
<1>4. TypeOK'
  BY <1>1, <1>2, <1>3 DEF TypeOK, GoodRun, BoundedRun
<1>5. /\ \A a \in Att : Placed(a)' /\ Handed(a)' /\ Complete(a)' /\ EndedExpired(a)'
      /\ \A c \in Conn : Replaying(c)' /\ \A k \in 1 .. Len(queue'[c]) : Frame(c, k)'
      /\ Live' = Live
  <2>1. run'.acked >= run.acked
    BY <1>1, <1>2, RunFacts
  <2>2. QED
    BY <1>1, <1>2, <2>1, RegistryStep
<1>6. Counted'
  BY <1>1, <1>3, <1>5 DEF Counted
<1>7. ASSUME NEW a \in Live PROVE Stands(a)'
  <2>1. Stands(a) /\ a \in Att
    BY DEF DInv, Live
  <2>2. chan.receivers > 0
    <3>1. Cardinality(Live) # 0 /\ Cardinality(Live) \in Nat
      BY <1>1, FS_EmptySet, FS_CardinalityType DEF Counted
    <3>2. QED
      BY <1>1, <3>1 DEF Counted
  <2> DEFINE e == End(chan)
             at == att[a].next
             latest == run.latest
             big == Larger(att[a].last, run.acked)
  <2>3. /\ at <= e /\ e <= at + latest
        /\ att[a].pc # "lagged" => latest + at <= e + big
        /\ \A i \in 1 .. Len(chan.buffer) :
             at < chan.head + i => chan.buffer[i] + e = latest + chan.head + i
    BY <2>1 DEF Stands
  <2>4. /\ e \in Nat /\ at \in Nat /\ latest \in Nat /\ big \in Nat /\ chan.head \in Nat
        /\ chan.buffer \in Seq(Nat) /\ Len(chan.buffer) \in Nat
    BY <1>1, <2>1, AttFacts, RunFacts, ChanFacts, LargerFacts
  <2>5. End(chan') = e + 1 /\ att'[a] = att[a] /\ run'.latest = latest + 1
        /\ Larger(att'[a].last, run'.acked) = big
    BY <1>1, <1>2, <1>3, <2>2
  <2>6. chan'.head \in Nat /\ Len(chan'.buffer) \in Nat
    BY <1>3 DEF Channels
  <2> HIDE DEF e, at, latest, big
  <2>7. ASSUME NEW i \in 1 .. Len(chan'.buffer), at < chan'.head + i
        PROVE  chan'.buffer[i] + (e + 1) = (latest + 1) + chan'.head + i
    <3> DEFINE v == chan'.buffer[i]
               h == chan'.head
    <3>0. i \in Nat /\ v \in Nat /\ h \in Nat
      BY <1>3, <2>6 DEF Channels
    <3>1. CASE chan'.head + i = e + 1 /\ chan'.buffer[i] = latest + 1
      <4>1. h + i = e + 1 /\ v = latest + 1
        BY <3>1
      <4> HIDE DEF h, v
      <4>2. v + (e + 1) = (latest + 1) + h + i
        BY <2>4, <3>0, <4>1
      <4>3. QED
        BY <4>2 DEF h, v
    <3>2. CASE \E k \in 1 .. Len(chan.buffer) :
                 chan'.head + i = chan.head + k /\ chan'.buffer[i] = chan.buffer[k]
      <4>1. PICK k \in 1 .. Len(chan.buffer) : h + i = chan.head + k /\ v = chan.buffer[k]
        BY <3>2
      <4>2. at < h + i
        BY <2>7
      <4> HIDE DEF h, v
      <4>3. k \in Nat /\ v + e = latest + chan.head + k
        <5>1. at < chan.head + k
          BY <4>1, <4>2, Zenon
        <5>2. v + e = latest + chan.head + k
          BY <2>3, <4>1, <5>1, Zenon
        <5>3. QED
          BY <2>4, <5>2
      <4>4. v + (e + 1) = (latest + 1) + h + i
        <5> DEFINE g == chan.head
        <5>1. /\ g \in Nat /\ k \in Nat /\ e \in Nat /\ latest \in Nat
              /\ h + i = g + k /\ v + e = latest + g + k
          BY <2>4, <4>1, <4>3
        <5> HIDE DEF g
        <5>2. QED
          BY <3>0, <5>1
      <4>5. QED
        BY <4>4 DEF h, v
    <3>3. QED
      BY <1>3, <2>2, <3>1, <3>2 DEF e, latest
  <2>8. /\ at <= e + 1 /\ e + 1 <= at + (latest + 1)
        /\ att[a].pc # "lagged" => (latest + 1) + at <= (e + 1) + big
    BY <2>3, <2>4
  <2>9. QED
    BY <2>5, <2>7, <2>8 DEF Stands, at
<1>8. QED
  BY <1>2, <1>4, <1>5, <1>6, <1>7 DEF DInv

-----------------------------------------------------------------------------
(***************************************************************************)
(* The forwarder.  What it puts into the queue comes after what is there.  *)
(***************************************************************************)
LEMMA QueueGrown ==
  ASSUME NEW q \in Seq(Att \X Nat), NEW a \in Att, NEW events \in Seq(Nat),
         NEW r, r = q \o Frames(a, events)
  PROVE  /\ r \in Seq(Att \X Nat) /\ Len(r) = Len(q) + Len(events)
         /\ \A k \in 1 .. Len(q) : k \in 1 .. Len(r) /\ r[k] = q[k]
         /\ \A k \in 1 .. Len(r) :
              \/ k \in 1 .. Len(q)
              \/ /\ k > Len(q) /\ k - Len(q) \in 1 .. Len(events)
                 /\ r[k] = <<a, events[k - Len(q)]>>
         /\ Range(q) \subseteq Range(r)
         /\ \A e \in Range(events) : <<a, e>> \in Range(r)
<1> DEFINE f == Frames(a, events)
           m == Len(q)
           n == Len(events)
<1>1. /\ n \in Nat /\ m \in Nat
      /\ DOMAIN events = 1 .. n /\ DOMAIN q = 1 .. m
      /\ \A i \in 1 .. n : events[i] \in Nat
  OBVIOUS
<1>2. f \in Seq(Att \X Nat) /\ Len(f) = n /\ \A i \in 1 .. n : f[i] = <<a, events[i]>>
  BY <1>1 DEF Frames
<1> HIDE DEF f
<1>3. /\ r \in Seq(Att \X Nat) /\ Len(r) = m + n
      /\ \A i \in 1 .. m + n : r[i] = IF i <= m THEN q[i] ELSE f[i - m]
  <2>1. r = q \o f
    BY DEF f
  <2>2. /\ r \in Seq(Att \X Nat) /\ Len(r) = Len(q) + Len(f)
        /\ \A i \in 1 .. Len(q) + Len(f) : r[i] = IF i <= Len(q) THEN q[i] ELSE f[i - Len(q)]
    <3>1. f \in Seq(Att \X Nat)
      BY <1>2
    <3>2. LET s == q \o f
          IN  /\ s \in Seq(Att \X Nat) /\ Len(s) = Len(q) + Len(f)
              /\ \A i \in 1 .. Len(q) + Len(f) :
                   s[i] = IF i <= Len(q) THEN q[i] ELSE f[i - Len(q)]
      BY <3>1, ConcatProperties, Zenon
    <3>3. QED
      BY <2>1, <3>2, Zenon
  <2>3. QED
    BY <1>2, <2>2
<1>4. DOMAIN r = 1 .. m + n
  BY <1>3
<1> HIDE DEF m, n
<1>5. \A k \in 1 .. m : k \in 1 .. m + n /\ r[k] = q[k]
  BY <1>1, <1>3
<1>6. ASSUME NEW k \in 1 .. m + n, k \notin 1 .. m
      PROVE  k > m /\ k - m \in 1 .. n /\ r[k] = <<a, events[k - m]>>
  <2>1. k > m /\ k - m \in 1 .. n
    BY <1>1, <1>6
  <2>2. r[k] = f[k - m]
    BY <1>1, <1>3, <2>1
  <2>3. QED
    BY <1>2, <2>1, <2>2
<1>7. Range(q) \subseteq Range(r)
  BY <1>1, <1>4, <1>5 DEF Range
<1>8. ASSUME NEW e \in Range(events) PROVE <<a, e>> \in Range(r)
  <2>1. PICK i \in 1 .. n : e = events[i]
    BY <1>1 DEF Range
  <2>2. m + i \in 1 .. m + n /\ m + i \notin 1 .. m /\ (m + i) - m = i
    BY <1>1
  <2>3. r[m + i] = <<a, e>>
    BY <1>6, <2>1, <2>2
  <2>4. QED
    BY <1>4, <2>2, <2>3 DEF Range
<1>9. QED
  BY <1>3, <1>5, <1>6, <1>7, <1>8 DEF m, n

(* Nothing put into a queue leaves it as it is. *)
LEMMA QueueSame ==
  ASSUME TypeOK, NEW a \in Att, NEW c \in Conn
  PROVE  queue = [queue EXCEPT ![c] = @ \o Frames(a, <<>>)]
<1>1. queue[c] \in Seq(Att \X Nat)
  BY DEF TypeOK
<1>2. Frames(a, <<>>) = <<>>
  BY DEF Frames
<1>3. queue[c] \o <<>> = queue[c]
  BY <1>1, ConcatEmptySeq
<1>4. QED
  BY <1>2, <1>3 DEF TypeOK

(***************************************************************************)
(* What the forwarder of attachment a does when it does not end: it stands *)
(* at `last` now, with the events up to there in the queue.                *)
(***************************************************************************)
Moves(a, pc, last, next) ==
  /\ \A x \in Att : x # a => att'[x] = att[x]
  /\ att'[a].pc = pc /\ att'[a].last = last /\ att'[a].next = next
  /\ att'[a].conn = att[a].conn /\ att'[a].after = att[a].after
  /\ att'[a].replay = att[a].replay /\ att'[a].aborted = att[a].aborted
  /\ att' \in [Att -> Attachments]

Reaches(a, events, last) ==
  /\ events \in Seq(Nat) /\ last \in Nat /\ att[a].last <= last
  /\ Ascending(events)
  /\ \A i \in 1 .. Len(events) : att[a].last < events[i] /\ events[i] <= last
  /\ \A e \in att[a].last + 1 .. last : e > run.acked => e \in Range(events)

Grows(c, a, events) ==
  /\ queue' \in [Conn -> Seq(Att \X Nat)]
  /\ \A d \in Conn : d # c => queue'[d] = queue[d]
  /\ Len(queue'[c]) = Len(queue[c]) + Len(events)
  /\ \A k \in 1 .. Len(queue[c]) : k \in 1 .. Len(queue'[c]) /\ queue'[c][k] = queue[c][k]
  /\ \A k \in 1 .. Len(queue'[c]) :
       \/ k \in 1 .. Len(queue[c])
       \/ /\ k > Len(queue[c]) /\ k - Len(queue[c]) \in 1 .. Len(events)
          /\ queue'[c][k] = <<a, events[k - Len(queue[c])]>>
  /\ Range(queue[c]) \subseteq Range(queue'[c])
  /\ \A e \in Range(events) : <<a, e>> \in Range(queue'[c])

LEMMA MovesIntro ==
  ASSUME TypeOK, NEW a \in Att, NEW pc \in AttPCs, NEW last \in Nat, NEW next \in Nat,
         att' = [att EXCEPT ![a].pc = pc, ![a].last = last, ![a].next = next]
  PROVE  Moves(a, pc, last, next)
<1>1. att \in [Att -> Attachments] /\ att[a] \in Attachments
  BY DEF TypeOK
<1>2. att' = [att EXCEPT ![a] = [att[a] EXCEPT !.pc = pc, !.last = last, !.next = next]]
  BY <1>1
<1> DEFINE new == [att[a] EXCEPT !.pc = pc, !.last = last, !.next = next]
<1>3. /\ new \in Attachments
      /\ new.pc = pc /\ new.last = last /\ new.next = next
      /\ new.conn = att[a].conn /\ new.after = att[a].after
      /\ new.replay = att[a].replay /\ new.aborted = att[a].aborted
  BY <1>1 DEF Attachments
<1> HIDE DEF new
<1>4. att' = [att EXCEPT ![a] = new]
  BY <1>2 DEF new
<1>5. att' \in [Att -> Attachments]
  BY <1>1, <1>3, <1>4
<1>6. att'[a] = new /\ \A x \in Att : x # a => att'[x] = att[x]
  BY <1>1, <1>4
<1>7. QED
  BY <1>3, <1>5, <1>6 DEF Moves

LEMMA GrowsIntro ==
  ASSUME TypeOK, NEW c \in Conn, NEW a \in Att, NEW events \in Seq(Nat),
         queue' = [queue EXCEPT ![c] = @ \o Frames(a, events)]
  PROVE  Grows(c, a, events)
<1>1. queue \in [Conn -> Seq(Att \X Nat)] /\ queue[c] \in Seq(Att \X Nat)
  BY DEF TypeOK
<1>2. /\ queue'[c] = queue[c] \o Frames(a, events)
      /\ \A d \in Conn : d # c => queue'[d] = queue[d]
      /\ DOMAIN queue' = Conn /\ queue' = [d \in Conn |-> queue'[d]]
  BY <1>1
<1>3. /\ queue'[c] \in Seq(Att \X Nat) /\ Len(queue'[c]) = Len(queue[c]) + Len(events)
      /\ \A k \in 1 .. Len(queue[c]) : k \in 1 .. Len(queue'[c]) /\ queue'[c][k] = queue[c][k]
      /\ \A k \in 1 .. Len(queue'[c]) :
           \/ k \in 1 .. Len(queue[c])
           \/ /\ k > Len(queue[c]) /\ k - Len(queue[c]) \in 1 .. Len(events)
              /\ queue'[c][k] = <<a, events[k - Len(queue[c])]>>
      /\ Range(queue[c]) \subseteq Range(queue'[c])
      /\ \A e \in Range(events) : <<a, e>> \in Range(queue'[c])
  BY <1>1, <1>2, QueueGrown, Zenon
<1>4. queue' \in [Conn -> Seq(Att \X Nat)]
  BY <1>1, <1>2, <1>3
<1>5. QED
  BY <1>2, <1>3, <1>4 DEF Grows

(* The frames that were in the queue, and those that come after them. *)
LEMMA GrownFrames ==
  ASSUME DInv, NEW a \in Att, att[a].pc \in Running, NEW pc \in Running,
         NEW c \in Conn, c = att[a].conn, NEW events, NEW last, NEW next, UNCHANGED got,
         Reaches(a, events, last), Moves(a, pc, last, next), Grows(c, a, events)
  PROVE  \A d \in Conn : \A k \in 1 .. Len(queue'[d]) : Frame(d, k)'
<1>1. /\ TypeOK /\ Handed(a) /\ pc \notin {"unused", "held"}
      /\ \A d \in Conn : \A k \in 1 .. Len(queue[d]) : Frame(d, k)
      /\ \A d \in Conn : queue[d] \in Seq(Att \X Nat)
  BY DEF DInv, Placed, TypeOK, Running
<1>2. /\ att[a].after \in Nat /\ att[a].last \in Nat /\ att[a].after <= att[a].last
      /\ \A i \in 1 .. Len(got[a]) : got[a][i] <= att[a].last /\ got[a][i] \in Nat
  BY <1>1, AttFacts DEF Handed, Within
<1>3. last \in Nat /\ att[a].last <= last /\ events \in Seq(Nat) /\ Len(events) \in Nat
  BY DEF Reaches
<1>4. ASSUME NEW d \in Conn, d # c, NEW k \in 1 .. Len(queue'[d]) PROVE Frame(d, k)'
  <2>1. queue'[d] = queue[d] /\ Frame(d, k) /\ queue[d] \in Seq(Att \X Nat)
    BY <1>1, <1>4 DEF Grows
  <2>2. queue[d][k][1] \in Att /\ queue[d][k][1] # a
    BY <1>4, <2>1 DEF Frame, FrameOf
  <2>3. att'[queue[d][k][1]] = att[queue[d][k][1]]
    BY <2>2 DEF Moves
  <2>4. QED
    BY <2>1, <2>3 DEF Frame, FrameOf
<1> DEFINE q == queue[c]
<1>5. ASSUME NEW k \in 1 .. Len(q) PROVE Frame(c, k)'
  <2> DEFINE x == q[k][1]
             e == q[k][2]
  <2>1. q \in Seq(Att \X Nat) /\ Len(q) \in Nat
    BY <1>1
  <2>2. x \in Att /\ e \in Nat /\ queue'[c][k] = q[k] /\ FrameOf(c, k, x, e)
    <3>1. q[k] \in Att \X Nat
      BY <1>5, <2>1
    <3>2. queue'[c][k] = q[k]
      BY <1>5 DEF Grows
    <3>3. Frame(c, k)
      BY <1>1, <1>5, Zenon
    <3>4. QED
      BY <3>1, <3>2, <3>3 DEF Frame
  <2>3. \A i \in 1 .. k - 1 : queue'[c][i] = q[i]
    <3>1. \A i \in 1 .. k - 1 : i \in 1 .. Len(q)
      BY <1>5, <2>1
    <3>2. QED
      BY <3>1 DEF Grows
  <2> HIDE DEF x, e, q
  <2>4. /\ att'[x].conn = att[x].conn /\ att'[x].after = att[x].after
        /\ att'[x].pc \notin {"unused", "held"} /\ e <= att'[x].last
    <3>1. CASE x = a
      BY <1>1, <1>2, <1>3, <2>2, <3>1 DEF Moves, FrameOf
    <3>2. CASE x # a
      BY <2>2, <3>2 DEF Moves, FrameOf
    <3>3. QED
      BY <3>1, <3>2
  <2>5. \A i \in 1 .. k - 1 : queue'[c][i][1] = x => queue'[c][i][2] < e
    BY <2>2, <2>3 DEF FrameOf, q
  <2>6. queue'[c][k][1] = x /\ queue'[c][k][2] = e
    BY <2>2 DEF x, e
  <2>7. /\ att'[x].conn = c /\ att'[x].pc \notin {"unused", "held"}
        /\ att'[x].after < e /\ e <= att'[x].last
        /\ \A i \in 1 .. Len(got'[x]) : got'[x][i] < e
    BY <2>2, <2>4 DEF FrameOf
  <2>8. QED
    BY <2>5, <2>6, <2>7 DEF Frame, FrameOf
<1>6. ASSUME NEW k \in 1 .. Len(queue'[c]), k \notin 1 .. Len(q) PROVE Frame(c, k)'
  <2> DEFINE m == Len(q)
             e == events[k - m]
  <2>1. q \in Seq(Att \X Nat) /\ m \in Nat /\ k \in Nat
    <3>1. q \in Seq(Att \X Nat) /\ queue'[c] \in Seq(Att \X Nat)
      BY <1>1 DEF Grows
    <3>2. Len(q) \in Nat /\ Len(queue'[c]) \in Nat
      BY <3>1
    <3>3. QED
      BY <1>6, <3>1, <3>2
  <2>2. k > m /\ k - m \in 1 .. Len(events) /\ queue'[c][k] = <<a, e>>
    BY <1>6 DEF Grows
  <2>3. att[a].last < e /\ e <= last /\ e \in Nat
    <3>1. /\ events \in Seq(Nat)
          /\ \A i \in 1 .. Len(events) : att[a].last < events[i] /\ events[i] <= last
      BY DEF Reaches
    <3>2. \A i \in 1 .. Len(events) : events[i] \in Nat
      BY <3>1
    <3>3. QED
      BY <2>2, <3>1, <3>2, Zenon
  <2>4. ASSUME NEW i \in 1 .. k - 1, queue'[c][i][1] = a PROVE queue'[c][i][2] < e
    <3>1. CASE i \in 1 .. m
      <4>1. queue'[c][i] = q[i] /\ q[i] \in Att \X Nat /\ q[i][1] = a
        <5>1. q[i] \in Att \X Nat
          BY <2>1, <3>1
        <5>2. queue'[c][i] = q[i]
          BY <3>1 DEF Grows
        <5>3. QED
          BY <2>4, <5>1, <5>2, Zenon
      <4>2. q[i][2] <= att[a].last /\ q[i][2] \in Nat
        BY <1>1, <3>1, <4>1 DEF Frame, FrameOf
      <4> HIDE DEF e, q
      <4>3. q[i][2] < e
        BY <1>2, <2>3, <4>2
      <4>4. QED
        BY <4>1, <4>3
    <3>2. CASE i \notin 1 .. m
      <4>1. i \in 1 .. Len(queue'[c])
        BY <1>6, <2>1, <2>4
      <4>2. i - m \in 1 .. Len(events) /\ queue'[c][i] = <<a, events[i - m]>>
        BY <3>2, <4>1 DEF Grows
      <4>3. i - m < k - m
        <5> HIDE DEF m
        <5>1. QED
          BY <2>1, <2>2, <2>4
      <4>4. events[i - m] < e
        BY <2>2, <4>2, <4>3 DEF Reaches, Ascending
      <4>5. queue'[c][i][2] = events[i - m]
        BY <4>2
      <4>6. QED
        BY <4>4, <4>5
    <3>3. QED
      BY <3>1, <3>2
  <2> HIDE DEF e, m
  <2>5. att[a].after < e /\ \A i \in 1 .. Len(got[a]) : got[a][i] < e
    BY <1>2, <2>3
  <2>6. queue'[c][k][1] = a /\ queue'[c][k][2] = e
    BY <2>2
  <2>7. /\ att'[a].conn = c /\ att'[a].pc \notin {"unused", "held"}
        /\ att'[a].after < e /\ e <= att'[a].last
        /\ \A i \in 1 .. Len(got'[a]) : got'[a][i] < e
    BY <1>1, <2>3, <2>5 DEF Moves
  <2>8. QED
    BY <2>4, <2>6, <2>7 DEF Frame, FrameOf
<1>7. QED
  BY <1>4, <1>5, <1>6

LEMMA ForwardedDInv ==
  ASSUME DInv, NEW a \in Att, att[a].pc \in Running, NEW pc \in Running,
         NEW c \in Conn, c = att[a].conn, NEW events, NEW last, NEW next,
         UNCHANGED <<run, chan, conn, got>>,
         Reaches(a, events, last), Moves(a, pc, last, next), Grows(c, a, events),
         Stands(a)'
  PROVE  DInv'
<1>1. /\ TypeOK /\ GoodRun(run) /\ Counted
      /\ pc \notin {"unused", "held", "done"} /\ att[a].pc \notin {"unused", "held", "done"}
  BY DEF DInv, Running
<1>2. /\ \A x \in Att : x # a => att'[x] = att[x]
      /\ att'[a].pc = pc /\ att'[a].last = last /\ att'[a].next = next
      /\ att'[a].conn = c /\ att'[a].after = att[a].after
      /\ att'[a].replay = att[a].replay /\ att'[a].aborted = att[a].aborted
      /\ att' \in [Att -> Attachments]
  BY DEF Moves
<1>3. TypeOK'
  <2>1. queue' \in [Conn -> Seq(Att \X Nat)]
    BY DEF Grows
  <2>2. QED
    BY <1>1, <1>2, <2>1 DEF TypeOK
<1>4. Live' = Live
  BY <1>2 DEF Live
<1>5. Counted'
  BY <1>1, <1>4 DEF Counted
<1>6. \A x \in Att : Placed(x)'
  <2>1. \A x \in Att : Placed(x)
    BY DEF DInv
  <2>2. QED
    BY <1>1, <1>2, <2>1 DEF Placed
<1>7. \A d \in Conn : Replaying(d)'
  <2>1. \A d \in Conn : Replaying(d)
    BY DEF DInv
  <2>2. QED
    BY <1>1, <1>2, <2>1 DEF Replaying
<1>8. last \in Nat /\ att[a].last <= last /\ att[a].last \in Nat /\ att[a].after \in Nat
  BY <1>1, AttFacts DEF Reaches
<1>9. ASSUME NEW x \in Att PROVE Handed(x)'
  <2>1. Handed(x)
    BY DEF DInv
  <2>2. CASE x # a
    BY <1>2, <2>1, <2>2 DEF Handed, Within
  <2>3. CASE x = a
    <3>1. /\ \A i \in 1 .. Len(got[a]) : got[a][i] \in Nat
          /\ \A i \in 1 .. Len(att[a].replay) : att[a].replay[i] \in Nat
      BY <1>1, AttFacts
    <3>2. QED
      BY <1>2, <1>8, <2>1, <2>3, <3>1 DEF Handed, Within
  <2>4. QED
    BY <2>2, <2>3
<1>10. ASSUME NEW x \in Att, NEW e, att[x].pc # "unused", Has(x, e) PROVE Has(x, e)'
  <2>1. att'[x].conn = att[x].conn /\ att'[x].replay = att[x].replay
    BY <1>2
  <2>2. att[x].conn \in Conn
    BY <1>10 DEF DInv, Placed
  <2>3. Range(queue[att[x].conn]) \subseteq Range(queue'[att[x].conn])
    BY <2>2 DEF Grows
  <2>4. QED
    BY <1>10, <2>1, <2>3 DEF Has
<1>11. ASSUME NEW x \in Att PROVE Complete(x)'
  <2>1. Complete(x)
    BY DEF DInv
  <2>2. CASE x # a
    BY <1>2, <1>10, <2>1, <2>2 DEF Complete, Open
  <2>3. CASE x = a
    <3> SUFFICES ASSUME Open(c), NEW e \in att[a].after + 1 .. last, e > run.acked
                 PROVE  Has(a, e)'
      BY <1>2, <2>3 DEF Complete, Open
    <3>1. CASE e <= att[a].last
      <4>1. e \in att[a].after + 1 .. att[a].last
        BY <1>8, <3>1
      <4>2. Has(a, e)
        BY <1>1, <2>1, <2>3, <4>1 DEF Complete
      <4>3. QED
        BY <1>1, <1>10, <4>2
    <3>2. CASE ~(e <= att[a].last)
      <4>1. e \in att[a].last + 1 .. last
        BY <1>8, <3>2
      <4>2. e \in Range(events)
        BY <4>1 DEF Reaches
      <4>3. <<a, e>> \in Range(queue'[c])
        BY <4>2 DEF Grows
      <4>4. QED
        BY <1>2, <4>3 DEF Has
    <3>3. QED
      BY <3>1, <3>2
  <2>4. QED
    BY <2>2, <2>3
<1>12. ASSUME NEW x \in Att PROVE EndedExpired(x)'
  <2>1. EndedExpired(x)
    BY DEF DInv
  <2>2. QED
    BY <1>1, <1>2, <2>1 DEF EndedExpired, Open
<1>13. ASSUME NEW x \in Live' PROVE Stands(x)'
  <2>1. Stands(x) /\ x \in Att
    BY <1>4 DEF DInv, Live
  <2>2. CASE x # a
    BY <1>2, <2>1, <2>2 DEF Stands
  <2>3. QED
    BY <2>2
<1>14. \A d \in Conn : \A k \in 1 .. Len(queue'[d]) : Frame(d, k)'
  BY GrownFrames
<1>15. GoodRun(run')
  BY <1>1
<1>16. QED
  BY <1>3, <1>5, <1>6, <1>7, <1>9, <1>11, <1>12, <1>13, <1>14, <1>15 DEF DInv

(* What an attachment that stays where it is has to show: nothing. *)
LEMMA ReachesSame == ASSUME TypeOK, NEW a \in Att PROVE Reaches(a, <<>>, att[a].last)
<1>1. att[a].last \in Nat /\ <<>> \in Seq(Nat) /\ Len(<<>>) = 0
  BY AttFacts
<1>2. att[a].last + 1 .. att[a].last = {}
  BY <1>1
<1>3. QED
  BY <1>1, <1>2 DEF Reaches, Ascending

(* Where the receiver stands, in numbers that stay the same. *)
LEMMA StandsFacts ==
  ASSUME DInv, NEW a \in Att, att[a].pc \in Running \cup {"held"}
  PROVE  /\ Stands(a) /\ a \in Live /\ TypeOK /\ att[a].conn \in Conn
         /\ End(chan) \in Nat /\ att[a].next \in Nat /\ run.latest \in Nat /\ run.acked \in Nat
         /\ att[a].last \in Nat /\ Larger(att[a].last, run.acked) \in Nat
<1>1. a \in Live /\ TypeOK
  BY DEF Live, DInv
<1>2. Stands(a) /\ att[a].conn \in Conn
  BY <1>1 DEF DInv, Placed, Running
<1>3. QED
  BY <1>1, <1>2, AttFacts, RunFacts, ChanFacts, LargerFacts

(* It parks, or is woken. *)
LEMMA PollDInv == ASSUME DInv, NEW a \in Att, Poll(a) \/ Park(a) PROVE DInv'
<1>1. PICK pc \in {"waiting", "polling"} :
        att' = [att EXCEPT ![a].pc = pc] /\ att[a].pc \in {"waiting", "polling"}
  BY DEF Poll, Park
<1>2. /\ UNCHANGED <<run, chan, conn, queue, got>> /\ pc \in Running /\ pc \in AttPCs
      /\ att[a].pc \in Running /\ pc # "lagged" /\ att[a].pc # "lagged"
  BY <1>1 DEF Poll, Park, Running, AttPCs
<1>3. Stands(a) /\ TypeOK /\ att[a].conn \in Conn /\ att[a].next \in Nat /\ att[a].last \in Nat
  BY <1>2, StandsFacts
<1>4. att' = [att EXCEPT ![a].pc = pc, ![a].last = att[a].last, ![a].next = att[a].next]
  BY <1>1, <1>3 DEF TypeOK, Attachments
<1>5. Moves(a, pc, att[a].last, att[a].next)
  BY <1>2, <1>3, <1>4, MovesIntro
<1>6. Grows(att[a].conn, a, <<>>)
  <2>1. <<>> \in Seq(Nat)
    OBVIOUS
  <2>2. queue' = [queue EXCEPT ![att[a].conn] = @ \o Frames(a, <<>>)]
    BY <1>2, <1>3, QueueSame
  <2>3. QED
    BY <1>3, <2>1, <2>2, GrowsIntro
<1>7. Stands(a)'
  BY <1>2, <1>3, <1>5 DEF Stands, Moves
<1>8. QED
  BY <1>2, <1>3, <1>5, <1>6, <1>7, ReachesSame, ForwardedDInv

(* recv returns Lagged. *)
LEMMA RecvLaggedDInv == ASSUME DInv, NEW a \in Att, RecvLagged(a) PROVE DInv'
<1>1. /\ att' = [att EXCEPT ![a].next = chan.head, ![a].pc = "lagged"]
      /\ UNCHANGED <<run, chan, conn, queue, got>>
      /\ att[a].pc \in Running /\ "lagged" \in Running /\ "lagged" \in AttPCs
      /\ att[a].next < chan.head
  BY DEF RecvLagged, Lags, Running, AttPCs
<1>2. Stands(a) /\ TypeOK /\ att[a].conn \in Conn /\ att[a].next \in Nat /\ att[a].last \in Nat
      /\ run.latest \in Nat
  BY <1>1, StandsFacts
<1>3. /\ chan.head \in Nat /\ Len(chan.buffer) \in Nat /\ End(chan) \in Nat
      /\ End(chan) = chan.head + Len(chan.buffer)
  BY <1>2, ChanFacts
<1>4. att' = [att EXCEPT ![a].pc = "lagged", ![a].last = att[a].last, ![a].next = chan.head]
  BY <1>1, <1>2 DEF TypeOK, Attachments
<1>5. Moves(a, "lagged", att[a].last, chan.head)
  BY <1>1, <1>2, <1>3, <1>4, MovesIntro
<1>6. Grows(att[a].conn, a, <<>>)
  <2>1. <<>> \in Seq(Nat)
    OBVIOUS
  <2>2. queue' = [queue EXCEPT ![att[a].conn] = @ \o Frames(a, <<>>)]
    BY <1>1, <1>2, QueueSame
  <2>3. QED
    BY <1>2, <2>1, <2>2, GrowsIntro
<1>7. Stands(a)'
  <2>1. chan.head <= End(chan) /\ End(chan) <= chan.head + run.latest
    <3>1. End(chan) <= att[a].next + run.latest
      BY <1>2 DEF Stands
    <3>2. QED
      BY <1>1, <1>2, <1>3, <3>1
  <2>2. \A i \in 1 .. Len(chan.buffer) : chan.buffer[i] + End(chan) = run.latest + chan.head + i
    <3>1. \A i \in 1 .. Len(chan.buffer) : att[a].next < chan.head + i
      BY <1>1, <1>2, <1>3
    <3>2. QED
      BY <1>2, <3>1 DEF Stands
  <2>3. att'[a].next = chan.head /\ att'[a].pc = "lagged"
    BY <1>5 DEF Moves
  <2>4. QED
    BY <1>1, <2>1, <2>2, <2>3 DEF Stands
<1>8. QED
  BY <1>1, <1>2, <1>5, <1>6, <1>7, ReachesSame, ForwardedDInv

(* A receiver goes: the channel counts one less, and is otherwise the same. *)
LEMMA ReceiverDropped ==
  ASSUME TypeOK, Counted, NEW a \in Live, Live' = Live \ {a}, chan' = ReceiverGone(chan)
  PROVE  /\ Counted' /\ chan' \in Channels(Nat)
         /\ chan'.buffer = chan.buffer /\ chan'.head = chan.head /\ End(chan') = End(chan)
<1>1. /\ IsFiniteSet(Live \ {a}) /\ Cardinality(Live \ {a}) = Cardinality(Live) - 1
      /\ Cardinality(Live \ {a}) \in Nat
  BY FS_RemoveElement, FS_CardinalityType DEF Counted
<1>2. /\ chan'.buffer = chan.buffer /\ chan'.head = chan.head
      /\ chan'.receivers = chan.receivers - 1
  BY DEF ReceiverGone, TypeOK, Channels
<1>3. chan'.receivers = Cardinality(Live \ {a})
  BY <1>1, <1>2 DEF Counted
<1>4. chan' \in Channels(Nat)
  <2>1. chan.receivers - 1 \in Nat /\ chan \in Channels(Nat)
    BY <1>1 DEF Counted, TypeOK
  <2>2. QED
    BY <2>1 DEF ReceiverGone, Channels
<1>5. QED
  BY <1>1, <1>2, <1>3, <1>4 DEF Counted, End

LEMMA EndsDInv ==
  ASSUME DInv, NEW a \in Att, att[a].pc \in Running, Ends(a), UNCHANGED <<run, conn, got>>,
         att[a].aborted \/ ~Open(att[a].conn) \/ ReplayExpired(run, att[a].last)
  PROVE  DInv'
<1>1. /\ att' = [att EXCEPT ![a].pc = "done"] /\ chan' = ReceiverGone(chan)
      /\ UNCHANGED <<run, conn, queue, got>>
      /\ TypeOK /\ GoodRun(run) /\ Counted /\ "done" \in AttPCs
      /\ att[a].pc \notin {"unused", "held", "done"}
  BY DEF Ends, DInv, AttPCs, Running
<1>2. /\ \A x \in Att : x # a => att'[x] = att[x]
      /\ att'[a].pc = "done" /\ att'[a].last = att[a].last /\ att'[a].next = att[a].next
      /\ att'[a].conn = att[a].conn /\ att'[a].after = att[a].after
      /\ att'[a].replay = att[a].replay /\ att'[a].aborted = att[a].aborted
      /\ att' \in [Att -> Attachments]
  BY <1>1 DEF TypeOK, Attachments
<1>3. a \in Live /\ Live' = Live \ {a}
  <2>1. "done" \notin Running \cup {"held"}
    BY DEF Running
  <2>2. QED
    BY <1>2, <2>1 DEF Live
<1>4. /\ Counted' /\ chan' \in Channels(Nat)
      /\ chan'.buffer = chan.buffer /\ chan'.head = chan.head /\ End(chan') = End(chan)
  BY <1>1, <1>3, ReceiverDropped
<1>5. TypeOK'
  BY <1>1, <1>2, <1>4 DEF TypeOK
<1>6. ASSUME NEW x \in Att PROVE Placed(x)' /\ Handed(x)'
  <2>1. Placed(x) /\ Handed(x)
    BY DEF DInv
  <2>2. Placed(x)'
    BY <1>1, <1>2, <2>1 DEF Placed
  <2>3. Handed(x)'
    BY <1>1, <1>2, <2>1 DEF Handed, Within
  <2>4. QED
    BY <2>2, <2>3
<1>7. ASSUME NEW d \in Conn PROVE Replaying(d)'
  <2>1. Replaying(d)
    BY DEF DInv
  <2>2. QED
    BY <1>1, <1>2, <2>1 DEF Replaying
<1>8. ASSUME NEW x \in Att PROVE Complete(x)'
  <2>1. Complete(x)
    BY DEF DInv
  <2>2. att'[x].pc # "unused" => att[x].pc # "unused"
    BY <1>1, <1>2
  <2>3. QED
    BY <1>1, <1>2, <2>1, <2>2 DEF Complete, Open, Has
<1>9. ASSUME NEW x \in Att PROVE EndedExpired(x)'
  <2>1. EndedExpired(x)
    BY DEF DInv
  <2>2. QED
    BY <1>1, <1>2, <2>1 DEF EndedExpired, Open
<1>10. ASSUME NEW x \in Live' PROVE Stands(x)'
  <2>1. Stands(x) /\ x \in Att /\ att'[x] = att[x]
    BY <1>2, <1>3 DEF DInv, Live
  <2>2. QED
    BY <1>1, <1>4, <2>1 DEF Stands
<1>11. ASSUME NEW d \in Conn, NEW k \in 1 .. Len(queue'[d]) PROVE Frame(d, k)'
  <2>1. Frame(d, k) /\ queue[d][k][1] \in Att
    BY <1>1 DEF DInv, TypeOK
  <2>2. QED
    BY <1>1, <1>2, <2>1 DEF Frame, FrameOf
<1>12. QED
  BY <1>1, <1>4, <1>5, <1>6, <1>7, <1>8, <1>9, <1>10, <1>11 DEF DInv

LEMMA StopDInv == ASSUME DInv, NEW a \in Att, Stop(a) PROVE DInv'
<1>1. att[a].pc \in Running /\ att[a].aborted /\ Ends(a) /\ UNCHANGED <<run, conn, got>>
  BY DEF Stop, Running
<1>2. QED
  BY <1>1, EndsDInv

(* That a receiver may stand at `next` when the forwarder stands at `last`. *)
Fits(last, next) ==
  /\ next <= End(chan) /\ End(chan) <= next + run.latest
  /\ \A i \in 1 .. Len(chan.buffer) :
       next < chan.head + i => chan.buffer[i] + End(chan) = run.latest + chan.head + i
  /\ run.latest + next <= End(chan) + Larger(last, run.acked)

LEMMA ForwardDInv ==
  ASSUME DInv, NEW a \in Att, att[a].pc \in Running, NEW events, NEW last, NEW next \in Nat,
         Forward(a, events, last, next), UNCHANGED <<run, conn, got>>,
         Reaches(a, events, last), Fits(last, next)
  PROVE  DInv'
<1> DEFINE c == att[a].conn
<1>1. TypeOK /\ c \in Conn
  BY StandsFacts
<1>2. CASE events # <<>> /\ ~Open(c)
  <2>1. Ends(a)
    BY <1>2 DEF Forward
  <2>2. QED
    BY <1>2, <2>1, EndsDInv
<1>3. CASE ~(events # <<>> /\ ~Open(c))
  <2>1. /\ queue' = IF events = <<>> THEN queue
                    ELSE [queue EXCEPT ![c] = @ \o Frames(a, events)]
        /\ att' = [att EXCEPT ![a].pc = "polling", ![a].last = last, ![a].next = next]
        /\ UNCHANGED <<run, chan, conn, got>>
    BY <1>3 DEF Forward
  <2>2. last \in Nat /\ events \in Seq(Nat) /\ "polling" \in Running /\ "polling" \in AttPCs
    BY DEF Reaches, Running, AttPCs
  <2>3. Moves(a, "polling", last, next)
    BY <1>1, <2>1, <2>2, MovesIntro
  <2>4. queue' = [queue EXCEPT ![c] = @ \o Frames(a, events)]
    BY <1>1, <2>1, QueueSame
  <2>5. Grows(c, a, events)
    BY <1>1, <2>2, <2>4, GrowsIntro
  <2>6. Stands(a)'
    BY <2>1, <2>3 DEF Stands, Fits, Moves
  <2>7. QED
    BY <1>1, <2>1, <2>2, <2>3, <2>5, <2>6, ForwardedDInv
<1>4. QED
  BY <1>2, <1>3

(* recv returns an event: it is skipped if it was replayed, and is          *)
(* otherwise the next one that is not acknowledged.                         *)
LEMMA RecvValueDInv == ASSUME DInv, NEW a \in Att, RecvValue(a) PROVE DInv'
<1> DEFINE at == att[a].next
           last == att[a].last
           e == End(chan)
           latest == run.latest
           acked == run.acked
           s == Value(chan, at)
           h == chan.head
<1>1. /\ att[a].pc = "polling" /\ att[a].pc \in Running /\ UNCHANGED <<run, conn, got>>
      /\ h <= at /\ at < e
      /\ IF s <= last THEN Forward(a, <<>>, last, at + 1) ELSE Forward(a, <<s>>, s, at + 1)
  BY DEF RecvValue, Running, Holds
<1>2. /\ Stands(a) /\ TypeOK /\ e \in Nat /\ at \in Nat /\ latest \in Nat /\ acked \in Nat
      /\ last \in Nat /\ Larger(last, acked) \in Nat
  BY <1>1, StandsFacts
<1>3. /\ h \in Nat /\ Len(chan.buffer) \in Nat /\ e = h + Len(chan.buffer)
      /\ chan.buffer \in Seq(Nat)
  BY <1>2, ChanFacts
<1>4. /\ e <= at + latest /\ latest + at <= e + Larger(last, acked)
      /\ \A i \in 1 .. Len(chan.buffer) : at < h + i => chan.buffer[i] + e = latest + h + i
  BY <1>1, <1>2 DEF Stands
<1>5. s \in Nat /\ s + e = latest + at + 1
  <2> DEFINE i == at - h + 1
             n == Len(chan.buffer)
  <2>1. i \in 1 .. n /\ at < h + i /\ h + i = at + 1
    <3>1. at \in Nat /\ h \in Nat /\ n \in Nat /\ h <= at /\ at < e /\ e = h + n
      BY <1>1, <1>2, <1>3
    <3> HIDE DEF at, h, e, n
    <3>2. QED
      BY <3>1
  <2>2. s = chan.buffer[i]
    BY DEF Value
  <2>3. chan.buffer[i] \in Nat
    BY <1>3, <2>1
  <2>4. chan.buffer[i] + e = latest + h + i
    BY <1>4, <2>1
  <2>5. latest \in Nat /\ h \in Nat /\ at \in Nat /\ i \in Nat /\ h + i = at + 1
    BY <1>2, <1>3, <2>1
  <2> HIDE DEF at, h, latest, i
  <2>6. latest + h + i = latest + at + 1
    BY <2>5
  <2>7. QED
    BY <2>2, <2>3, <2>4, <2>6, Zenon
<1> HIDE DEF s, at, h, e, latest, acked, last
<1>6. /\ at + 1 \in Nat /\ at + 1 <= e /\ e <= (at + 1) + latest
      /\ \A i \in 1 .. Len(chan.buffer) : at + 1 < h + i => at < h + i
  <2>1. at \in Nat /\ h \in Nat /\ e \in Nat /\ latest \in Nat /\ at < e /\ e <= at + latest
    BY <1>1, <1>2, <1>3, <1>4
  <2>2. QED
    BY <2>1
<1>7. CASE s <= last
  <2>1. Fits(last, at + 1)
    <3>1. s <= Larger(last, acked)
      BY <1>2, <1>5, <1>7 DEF Larger
    <3>2. latest + (at + 1) <= e + Larger(last, acked)
      BY <1>2, <1>5, <3>1
    <3>3. QED
      BY <1>4, <1>6, <3>2 DEF Fits, h, e, latest, acked
  <2>2. Reaches(a, <<>>, last)
    BY <1>2, ReachesSame DEF last
  <2>3. QED
    BY <1>1, <1>6, <1>7, <2>1, <2>2, ForwardDInv
<1>8. CASE ~(s <= last)
  <2>1. Fits(s, at + 1)
    <3>1. s <= Larger(s, acked) /\ Larger(s, acked) \in Nat
      BY <1>2, <1>5, LargerFacts
    <3>2. latest + (at + 1) <= e + Larger(s, acked)
      BY <1>2, <1>5, <3>1
    <3>3. QED
      BY <1>4, <1>6, <3>2 DEF Fits, h, e, latest, acked
  <2>2. Reaches(a, <<s>>, s)
    <3>1. <<s>> \in Seq(Nat) /\ Len(<<s>>) = 1 /\ <<s>>[1] = s /\ s \in Range(<<s>>)
      BY <1>5 DEF Range
    <3>2. ASSUME NEW d \in last + 1 .. s, d > acked PROVE d = s
      <4>1. s <= Larger(last, acked) + 1
        BY <1>2, <1>4, <1>5
      <4>2. QED
        BY <1>2, <1>5, <3>2, <4>1 DEF Larger
    <3>3. last < s /\ last <= s
      BY <1>2, <1>5, <1>8
    <3> DEFINE events == <<s>>
    <3> HIDE DEF events
    <3>4. /\ events \in Seq(Nat) /\ Len(events) = 1 /\ events[1] = s /\ s \in Range(events)
      BY <3>1 DEF events
    <3>5. Reaches(a, events, s)
      BY <1>5, <3>2, <3>3, <3>4 DEF Reaches, Ascending, last, acked
    <3>6. QED
      BY <3>5 DEF events
  <2>3. QED
    BY <1>1, <1>6, <1>8, <2>1, <2>2, ForwardDInv
<1>9. QED
  BY <1>7, <1>8

(* It attaches again after a lag: the replay brings it to the latest event. *)
LEMMA ReattachDInv == ASSUME DInv, NEW a \in Att, Reattach(a) PROVE DInv'
<1> DEFINE last == att[a].last
           replay == Replay(run, last)
<1>1. /\ att[a].pc \in Running /\ UNCHANGED <<run, conn, got>> /\ GoodRun(run)
      /\ IF ReplayExpired(run, last) THEN Ends(a)
         ELSE Forward(a, replay, Reached(last, replay), End(chan))
  BY DEF Reattach, Running, DInv
<1>2. TypeOK /\ last \in Nat /\ run.latest \in Nat /\ run.acked \in Nat
  BY <1>1, StandsFacts
<1>3. CASE ReplayExpired(run, last)
  BY <1>1, <1>3, EndsDInv
<1>4. CASE ~ReplayExpired(run, last)
  <2> HIDE DEF last, replay
  <2>1. /\ replay \in Seq(Nat) /\ Ascending(replay)
        /\ \A i \in 1 .. Len(replay) : last < replay[i] /\ replay[i] <= Reached(last, replay)
        /\ Reached(last, replay) \in Nat /\ last <= Reached(last, replay)
        /\ run.latest <= Larger(Reached(last, replay), run.acked)
        /\ \A e \in last + 1 .. Reached(last, replay) : e > run.acked => e \in Range(replay)
    <3>1. replay = Replay(run, last)
      BY DEF replay
    <3>2. QED
      BY <1>1, <1>2, <1>4, <3>1, ReplayFacts, Zenon
  <2> DEFINE to == Reached(last, replay)
  <2>2. Reaches(a, replay, to)
    BY <2>1, Zenon DEF Reaches, last
  <2>3. Fits(to, End(chan)) /\ End(chan) \in Nat
    <3> HIDE DEF to
    <3>1. /\ End(chan) \in Nat /\ chan.head \in Nat /\ Len(chan.buffer) \in Nat
          /\ End(chan) = chan.head + Len(chan.buffer)
      BY <1>2, ChanFacts
    <3>2. Larger(to, run.acked) \in Nat /\ run.latest <= Larger(to, run.acked)
      BY <1>2, <2>1, LargerFacts DEF to
    <3>3. \A i \in 1 .. Len(chan.buffer) : ~(End(chan) < chan.head + i)
      BY <3>1
    <3> DEFINE e == End(chan)
               big == Larger(to, run.acked)
               latest == run.latest
    <3>4. e \in Nat /\ big \in Nat /\ latest \in Nat /\ latest <= big
      BY <1>2, <3>1, <3>2
    <3> HIDE DEF e, big, latest
    <3>5. e <= e /\ e <= e + latest /\ latest + e <= e + big
      BY <3>4
    <3>6. QED
      BY <3>1, <3>3, <3>5 DEF Fits, e, big, latest
  <2>4. QED
    BY <1>1, <1>4, <2>2, <2>3, ForwardDInv DEF last, to
<1>5. QED
  BY <1>3, <1>4

-----------------------------------------------------------------------------
(***************************************************************************)
(* The handler and its client.  An abort changes nothing but the mark that *)
(* the forwarder finds when it is polled.                                  *)
(***************************************************************************)
Kept(x) ==
  /\ att'[x].conn = att[x].conn /\ att'[x].after = att[x].after
  /\ att'[x].last = att[x].last /\ att'[x].next = att[x].next
  /\ ~att'[x].aborted => ~att[x].aborted

Same(x) == Kept(x) /\ att'[x].pc = att[x].pc /\ att'[x].replay = att[x].replay

LEMMA AbortingFacts ==
  ASSUME TypeOK, NEW as
  PROVE  /\ Aborting(as) \in [Att -> Attachments]
         /\ \A x \in Att :
              /\ Aborting(as)[x].pc = att[x].pc /\ Aborting(as)[x].replay = att[x].replay
              /\ Aborting(as)[x].conn = att[x].conn /\ Aborting(as)[x].after = att[x].after
              /\ Aborting(as)[x].last = att[x].last /\ Aborting(as)[x].next = att[x].next
              /\ ~Aborting(as)[x].aborted => ~att[x].aborted
<1>1. ASSUME NEW x \in Att
      PROVE  /\ Aborting(as)[x] \in {att[x], [att[x] EXCEPT !.aborted = TRUE]}
             /\ att[x] \in Attachments
  BY <1>1 DEF Aborting, TypeOK
<1>2. ASSUME NEW x \in Att, NEW new \in {att[x], [att[x] EXCEPT !.aborted = TRUE]}
      PROVE  /\ new \in Attachments
             /\ new.pc = att[x].pc /\ new.replay = att[x].replay
             /\ new.conn = att[x].conn /\ new.after = att[x].after
             /\ new.last = att[x].last /\ new.next = att[x].next
             /\ ~new.aborted => ~att[x].aborted
  BY <1>1, <1>2 DEF Attachments
<1>3. DOMAIN Aborting(as) = Att /\ Aborting(as) = [x \in Att |-> Aborting(as)[x]]
  BY DEF Aborting
<1>4. ASSUME NEW x \in Att
      PROVE  /\ Aborting(as)[x] \in Attachments
             /\ Aborting(as)[x].pc = att[x].pc /\ Aborting(as)[x].replay = att[x].replay
             /\ Aborting(as)[x].conn = att[x].conn /\ Aborting(as)[x].after = att[x].after
             /\ Aborting(as)[x].last = att[x].last /\ Aborting(as)[x].next = att[x].next
             /\ ~Aborting(as)[x].aborted => ~att[x].aborted
  BY <1>1, <1>2, Zenon
<1>5. Aborting(as) \in [Att -> Attachments]
  BY <1>3, <1>4
<1>6. QED
  BY <1>4, <1>5, Zenon

LEMMA AbortingSame ==
  ASSUME TypeOK, NEW as, att' = Aborting(as)
  PROVE  att' \in [Att -> Attachments] /\ \A x \in Att : Same(x)
  BY AbortingFacts DEF Same, Kept

(* DetachRun. *)
LEMMA DetachDInv == ASSUME DInv, NEW c \in Conn, Detach(c) PROVE DInv'
<1>1. /\ TypeOK /\ GoodRun(run) /\ Counted /\ att' = Aborting({conn[c].cur})
      /\ conn' = [conn EXCEPT ![c].cur = "none"] /\ UNCHANGED <<run, chan, queue, got>>
  BY DEF DInv, Detach
<1>2. att' \in [Att -> Attachments] /\ \A x \in Att : Same(x)
  BY <1>1, AbortingSame
<1>3. /\ conn' \in [Conn -> [pc : {"ready", "replay", "closed"},
                             new : Att \cup {"none"}, cur : Att \cup {"none"}]]
      /\ \A d \in Conn : conn'[d].pc = conn[d].pc /\ conn'[d].new = conn[d].new
  BY <1>1 DEF TypeOK
<1>4. TypeOK'
  BY <1>1, <1>2, <1>3 DEF TypeOK
<1>5. Live' = Live /\ Counted'
  BY <1>1, <1>2 DEF Live, Counted, Same
<1>6. ASSUME NEW x \in Att PROVE Placed(x)' /\ Handed(x)' /\ Complete(x)' /\ EndedExpired(x)'
  <2>1. Placed(x) /\ Handed(x) /\ Complete(x) /\ EndedExpired(x) /\ Same(x)
    BY <1>2 DEF DInv
  <2>2. att[x].conn \in Conn => conn'[att[x].conn].pc = conn[att[x].conn].pc
                                /\ conn'[att[x].conn].new = conn[att[x].conn].new
    BY <1>3
  <2>3. att[x].pc # "unused" => att[x].conn \in Conn
    BY <2>1 DEF Placed
  <2>4. Placed(x)'
    BY <1>1, <2>1, <2>2, <2>3 DEF Placed, Same, Kept
  <2>5. Handed(x)'
    BY <1>1, <2>1 DEF Handed, Within, Same, Kept
  <2>6. Complete(x)'
    BY <1>1, <2>1, <2>2, <2>3 DEF Complete, Has, Open, Same, Kept
  <2>7. EndedExpired(x)'
    BY <1>1, <2>1, <2>2, <2>3 DEF EndedExpired, Open, Same, Kept
  <2>8. QED
    BY <2>4, <2>5, <2>6, <2>7
<1>7. ASSUME NEW x \in Live PROVE Stands(x)'
  <2>1. Stands(x) /\ Same(x)
    BY <1>2 DEF DInv, Live
  <2>2. QED
    BY <1>1, <2>1 DEF Stands, Same, Kept
<1>8. ASSUME NEW d \in Conn PROVE Replaying(d)'
  <2>1. Replaying(d)
    BY DEF DInv
  <2>2. QED
    BY <1>2, <1>3, <2>1 DEF Replaying, Same, Kept
<1>9. ASSUME NEW d \in Conn, NEW k \in 1 .. Len(queue'[d]) PROVE Frame(d, k)'
  <2>1. Frame(d, k) /\ queue[d][k][1] \in Att
    BY <1>1 DEF DInv, TypeOK
  <2>2. QED
    BY <1>1, <1>2, <2>1 DEF Frame, FrameOf, Same, Kept
<1>10. QED
  BY <1>1, <1>4, <1>5, <1>6, <1>7, <1>8, <1>9 DEF DInv

(***************************************************************************)
(* The handler returns: whatever was given on its connection is forgotten, *)
(* and an attachment that it was replaying goes with it.                   *)
(***************************************************************************)
LEMMA CloseDInv ==
  ASSUME DInv, NEW c \in Conn, Close(c), UNCHANGED run,
         att' \in [Att -> Attachments], \A x \in Att : Kept(x),
         \A x \in Att : Same(x) \/ /\ att[x].conn = c /\ att[x].pc = "held"
                                   /\ att'[x].pc = "done" /\ att'[x].replay = <<>>,
         conn[c].pc = "replay" => att'[conn[c].new].pc = "done",
         chan' \in Channels(Nat), chan'.buffer = chan.buffer, chan'.head = chan.head, Counted'
  PROVE  DInv'
<1>1. /\ TypeOK /\ GoodRun(run)
      /\ conn' = [conn EXCEPT ![c] = [pc |-> "closed", new |-> "none", cur |-> "none"]]
      /\ queue' = [queue EXCEPT ![c] = <<>>]
      /\ got' = [x \in Att |-> IF att[x].conn = c THEN <<>> ELSE got[x]]
  BY DEF DInv, Close
<1>2. /\ conn' \in [Conn -> [pc : {"ready", "replay", "closed"},
                             new : Att \cup {"none"}, cur : Att \cup {"none"}]]
      /\ conn'[c].pc = "closed" /\ \A d \in Conn : d # c => conn'[d] = conn[d]
  BY <1>1 DEF TypeOK
<1>3. /\ queue' \in [Conn -> Seq(Att \X Nat)]
      /\ queue'[c] = <<>> /\ \A d \in Conn : d # c => queue'[d] = queue[d]
  <2>1. <<>> \in Seq(Att \X Nat)
    OBVIOUS
  <2>2. QED
    BY <1>1, <2>1 DEF TypeOK
<1>4. /\ got' \in [Att -> Seq(Nat)]
      /\ \A x \in Att : got'[x] = <<>> \/ got'[x] = got[x]
      /\ \A x \in Att : att[x].conn # c => got'[x] = got[x]
  <2>1. <<>> \in Seq(Nat)
    OBVIOUS
  <2>2. QED
    BY <1>1, <2>1 DEF TypeOK
<1>5. TypeOK'
  BY <1>1, <1>2, <1>3, <1>4 DEF TypeOK
<1>6. \A x \in Att : att[x].conn # c => Same(x)
  OBVIOUS
<1>7. End(chan') = End(chan)
  BY DEF End
<1>8. ASSUME NEW x \in Att PROVE Placed(x)'
  <2>1. Placed(x) /\ Kept(x)
    BY DEF DInv
  <2>2. att'[x].pc = "unused" => got'[x] = <<>>
    <3>1. att'[x].pc = "unused" => att[x].pc = "unused"
      BY DEF Same
    <3>2. QED
      BY <1>4, <2>1, <3>1 DEF Placed
  <2>3. att'[x].pc # "unused" => att'[x].conn \in Conn
    <3>1. att'[x].pc # "unused" => att[x].pc # "unused"
      BY DEF Same
    <3>2. QED
      BY <2>1, <3>1 DEF Placed, Kept
  <2>4. ASSUME att'[x].pc = "held"
        PROVE  conn'[att'[x].conn].pc = "replay" /\ conn'[att'[x].conn].new = x /\ got'[x] = <<>>
    <3>1. att[x].pc = "held"
      BY <2>4 DEF Same
    <3>2. /\ conn[att[x].conn].pc = "replay" /\ conn[att[x].conn].new = x /\ got[x] = <<>>
          /\ att[x].conn \in Conn
      BY <2>1, <3>1 DEF Placed
    <3>3. att[x].conn # c
      BY <2>4, <3>2
    <3>4. QED
      BY <1>2, <1>4, <2>1, <3>2, <3>3 DEF Kept
  <2>5. att'[x].pc # "held" => att'[x].replay = <<>>
    BY <2>1 DEF Placed, Same
  <2>6. QED
    BY <2>2, <2>3, <2>4, <2>5 DEF Placed
<1>9. ASSUME NEW x \in Att PROVE Handed(x)'
  <2>1. Handed(x) /\ Kept(x)
    BY DEF DInv
  <2>2. ASSUME NEW events, events = <<>> \/ Within(x, events)
        PROVE  /\ Ascending(events)
               /\ \A i \in 1 .. Len(events) :
                    att'[x].after < events[i] /\ events[i] <= att'[x].last
    <3>1. CASE events = <<>>
      BY <3>1 DEF Ascending
    <3>2. CASE Within(x, events)
      BY <2>1, <3>2 DEF Within, Kept
    <3>3. QED
      BY <2>2, <3>1, <3>2
  <2>3. got'[x] = <<>> \/ Within(x, got'[x])
    BY <1>4, <2>1 DEF Handed
  <2>4. att'[x].replay = <<>> \/ Within(x, att'[x].replay)
    BY <2>1 DEF Handed, Same
  <2>5. att'[x].after <= att'[x].last
    BY <2>1 DEF Handed, Kept
  <2>6. QED
    BY <2>2, <2>3, <2>4, <2>5 DEF Handed, Within
<1>10. ASSUME NEW x \in Att, att'[x].pc # "unused", conn'[att'[x].conn].pc # "closed"
       PROVE  /\ att[x].pc # "unused" /\ Same(x) /\ att[x].conn \in Conn /\ att[x].conn # c
              /\ Open(att[x].conn) /\ got'[x] = got[x]
              /\ queue'[att[x].conn] = queue[att[x].conn]
  <2>1. Placed(x) /\ Kept(x) /\ att[x].pc # "unused"
    BY <1>10 DEF DInv, Same
  <2>2. att'[x].conn = att[x].conn /\ att[x].conn \in Conn
    BY <2>1 DEF Kept, Placed
  <2>3. att[x].conn # c
    BY <1>2, <1>10, <2>2 DEF Open
  <2>4. QED
    BY <1>2, <1>3, <1>4, <1>6, <1>10, <2>1, <2>2, <2>3 DEF Open
<1>11. ASSUME NEW x \in Att PROVE Complete(x)' /\ EndedExpired(x)'
  <2>1. Complete(x) /\ EndedExpired(x)
    BY DEF DInv
  <2>2. Complete(x)'
    BY <1>1, <1>10, <2>1 DEF Complete, Has, Open, Same, Kept
  <2>3. EndedExpired(x)'
    BY <1>1, <1>10, <2>1 DEF EndedExpired, Open, Same, Kept
  <2>4. QED
    BY <2>2, <2>3
<1>12. ASSUME NEW x \in Live' PROVE Stands(x)'
  <2>1. x \in Att /\ Same(x)
    BY DEF Live, Running
  <2>2. Stands(x)
    BY <2>1 DEF DInv, Live, Same
  <2>3. QED
    BY <1>7, <2>1, <2>2 DEF Stands, Same, Kept
<1>13. ASSUME NEW d \in Conn PROVE Replaying(d)'
  <2>1. Replaying(d)
    BY DEF DInv
  <2>2. QED
    BY <1>2, <1>6, <2>1 DEF Replaying, Same, Kept
<1>14. ASSUME NEW d \in Conn, NEW k \in 1 .. Len(queue'[d]) PROVE Frame(d, k)'
  <2>1. d # c /\ queue'[d] = queue[d]
    BY <1>3
  <2>2. Frame(d, k) /\ queue[d][k][1] \in Att
    <3>1. k \in 1 .. Len(queue[d]) /\ queue[d] \in Seq(Att \X Nat)
      BY <1>1, <2>1 DEF TypeOK
    <3>2. queue[d][k] \in Att \X Nat
      BY <3>1
    <3>3. QED
      BY <3>1, <3>2 DEF DInv
  <2>3. Same(queue[d][k][1]) /\ got'[queue[d][k][1]] = got[queue[d][k][1]]
    BY <1>4, <1>6, <2>1, <2>2 DEF Frame, FrameOf
  <2>4. QED
    BY <2>1, <2>2, <2>3 DEF Frame, FrameOf, Same, Kept
<1>15. QED
  BY <1>1, <1>5, <1>8, <1>9, <1>11, <1>12, <1>13, <1>14 DEF DInv

(* The peer closes, or a read or a write fails while nothing is replayed. *)
LEMMA HandlerEndsDInv == ASSUME DInv, NEW c \in Conn, HangUp(c) \/ HandlerFails(c) PROVE DInv'
<1>1. /\ TypeOK /\ Counted /\ conn[c].pc = "ready" /\ Close(c) /\ UNCHANGED <<run, chan>>
      /\ att' = att \/ att' = Aborting({conn[c].cur})
  BY DEF DInv, HangUp, HandlerFails
<1>2. att' \in [Att -> Attachments] /\ \A x \in Att : Same(x)
  <2>1. CASE att' = att
    BY <1>1, <2>1 DEF Same, Kept, TypeOK
  <2>2. QED
    BY <1>1, <2>1, AbortingSame
<1>3. Live' = Live
  BY <1>2 DEF Live, Same
<1>4. Counted' /\ chan' \in Channels(Nat) /\ \A x \in Att : Kept(x)
  BY <1>1, <1>2, <1>3 DEF Counted, TypeOK, Same
<1>5. QED
  BY <1>1, <1>2, <1>4, CloseDInv

(* The response or the replay is not written. *)
LEMMA AttachFailedDInv == ASSUME DInv, NEW c \in Conn, AttachFailed(c) PROVE DInv'
<1> DEFINE a == conn[c].new
<1>1. /\ TypeOK /\ Counted /\ conn[c].pc = "replay" /\ Close(c) /\ UNCHANGED run
      /\ att' = [att EXCEPT ![a].pc = "done", ![a].replay = <<>>]
      /\ chan' = ReceiverGone(chan)
  BY DEF DInv, AttachFailed
<1>2. a \in Att /\ att[a].pc = "held" /\ att[a].conn = c
  BY <1>1 DEF DInv, Replaying
<1> HIDE DEF a
<1> DEFINE new == [att[a] EXCEPT !.pc = "done", !.replay = <<>>]
<1>3. /\ new \in Attachments /\ new.pc = "done" /\ new.replay = <<>>
      /\ new.conn = att[a].conn /\ new.after = att[a].after
      /\ new.last = att[a].last /\ new.next = att[a].next /\ new.aborted = att[a].aborted
  <2>1. att[a] \in Attachments /\ "done" \in AttPCs /\ <<>> \in Seq(Nat)
    BY <1>1, <1>2 DEF TypeOK, AttPCs
  <2>2. QED
    BY <2>1 DEF Attachments
<1>4. att' = [att EXCEPT ![a] = new]
  BY <1>1, <1>2 DEF TypeOK
<1> HIDE DEF new
<1>5. /\ att' \in [Att -> Attachments] /\ att'[a] = new
      /\ \A x \in Att : x # a => att'[x] = att[x]
  <2>1. att \in [Att -> Attachments]
    BY <1>1 DEF TypeOK
  <2>2. QED
    BY <1>2, <1>3, <1>4, <2>1
<1>6. \A x \in Att : Kept(x) /\ (x # a => Same(x))
  BY <1>3, <1>5 DEF Kept, Same
<1>7. a \in Live /\ Live' = Live \ {a}
  <2>1. "done" \notin Running \cup {"held"}
    BY DEF Running
  <2>2. QED
    BY <1>2, <1>3, <1>5, <2>1 DEF Live
<1>8. /\ Counted' /\ chan' \in Channels(Nat)
      /\ chan'.buffer = chan.buffer /\ chan'.head = chan.head
  BY <1>1, <1>7, ReceiverDropped
<1>9. \A x \in Att : Same(x) \/ /\ att[x].conn = c /\ att[x].pc = "held"
                                /\ att'[x].pc = "done" /\ att'[x].replay = <<>>
  <2>1. att'[a].pc = "done" /\ att'[a].replay = <<>>
    BY <1>3, <1>5
  <2>2. QED
    BY <1>2, <1>6, <2>1
<1>10. att'[conn[c].new].pc = "done"
  BY <1>3, <1>5 DEF a
<1>11. QED
  BY <1>1, <1>5, <1>6, <1>8, <1>9, <1>10, CloseDInv

(***************************************************************************)
(* The replay has been written, and the forwarder is spawned.              *)
(***************************************************************************)
LEMMA AttachedDInv == ASSUME DInv, NEW c \in Conn, Attached(c) PROVE DInv'
<1> DEFINE a == conn[c].new
           others == Aborting({conn[c].cur})
<1>1. /\ TypeOK /\ GoodRun(run) /\ Counted /\ conn[c].pc = "replay"
      /\ got' = [got EXCEPT ![a] = att[a].replay]
      /\ att' = [others EXCEPT ![a].pc = "waiting", ![a].replay = <<>>]
      /\ conn' = [conn EXCEPT ![c] = [pc |-> "ready", new |-> "none", cur |-> a]]
      /\ UNCHANGED <<run, chan, queue>>
  BY DEF DInv, Attached
<1>2. a \in Att /\ att[a].pc = "held" /\ att[a].conn = c
  BY <1>1 DEF DInv, Replaying
<1>3. Placed(a) /\ got[a] = <<>>
  BY <1>2 DEF DInv, Placed
<1>4. /\ others \in [Att -> Attachments]
      /\ \A x \in Att :
           /\ others[x].pc = att[x].pc /\ others[x].replay = att[x].replay
           /\ others[x].conn = att[x].conn /\ others[x].after = att[x].after
           /\ others[x].last = att[x].last /\ others[x].next = att[x].next
           /\ ~others[x].aborted => ~att[x].aborted
  BY <1>1, AbortingFacts, Zenon
<1> DEFINE new == [others[a] EXCEPT !.pc = "waiting", !.replay = <<>>]
<1>5. a \in Att \cup {"none"}
  BY <1>2
<1> HIDE DEF a, others
<1>6. /\ new \in Attachments /\ new.pc = "waiting" /\ new.replay = <<>>
      /\ new.conn = others[a].conn /\ new.after = others[a].after
      /\ new.last = others[a].last /\ new.next = others[a].next
      /\ new.aborted = others[a].aborted
  <2>1. others[a] \in Attachments /\ "waiting" \in AttPCs /\ <<>> \in Seq(Nat)
    BY <1>2, <1>4 DEF AttPCs, Running
  <2>2. QED
    BY <2>1 DEF Attachments
<1>7. att' = [others EXCEPT ![a] = new]
  BY <1>1, <1>2, <1>4
<1> HIDE DEF new
<1>8. /\ att' \in [Att -> Attachments] /\ att'[a] = new
      /\ \A x \in Att : x # a => att'[x] = others[x]
  BY <1>2, <1>4, <1>6, <1>7
<1>9. /\ \A x \in Att : Kept(x) /\ (x # a => Same(x))
      /\ att'[a].pc = "waiting" /\ att'[a].replay = <<>>
  BY <1>2, <1>4, <1>6, <1>8 DEF Kept, Same
<1>10. /\ conn' \in [Conn -> [pc : {"ready", "replay", "closed"},
                              new : Att \cup {"none"}, cur : Att \cup {"none"}]]
       /\ conn'[c].pc = "ready" /\ \A d \in Conn : d # c => conn'[d] = conn[d]
       /\ \A d \in Conn : conn'[d].pc # "closed" => conn[d].pc # "closed"
  BY <1>1, <1>5 DEF TypeOK
<1>11. /\ got' \in [Att -> Seq(Nat)] /\ got'[a] = att[a].replay
       /\ \A x \in Att : x # a => got'[x] = got[x]
  <2>1. att[a].replay \in Seq(Nat) /\ got \in [Att -> Seq(Nat)]
    BY <1>1, <1>2, AttFacts DEF TypeOK
  <2>2. QED
    BY <1>1, <1>2, <2>1
<1>12. TypeOK'
  BY <1>1, <1>8, <1>10, <1>11 DEF TypeOK
<1>13. Live' = Live
  <2>1. "waiting" \in Running
    BY DEF Running
  <2>2. QED
    BY <1>2, <1>9, <2>1 DEF Live, Same
<1>14. Counted'
  BY <1>1, <1>13 DEF Counted
<1>15. ASSUME NEW x \in Att PROVE Placed(x)'
  <2>1. Placed(x) /\ Kept(x)
    BY <1>9 DEF DInv
  <2>2. CASE x = a
    BY <1>2, <1>9, <2>1, <2>2 DEF Placed, Kept
  <2>3. CASE x # a
    <3>1. Same(x) /\ got'[x] = got[x]
      BY <1>9, <1>11, <2>3
    <3>2. att[x].pc = "held" => att[x].conn # c /\ att[x].conn \in Conn
      BY <2>1, <2>3 DEF Placed, a
    <3>3. att[x].pc = "held" => conn'[att[x].conn] = conn[att[x].conn]
      BY <1>10, <3>2
    <3>4. QED
      BY <2>1, <3>1, <3>3 DEF Placed, Same, Kept
  <2>4. QED
    BY <2>2, <2>3
<1>16. ASSUME NEW x \in Att PROVE Handed(x)'
  <2>1. Handed(x) /\ Kept(x)
    BY <1>9 DEF DInv
  <2>2. CASE x # a
    <3>1. Same(x) /\ got'[x] = got[x]
      BY <1>9, <1>11, <2>2
    <3>2. QED
      BY <2>1, <3>1 DEF Handed, Within, Same, Kept
  <2>3. CASE x = a
    <3>1. got'[x] = att[x].replay /\ att'[x].replay = <<>>
      BY <1>9, <1>11, <2>3
    <3>2. Ascending(<<>>) /\ Len(<<>>) = 0
      BY DEF Ascending
    <3>3. QED
      BY <2>1, <3>1, <3>2 DEF Handed, Within, Kept
  <2>4. QED
    BY <2>2, <2>3
<1>17. ASSUME NEW x \in Att, NEW e, Has(x, e) PROVE Has(x, e)'
  <2>1. Kept(x) /\ queue' = queue
    BY <1>1, <1>9
  <2>2. CASE x # a
    <3>1. Same(x) /\ got'[x] = got[x]
      BY <1>9, <1>11, <2>2
    <3>2. QED
      BY <1>17, <2>1, <3>1 DEF Has, Same, Kept
  <2>3. CASE x = a
    <3>1. got'[x] = att[x].replay /\ got[x] = <<>>
      BY <1>3, <1>11, <2>3
    <3>2. Range(<<>>) = {}
      BY DEF Range
    <3>3. QED
      BY <1>17, <2>1, <3>1, <3>2 DEF Has, Kept
  <2>4. QED
    BY <2>2, <2>3
<1>18. ASSUME NEW x \in Att PROVE Complete(x)' /\ EndedExpired(x)'
  <2>1. Complete(x) /\ EndedExpired(x) /\ Placed(x) /\ Kept(x)
    BY <1>9 DEF DInv
  <2>2. /\ att'[x].pc # "unused" => att[x].pc # "unused"
        /\ att'[x].pc = "done" => att[x].pc = "done"
    BY <1>2, <1>9 DEF Same
  <2>3. att[x].pc # "unused" /\ conn'[att[x].conn].pc # "closed" => conn[att[x].conn].pc # "closed"
    BY <1>10, <2>1 DEF Placed
  <2>4. Complete(x)'
    BY <1>1, <1>17, <2>1, <2>2, <2>3 DEF Complete, Open, Kept
  <2>5. EndedExpired(x)'
    BY <1>1, <2>1, <2>2, <2>3 DEF EndedExpired, Open, Kept
  <2>6. QED
    BY <2>4, <2>5
<1>19. ASSUME NEW x \in Live PROVE Stands(x)'
  <2>1. Stands(x) /\ x \in Att /\ Kept(x)
    BY <1>9 DEF DInv, Live
  <2>2. att'[x].pc # "lagged" => att[x].pc # "lagged"
    BY <1>2, <1>9, <2>1 DEF Same
  <2>3. QED
    BY <1>1, <2>1, <2>2 DEF Stands, Kept
<1>20. ASSUME NEW d \in Conn PROVE Replaying(d)'
  <2>1. Replaying(d)
    BY DEF DInv
  <2>2. CASE d = c
    BY <1>10, <2>2 DEF Replaying
  <2>3. CASE d # c
    <3>1. conn'[d] = conn[d]
      BY <1>10, <2>3
    <3>2. conn[d].pc = "replay" => conn[d].new \in Att /\ conn[d].new # a
      BY <1>2, <2>1, <2>3 DEF Replaying
    <3>3. conn[d].pc = "replay" => Same(conn[d].new)
      BY <1>9, <3>2
    <3>4. QED
      BY <2>1, <3>1, <3>3 DEF Replaying, Same, Kept
  <2>4. QED
    BY <2>2, <2>3
<1>21. ASSUME NEW d \in Conn, NEW k \in 1 .. Len(queue'[d]) PROVE Frame(d, k)'
  <2>1. Frame(d, k) /\ queue[d][k][1] \in Att
    BY <1>1 DEF DInv, TypeOK
  <2>2. queue[d][k][1] # a
    BY <1>2, <2>1 DEF Frame, FrameOf
  <2>3. Same(queue[d][k][1]) /\ got'[queue[d][k][1]] = got[queue[d][k][1]]
    BY <1>9, <1>11, <2>1, <2>2
  <2>4. QED
    BY <1>1, <2>1, <2>3 DEF Frame, FrameOf, Same, Kept
<1>22. QED
  BY <1>1, <1>12, <1>13, <1>14, <1>15, <1>16, <1>18, <1>19, <1>20, <1>21 DEF DInv

(***************************************************************************)
(* registry.attach: the replay and the subscription meet at the latest     *)
(* event, whatever happens before the replay is written.                   *)
(***************************************************************************)
LEMMA AttachDInv ==
  ASSUME DInv, NEW c \in Conn, NEW a \in Att, NEW after \in Nat, Attach(c, a, after)
  PROVE  DInv'
<1> DEFINE replay == Replay(run, after)
           last == Reached(after, replay)
           new == [Unused EXCEPT !.pc = "held", !.conn = c, !.after = after,
                     !.last = last, !.next = End(chan), !.replay = replay]
<1>1. /\ TypeOK /\ GoodRun(run) /\ Counted /\ conn[c].pc = "ready" /\ att[a] = Unused
      /\ ~ReplayExpired(run, after) /\ att' = [att EXCEPT ![a] = new]
      /\ chan' = Subscribed(chan)
      /\ conn' = [conn EXCEPT ![c].pc = "replay", ![c].new = a]
      /\ UNCHANGED <<run, queue, got>>
  BY DEF DInv, Attach
<1>2. att[a].pc = "unused" /\ got[a] = <<>>
  <2>1. att[a].pc = "unused"
    BY <1>1 DEF Unused
  <2>2. QED
    BY <2>1 DEF DInv, Placed
<1> HIDE DEF replay
<1>3. /\ replay \in Seq(Nat) /\ Ascending(replay)
      /\ \A i \in 1 .. Len(replay) : after < replay[i] /\ replay[i] <= last
      /\ last \in Nat /\ after <= last
      /\ run.latest <= Larger(last, run.acked)
      /\ \A e \in after + 1 .. last : e > run.acked => e \in Range(replay)
  <2>1. replay = Replay(run, after)
    BY DEF replay
  <2>2. QED
    BY <1>1, <2>1, ReplayFacts, Zenon
<1> HIDE DEF last
<1>4. /\ chan.buffer \in Seq(Nat) /\ Len(chan.buffer) \in Nat
      /\ chan.head \in Nat /\ chan.receivers \in Nat
      /\ End(chan) = chan.head + Len(chan.buffer) /\ End(chan) \in Nat
  BY <1>1, ChanFacts
<1>5. /\ new \in Attachments /\ new.pc = "held" /\ new.conn = c /\ new.after = after
      /\ new.last = last /\ new.next = End(chan) /\ new.replay = replay /\ ~new.aborted
  <2>1. "held" \in AttPCs
    BY DEF AttPCs
  <2>2. Unused \in Attachments /\ ~Unused.aborted
    <3>1. att \in [Att -> Attachments] /\ att[a] = Unused
      BY <1>1 DEF TypeOK
    <3>2. ~Unused.aborted
      BY DEF Unused
    <3>3. QED
      BY <3>1, <3>2
  <2>3. c \in Conn \cup {"none"} /\ replay \in Seq(Nat) /\ last \in Nat /\ End(chan) \in Nat
    BY <1>3, <1>4
  <2>4. QED
    BY <2>1, <2>2, <2>3 DEF Attachments
<1> HIDE DEF new
<1>6. /\ att' \in [Att -> Attachments] /\ att'[a] = new
      /\ \A x \in Att : x # a => att'[x] = att[x]
  <2>1. att \in [Att -> Attachments]
    BY <1>1 DEF TypeOK
  <2>2. QED
    BY <1>1, <1>5, <2>1
<1>7. /\ conn' \in [Conn -> [pc : {"ready", "replay", "closed"},
                             new : Att \cup {"none"}, cur : Att \cup {"none"}]]
      /\ conn'[c].pc = "replay" /\ conn'[c].new = a
      /\ \A d \in Conn : d # c => conn'[d] = conn[d]
      /\ \A d \in Conn : conn'[d].pc # "closed" => conn[d].pc # "closed"
  BY <1>1 DEF TypeOK
<1>8. /\ chan' \in Channels(Nat) /\ chan'.buffer = chan.buffer /\ chan'.head = chan.head
      /\ chan'.receivers = chan.receivers + 1 /\ End(chan') = End(chan)
  <2>1. chan \in Channels(Nat) /\ chan' = [chan EXCEPT !.receivers = @ + 1]
    BY <1>1 DEF Subscribed, TypeOK
  <2>2. chan.receivers + 1 \in Nat
    BY <1>4
  <2>3. /\ chan' \in Channels(Nat) /\ chan'.buffer = chan.buffer /\ chan'.head = chan.head
        /\ chan'.receivers = chan.receivers + 1
    BY <2>1, <2>2 DEF Channels
  <2>4. QED
    BY <2>3 DEF End
<1>9. TypeOK'
  BY <1>1, <1>6, <1>7, <1>8 DEF TypeOK
<1>10. a \notin Live /\ Live' = Live \cup {a}
  <2>1. "unused" \notin Running \cup {"held"}
    BY DEF Running
  <2>2. QED
    BY <1>2, <1>5, <1>6, <2>1 DEF Live
<1>11. Counted'
  <2>1. IsFiniteSet(Live \cup {a}) /\ Cardinality(Live \cup {a}) = Cardinality(Live) + 1
    BY <1>1, <1>10, FS_AddElement DEF Counted
  <2>2. QED
    BY <1>1, <1>8, <1>10, <2>1 DEF Counted
<1>12. ASSUME NEW x \in Att PROVE Placed(x)'
  <2>1. Placed(x)
    BY DEF DInv
  <2>2. CASE x = a
    BY <1>1, <1>2, <1>5, <1>6, <1>7, <2>2 DEF Placed
  <2>3. CASE x # a
    <3>1. att'[x] = att[x]
      BY <1>6, <2>3
    <3>2. att[x].pc = "held" => att[x].conn # c /\ att[x].conn \in Conn
      BY <1>1, <2>1 DEF Placed
    <3>3. att[x].pc = "held" => conn'[att[x].conn] = conn[att[x].conn]
      BY <1>7, <3>2
    <3>4. QED
      BY <1>1, <2>1, <3>1, <3>3 DEF Placed
  <2>4. QED
    BY <2>2, <2>3
<1>13. ASSUME NEW x \in Att PROVE Handed(x)'
  <2>1. CASE x # a
    <3>1. Handed(x) /\ att'[x] = att[x]
      BY <1>6, <2>1 DEF DInv
    <3>2. QED
      BY <1>1, <3>1 DEF Handed, Within
  <2>2. CASE x = a
    <3>1. /\ att'[x].after = after /\ att'[x].last = last /\ att'[x].replay = replay
          /\ got'[x] = <<>> /\ Len(<<>>) = 0 /\ Ascending(<<>>)
      BY <1>1, <1>2, <1>5, <1>6, <2>2 DEF Ascending
    <3>2. QED
      BY <1>3, <3>1 DEF Handed, Within
  <2>3. QED
    BY <2>1, <2>2
<1>14. ASSUME NEW x \in Att PROVE Complete(x)' /\ EndedExpired(x)'
  <2>1. CASE x # a
    <3>1. Complete(x) /\ EndedExpired(x) /\ Placed(x) /\ att'[x] = att[x]
      BY <1>6, <2>1 DEF DInv
    <3>2. att[x].pc # "unused" /\ conn'[att[x].conn].pc # "closed"
             => conn[att[x].conn].pc # "closed"
      BY <1>7, <3>1 DEF Placed
    <3>3. Complete(x)'
      BY <1>1, <3>1, <3>2 DEF Complete, Has, Open
    <3>4. EndedExpired(x)'
      BY <1>1, <3>1, <3>2 DEF EndedExpired, Open
    <3>5. QED
      BY <3>3, <3>4
  <2>2. CASE x = a
    <3>1. /\ att'[x].after = after /\ att'[x].last = last /\ att'[x].replay = replay
          /\ att'[x].pc = "held"
      BY <1>5, <1>6, <2>2
    <3>2. Complete(x)'
      BY <1>1, <1>3, <3>1 DEF Complete, Has
    <3>3. QED
      BY <3>1, <3>2 DEF EndedExpired
  <2>3. QED
    BY <2>1, <2>2
<1>15. ASSUME NEW x \in Live' PROVE Stands(x)'
  <2>1. CASE x # a
    <3>1. Stands(x) /\ x \in Att /\ att'[x] = att[x]
      BY <1>6, <1>10, <2>1 DEF DInv, Live
    <3>2. QED
      BY <1>1, <1>8, <3>1 DEF Stands
  <2>2. CASE x = a
    <3> DEFINE e == End(chan)
               big == Larger(last, run.acked)
               latest == run.latest
    <3>1. e \in Nat /\ big \in Nat /\ latest \in Nat /\ latest <= big
      BY <1>1, <1>3, <1>4, LargerFacts, RunFacts
    <3>2. \A i \in 1 .. Len(chan.buffer) : ~(e < chan.head + i)
      BY <1>4
    <3>3. att'[x].next = e /\ Larger(att'[x].last, run'.acked) = big
      BY <1>1, <1>5, <1>6, <2>2
    <3> HIDE DEF e, big, latest
    <3>4. e <= e /\ e <= e + latest /\ latest + e <= e + big
      BY <3>1
    <3>5. End(chan') = e /\ run'.latest = latest
      BY <1>1, <1>8 DEF e, latest
    <3>6. QED
      BY <1>8, <3>2, <3>3, <3>4, <3>5 DEF Stands
  <2>3. QED
    BY <2>1, <2>2
<1>16. ASSUME NEW d \in Conn PROVE Replaying(d)'
  <2>1. CASE d = c
    BY <1>5, <1>6, <1>7, <2>1 DEF Replaying
  <2>2. CASE d # c
    <3>1. Replaying(d) /\ conn'[d] = conn[d]
      BY <1>7, <2>2 DEF DInv
    <3>2. conn[d].pc = "replay" => att'[conn[d].new] = att[conn[d].new]
      BY <1>2, <1>6, <3>1 DEF Replaying
    <3>3. QED
      BY <3>1, <3>2 DEF Replaying
  <2>3. QED
    BY <2>1, <2>2
<1>17. ASSUME NEW d \in Conn, NEW k \in 1 .. Len(queue'[d]) PROVE Frame(d, k)'
  <2>1. Frame(d, k) /\ queue[d][k][1] \in Att
    BY <1>1 DEF DInv, TypeOK
  <2>2. att'[queue[d][k][1]] = att[queue[d][k][1]]
    BY <1>2, <1>6, <2>1 DEF Frame, FrameOf
  <2>3. QED
    BY <1>1, <2>1, <2>2 DEF Frame, FrameOf
<1>18. QED
  BY <1>1, <1>9, <1>11, <1>12, <1>13, <1>14, <1>15, <1>16, <1>17 DEF DInv

(***************************************************************************)
(* A queued event is written.                                              *)
(***************************************************************************)
LEMMA QueueTaken ==
  ASSUME NEW q \in Seq(Att \X Nat), q # <<>>
  PROVE  /\ Head(q) = q[1] /\ 1 \in 1 .. Len(q) /\ q[1] \in Att \X Nat
         /\ Tail(q) \in Seq(Att \X Nat)
         /\ \A k \in 1 .. Len(Tail(q)) : k + 1 \in 1 .. Len(q) /\ Tail(q)[k] = q[k + 1]
         /\ \A f \in Range(q) : f = q[1] \/ f \in Range(Tail(q))
<1>1. /\ Head(q) = q[1] /\ Tail(q) \in Seq(Att \X Nat) /\ Len(Tail(q)) = Len(q) - 1
      /\ Len(q) \in Nat \ {0} /\ \A k \in 1 .. Len(q) - 1 : Tail(q)[k] = q[k + 1]
      /\ DOMAIN q = 1 .. Len(q) /\ DOMAIN Tail(q) = 1 .. Len(Tail(q))
  OBVIOUS
<1>2. 1 \in 1 .. Len(q) /\ q[1] \in Att \X Nat
  BY <1>1
<1>3. \A k \in 1 .. Len(Tail(q)) : k + 1 \in 1 .. Len(q) /\ Tail(q)[k] = q[k + 1]
  BY <1>1
<1>4. ASSUME NEW f \in Range(q) PROVE f = q[1] \/ f \in Range(Tail(q))
  <2>1. PICK k \in 1 .. Len(q) : f = q[k]
    BY <1>1 DEF Range
  <2>2. CASE k # 1
    <3>1. k - 1 \in 1 .. Len(Tail(q)) /\ (k - 1) + 1 = k
      BY <1>1, <2>2
    <3>2. Tail(q)[k - 1] = f
      BY <1>3, <2>1, <3>1
    <3>3. QED
      BY <1>1, <3>1, <3>2 DEF Range
  <2>3. QED
    BY <2>1, <2>2
<1>5. QED
  BY <1>1, <1>2, <1>3, <1>4

LEMMA Appended ==
  ASSUME NEW s \in Seq(Nat), NEW e \in Nat, NEW t, t = Append(s, e)
  PROVE  /\ t \in Seq(Nat) /\ Range(t) = Range(s) \cup {e}
         /\ \A i \in 1 .. Len(t) : (i \in 1 .. Len(s) /\ t[i] = s[i]) \/ t[i] = e
         /\ Ascending(s) /\ (\A i \in 1 .. Len(s) : s[i] < e) => Ascending(t)
<1> DEFINE n == Len(s)
<1>1. /\ t \in Seq(Nat) /\ Len(t) = n + 1 /\ n \in Nat /\ t[n + 1] = e
      /\ \A i \in 1 .. n : t[i] = s[i]
      /\ DOMAIN s = 1 .. n /\ DOMAIN t = 1 .. n + 1
  OBVIOUS
<1> HIDE DEF n
<1>2. \A i \in 1 .. n + 1 : (i \in 1 .. n /\ t[i] = s[i]) \/ (i = n + 1 /\ t[i] = e)
  BY <1>1
<1>3. Range(t) = Range(s) \cup {e}
  <2>1. n + 1 \in 1 .. n + 1 /\ \A i \in 1 .. n : i \in 1 .. n + 1
    BY <1>1
  <2>2. QED
    BY <1>1, <1>2, <2>1 DEF Range
<1>4. ASSUME Ascending(s), \A i \in 1 .. n : s[i] < e PROVE Ascending(t)
  <2> SUFFICES ASSUME NEW i \in 1 .. n + 1, NEW j \in 1 .. n + 1, i < j PROVE t[i] < t[j]
    BY <1>1 DEF Ascending
  <2>1. i \in 1 .. n
    BY <1>1
  <2>2. CASE j \in 1 .. n
    BY <1>1, <1>4, <2>1, <2>2 DEF Ascending, n
  <2>3. CASE j = n + 1
    BY <1>1, <1>4, <2>1, <2>3
  <2>4. QED
    BY <1>1, <2>2, <2>3
<1>5. QED
  BY <1>1, <1>2, <1>3, <1>4 DEF n

(* What Flush does, to attachment a with event e. *)
Flushes(c, a, e) ==
  /\ queue' \in [Conn -> Seq(Att \X Nat)] /\ got' \in [Att -> Seq(Nat)]
  /\ FrameOf(c, 1, a, e) /\ queue[c][1] = <<a, e>> /\ 1 \in 1 .. Len(queue[c])
  /\ \A d \in Conn : d # c => queue'[d] = queue[d]
  /\ \A k \in 1 .. Len(queue'[c]) :
       k + 1 \in 1 .. Len(queue[c]) /\ queue'[c][k] = queue[c][k + 1]
  /\ \A f \in Range(queue[c]) : f = <<a, e>> \/ f \in Range(queue'[c])
  /\ \A x \in Att : x # a => got'[x] = got[x]
  /\ Range(got'[a]) = Range(got[a]) \cup {e} /\ Ascending(got'[a])
  /\ \A i \in 1 .. Len(got'[a]) :
       (i \in 1 .. Len(got[a]) /\ got'[a][i] = got[a][i]) \/ got'[a][i] = e

LEMMA FlushesIntro ==
  ASSUME DInv, NEW c \in Conn, Flush(c)
  PROVE  \E a \in Att, e \in Nat : Flushes(c, a, e)
<1> DEFINE q == queue[c]
           a == q[1][1]
           e == q[1][2]
<1>1. /\ TypeOK /\ q # <<>> /\ queue' = [queue EXCEPT ![c] = Tail(@)]
      /\ got' = [got EXCEPT ![Head(q)[1]] = Append(@, Head(q)[2])]
  BY DEF DInv, Flush
<1>2. queue \in [Conn -> Seq(Att \X Nat)] /\ q \in Seq(Att \X Nat) /\ got \in [Att -> Seq(Nat)]
  BY <1>1 DEF TypeOK
<1> HIDE DEF q
<1>3. /\ Head(q) = q[1] /\ 1 \in 1 .. Len(q) /\ q[1] \in Att \X Nat
      /\ Tail(q) \in Seq(Att \X Nat)
      /\ \A k \in 1 .. Len(Tail(q)) : k + 1 \in 1 .. Len(q) /\ Tail(q)[k] = q[k + 1]
      /\ \A f \in Range(q) : f = q[1] \/ f \in Range(Tail(q))
  BY <1>1, <1>2, QueueTaken, Zenon
<1>4. a \in Att /\ e \in Nat /\ q[1] = <<a, e>>
  BY <1>3
<1> HIDE DEF a, e
<1>5. /\ queue' \in [Conn -> Seq(Att \X Nat)] /\ queue'[c] = Tail(q)
      /\ \A d \in Conn : d # c => queue'[d] = queue[d]
  <2>1. queue' = [queue EXCEPT ![c] = Tail(q)]
    BY <1>1 DEF q
  <2>2. QED
    BY <1>2, <1>3, <2>1
<1>6. got' = [got EXCEPT ![a] = Append(got[a], e)] /\ got[a] \in Seq(Nat)
  BY <1>1, <1>2, <1>3, <1>4 DEF a, e
<1> DEFINE t == Append(got[a], e)
<1>7. /\ t \in Seq(Nat) /\ Range(t) = Range(got[a]) \cup {e}
      /\ \A i \in 1 .. Len(t) : (i \in 1 .. Len(got[a]) /\ t[i] = got[a][i]) \/ t[i] = e
      /\ Ascending(got[a]) /\ (\A i \in 1 .. Len(got[a]) : got[a][i] < e) => Ascending(t)
  BY <1>4, <1>6, Appended, Zenon
<1> HIDE DEF t
<1>8. got' \in [Att -> Seq(Nat)] /\ got'[a] = t /\ \A x \in Att : x # a => got'[x] = got[x]
  <2>1. got' = [got EXCEPT ![a] = t]
    BY <1>6 DEF t
  <2>2. QED
    BY <1>2, <1>4, <1>7, <2>1
<1>9. FrameOf(c, 1, a, e)
  <2>1. Frame(c, 1)
    BY <1>3 DEF DInv, q
  <2>2. QED
    BY <2>1 DEF Frame, q, a, e
<1>10. Ascending(t)
  <2>1. Ascending(got[a])
    BY <1>4 DEF DInv, Handed, Within
  <2>2. \A i \in 1 .. Len(got[a]) : got[a][i] < e
    BY <1>9 DEF FrameOf
  <2>3. QED
    BY <1>7, <2>1, <2>2
<1>11. Flushes(c, a, e)
  BY <1>3, <1>4, <1>5, <1>7, <1>8, <1>9, <1>10, Zenon DEF Flushes, q
<1>12. QED
  BY <1>4, <1>11

LEMMA FlushDInv == ASSUME DInv, NEW c \in Conn, Flush(c) PROVE DInv'
<1>1. PICK a \in Att, e \in Nat : Flushes(c, a, e)
  BY FlushesIntro
<1>2. TypeOK /\ GoodRun(run) /\ Counted /\ UNCHANGED <<run, chan, conn, att>>
  BY DEF DInv, Flush
<1>3. TypeOK'
  BY <1>1, <1>2 DEF TypeOK, Flushes
<1>4. Live' = Live /\ Counted'
  BY <1>2 DEF Live, Counted
<1>5. /\ att[a].conn = c /\ att[a].pc \notin {"unused", "held"}
      /\ att[a].after < e /\ e <= att[a].last
  BY <1>1 DEF Flushes, FrameOf
<1>6. ASSUME NEW x \in Att PROVE Placed(x)'
  <2>1. Placed(x) /\ (x # a => got'[x] = got[x])
    BY <1>1 DEF DInv, Flushes
  <2>2. QED
    BY <1>2, <1>5, <2>1 DEF Placed
<1>7. ASSUME NEW x \in Att PROVE Handed(x)'
  <2>1. Handed(x)
    BY DEF DInv
  <2>2. CASE x # a
    BY <1>1, <1>2, <2>1, <2>2 DEF Handed, Within, Flushes
  <2>3. CASE x = a
    <3>1. /\ Ascending(got'[a])
          /\ \A i \in 1 .. Len(got'[a]) : att[a].after < got'[a][i] /\ got'[a][i] <= att[a].last
      BY <1>1, <1>5, <2>1, <2>3 DEF Flushes, Handed, Within
    <3>2. QED
      BY <1>2, <2>1, <2>3, <3>1 DEF Handed, Within
  <2>4. QED
    BY <2>2, <2>3
<1>8. ASSUME NEW x \in Att, NEW f, att[x].conn \in Conn, Has(x, f) PROVE Has(x, f)'
  <2>1. Range(got[x]) \subseteq Range(got'[x])
    BY <1>1 DEF Flushes
  <2>2. CASE <<x, f>> \in Range(queue[att[x].conn]) /\ att[x].conn = c
    <3>1. <<x, f>> = <<a, e>> \/ <<x, f>> \in Range(queue'[c])
      BY <1>1, <2>2 DEF Flushes
    <3>2. CASE <<x, f>> = <<a, e>>
      BY <1>1, <3>2 DEF Flushes, Has
    <3>3. QED
      BY <1>2, <2>2, <3>1, <3>2 DEF Has
  <2>3. CASE <<x, f>> \in Range(queue[att[x].conn]) /\ att[x].conn # c
    <3>1. queue'[att[x].conn] = queue[att[x].conn]
      BY <1>1, <1>8, <2>3 DEF Flushes
    <3>2. QED
      BY <1>2, <2>3, <3>1 DEF Has
  <2>4. CASE f \in Range(got[x]) \cup Range(att[x].replay)
    BY <1>2, <2>1, <2>4 DEF Has
  <2>5. QED
    BY <1>8, <2>2, <2>3, <2>4 DEF Has
<1>9. ASSUME NEW x \in Att PROVE Complete(x)' /\ EndedExpired(x)'
  <2>1. Complete(x) /\ EndedExpired(x) /\ Placed(x)
    BY DEF DInv
  <2>2. Complete(x)'
    <3>1. att[x].pc # "unused" => att[x].conn \in Conn
      BY <2>1 DEF Placed
    <3>2. QED
      BY <1>2, <1>8, <2>1, <3>1 DEF Complete, Open
  <2>3. EndedExpired(x)'
    BY <1>2, <2>1 DEF EndedExpired, Open
  <2>4. QED
    BY <2>2, <2>3
<1>10. \A x \in Live : Stands(x)'
  BY <1>2 DEF DInv, Stands
<1>11. \A d \in Conn : Replaying(d)'
  BY <1>2 DEF DInv, Replaying
<1>12. ASSUME NEW d \in Conn, d # c, NEW k \in 1 .. Len(queue'[d]) PROVE Frame(d, k)'
  <2>1. queue'[d] = queue[d]
    BY <1>1, <1>12 DEF Flushes
  <2>2. Frame(d, k) /\ queue[d][k][1] \in Att
    <3>1. k \in 1 .. Len(queue[d]) /\ queue[d] \in Seq(Att \X Nat)
      BY <1>2, <2>1 DEF TypeOK
    <3>2. queue[d][k] \in Att \X Nat
      BY <3>1
    <3>3. QED
      BY <3>1, <3>2 DEF DInv
  <2>3. got'[queue[d][k][1]] = got[queue[d][k][1]]
    BY <1>1, <1>5, <1>12, <2>2 DEF Frame, FrameOf, Flushes
  <2>4. QED
    BY <1>2, <2>1, <2>2, <2>3 DEF Frame, FrameOf
<1>13. ASSUME NEW k \in 1 .. Len(queue'[c]) PROVE Frame(c, k)'
  <2> DEFINE x == queue[c][k + 1][1]
             f == queue[c][k + 1][2]
  <2>1. k + 1 \in 1 .. Len(queue[c]) /\ queue'[c][k] = queue[c][k + 1] /\ k \in Nat
    BY <1>1 DEF Flushes
  <2>2. x \in Att /\ f \in Nat /\ FrameOf(c, k + 1, x, f)
    <3>1. queue[c] \in Seq(Att \X Nat)
      BY <1>2 DEF TypeOK
    <3>2. queue[c][k + 1] \in Att \X Nat
      BY <2>1, <3>1
    <3>3. Frame(c, k + 1)
      BY <2>1 DEF DInv
    <3>4. QED
      BY <3>2, <3>3 DEF Frame
  <2>3. queue'[c][k][1] = x /\ queue'[c][k][2] = f
    BY <2>1
  <2> HIDE DEF x, f
  <2>4. \A i \in 1 .. k : queue[c][i][1] = x => queue[c][i][2] < f
    <3>1. (k + 1) - 1 = k
      BY <2>1
    <3>2. QED
      BY <2>2, <3>1 DEF FrameOf
  <2>5. \A i \in 1 .. k - 1 : queue'[c][i][1] = x => queue'[c][i][2] < f
    <3>1. ASSUME NEW i \in 1 .. k - 1
          PROVE  i \in 1 .. Len(queue'[c]) /\ i + 1 \in 1 .. k
      <4>1. Len(queue'[c]) \in Nat
        BY <1>1 DEF Flushes
      <4>2. QED
        BY <2>1, <4>1
    <3>2. \A i \in 1 .. k - 1 : queue'[c][i] = queue[c][i + 1]
      BY <1>1, <3>1 DEF Flushes
    <3>3. QED
      BY <2>4, <3>1, <3>2
  <2>6. \A i \in 1 .. Len(got'[x]) : got'[x][i] < f
    <3>1. \A i \in 1 .. Len(got[x]) : got[x][i] < f
      BY <2>2 DEF FrameOf
    <3>2. CASE x # a
      BY <1>1, <2>2, <3>1, <3>2 DEF Flushes
    <3>3. CASE x = a
      <4>1. queue[c][1][1] = x /\ queue[c][1][2] = e /\ 1 \in 1 .. k
        BY <1>1, <2>1, <3>3 DEF Flushes
      <4>2. e < f
        BY <2>4, <4>1
      <4>3. QED
        BY <1>1, <3>1, <3>3, <4>2 DEF Flushes
    <3>4. QED
      BY <3>2, <3>3
  <2>7. QED
    BY <1>2, <2>2, <2>3, <2>5, <2>6 DEF Frame, FrameOf
<1>14. GoodRun(run')
  BY <1>2
<1>15. QED
  BY <1>3, <1>4, <1>6, <1>7, <1>9, <1>10, <1>11, <1>12, <1>13, <1>14 DEF DInv

-----------------------------------------------------------------------------
LEMMA NextDInv == DInv /\ [Next]_vars => DInv'
<1> SUFFICES ASSUME DInv, [Next]_vars PROVE DInv'
  OBVIOUS
<1>1. CASE Publish
  BY <1>1, PublishDInv
<1>2. ASSUME NEW n \in 1 .. run.latest, Acknowledge(n) PROVE DInv'
  BY <1>2, AcknowledgeDInv
<1>3. ASSUME NEW c \in Conn, Client(c) PROVE DInv'
  <2>1. ASSUME NEW a \in Att, NEW n \in 0 .. MaxSequence - 1, Attach(c, a, n) PROVE DInv'
    <3>1. n \in Nat
      BY DeliveryAssumption
    <3>2. QED
      BY <2>1, <3>1, AttachDInv
  <2>2. CASE Detach(c)
    BY <2>2, DetachDInv
  <2>3. CASE HangUp(c) \/ HandlerFails(c)
    BY <2>3, HandlerEndsDInv
  <2>4. CASE AttachFailed(c)
    BY <2>4, AttachFailedDInv
  <2>5. QED
    BY <1>3, <2>1, <2>2, <2>3, <2>4 DEF Client
<1>4. ASSUME NEW c \in Conn, Handler(c) PROVE DInv'
  BY <1>4, AttachedDInv, FlushDInv DEF Handler
<1>5. ASSUME NEW a \in Att, Forwarder(a) PROVE DInv'
  BY <1>5, StopDInv, PollDInv, RecvValueDInv, RecvLaggedDInv, ReattachDInv DEF Forwarder
<1>6. CASE UNCHANGED vars
  <2>1. UNCHANGED <<run, chan, conn, att, queue, got>>
    BY <1>6 DEF vars
  <2>2. TypeOK' /\ GoodRun(run') /\ Counted' /\ Live' = Live
    BY <2>1 DEF DInv, TypeOK, Counted, Live
  <2>3. \A a \in Att : Placed(a)' /\ Handed(a)' /\ Complete(a)' /\ EndedExpired(a)'
    BY <2>1 DEF DInv, Placed, Handed, Within, Complete, Has, EndedExpired, Open
  <2>4. \A a \in Live : Stands(a)'
    BY <2>1 DEF DInv, Stands
  <2>5. \A c \in Conn : Replaying(c)' /\ \A k \in 1 .. Len(queue'[c]) : Frame(c, k)'
    BY <2>1 DEF DInv, Replaying, Frame, FrameOf
  <2>6. QED
    BY <2>2, <2>3, <2>4, <2>5 DEF DInv
<1>7. QED
  BY <1>1, <1>2, <1>3, <1>4, <1>5, <1>6 DEF Next

LEMMA AlwaysDInv == Spec => []DInv
  BY InitDInv, NextDInv, PTL DEF Spec

(* Every variable keeps its type, and the channel of a run never holds more *)
(* than its capacity.                                                       *)
THEOREM DeliveryTyped == Spec => []TypeOK
<1>1. DInv => TypeOK
  BY DEF DInv
<1>2. QED
  BY <1>1, AlwaysDInv, PTL

(* A forwarder that ends while its connection is open, and was not aborted, *)
(* ends because registry.attach refused it: what it needs has left the      *)
(* journal.                                                                 *)
THEOREM OnlyExpiredEnds == Spec => []EndsOnlyExpired
<1>1. DInv => EndsOnlyExpired
  BY DEF DInv, EndsOnlyExpired, EndedExpired
<1>2. QED
  BY <1>1, AlwaysDInv, PTL

(* What an attachment is given ascends from its cursor, and nothing comes   *)
(* twice: what was written or is being replayed, and then what its queue    *)
(* holds, across every lag and every replay.                                *)
THEOREM GivenInOrder == Spec => []InOrder
<1>1. ASSUME DInv, NEW a \in Att
      PROVE  /\ got[a] \o att[a].replay \in {got[a], att[a].replay}
             /\ att[a].pc # "held" => got[a] \o att[a].replay = got[a]
  <2>1. Placed(a) /\ got[a] \in Seq(Nat) /\ att[a].replay \in Seq(Nat) /\ att[a].pc \in AttPCs
    BY <1>1, AttFacts DEF DInv
  <2>2. CASE att[a].pc = "held"
    BY <2>1, <2>2, ConcatEmptySeq DEF Placed
  <2>3. CASE att[a].pc # "held"
    BY <2>1, <2>3, ConcatEmptySeq DEF Placed
  <2>4. QED
    BY <2>2, <2>3
<1>2. ASSUME DInv PROVE InOrder
  <2> SUFFICES ASSUME NEW a \in Att, NEW first, first = got[a] \o att[a].replay
               PROVE  /\ Ascending(first)
                      /\ \A i \in 1 .. Len(first) : first[i] > att[a].after
                      /\ \A c \in Conn : \A k \in 1 .. Len(queue[c]) :
                           queue[c][k][1] = a =>
                             /\ queue[c][k][2] > att[a].after
                             /\ \A i \in 1 .. Len(first) : first[i] < queue[c][k][2]
                             /\ \A i \in 1 .. k - 1 :
                                  queue[c][i][1] = a => queue[c][i][2] < queue[c][k][2]
    BY DEF InOrder
  <2>1. Handed(a) /\ TypeOK
    BY <1>2 DEF DInv
  <2>2. Ascending(first) /\ \A i \in 1 .. Len(first) : first[i] > att[a].after
    <3>1. Within(a, first)
      BY <1>1, <1>2, <2>1 DEF Handed
    <3>2. \A i \in 1 .. Len(first) : first[i] \in Nat
      <4>1. first \in Seq(Nat)
        <5>1. got[a] \in Seq(Nat) /\ att[a].replay \in Seq(Nat)
          BY <2>1, AttFacts
        <5>2. first \in {got[a], att[a].replay}
          BY <1>1, <1>2
        <5>3. QED
          BY <5>1, <5>2
      <4>2. QED
        BY <4>1, ElementOfSeq, Zenon
    <3>3. att[a].after \in Nat /\ \A m, n \in Nat : m < n => n > m
      BY <2>1, AttFacts
    <3>4. QED
      BY <3>1, <3>2, <3>3 DEF Within
  <2>3. ASSUME NEW c \in Conn, NEW k \in 1 .. Len(queue[c]), queue[c][k][1] = a
        PROVE  /\ queue[c][k][2] > att[a].after
               /\ \A i \in 1 .. Len(first) : first[i] < queue[c][k][2]
               /\ \A i \in 1 .. k - 1 : queue[c][i][1] = a => queue[c][i][2] < queue[c][k][2]
    <3>1. FrameOf(c, k, a, queue[c][k][2])
      BY <1>2, <2>3 DEF DInv, Frame
    <3>2. first = got[a]
      BY <1>1, <1>2, <3>1 DEF FrameOf
    <3>3. queue[c][k][2] \in Nat
      BY <2>1 DEF TypeOK
    <3>4. att[a].after < queue[c][k][2] /\ att[a].after \in Nat
      BY <2>1, <3>1, AttFacts DEF FrameOf
    <3>5. queue[c][k][2] > att[a].after
      BY <3>3, <3>4
    <3>6. QED
      BY <3>1, <3>2, <3>5 DEF FrameOf
  <2>4. QED
    BY <2>2, <2>3
<1>3. QED
  BY <1>2, AlwaysDInv, PTL

(***************************************************************************)
(* What an attachment has not been given yet is still to come.             *)
(***************************************************************************)
LEMMA StillInJournal ==
  ASSUME DInv, NEW last \in Nat, ~ReplayExpired(run, last),
         NEW e \in last + 1 .. run.latest, e > run.acked
  PROVE  e \in Range(run.journal)
<1> DEFINE base == RetainedFrom(run)
           latest == run.latest
           n == Len(run.journal)
<1>1. TypeOK /\ GoodRun(run)
  BY DEF DInv
<1>2. /\ latest \in Nat /\ run.acked \in Nat /\ run.floor \in Nat
      /\ run.journal \in Seq(Nat) /\ n \in Nat
      /\ base \in Nat /\ (base = run.acked \/ base = run.floor) /\ run.floor <= last
  BY <1>1, RunFacts DEF RetainedFrom, Larger, ReplayExpired
<1>3. n = latest - base /\ base <= latest /\ \A i \in 1 .. n : run.journal[i] = base + i
  BY <1>1 DEF GoodRun, JournalExact
<1> HIDE DEF base, latest, n
<1>4. e \in Nat /\ e <= latest /\ e > base
  BY <1>2 DEF latest
<1>5. e - base \in 1 .. n /\ base + (e - base) = e
  BY <1>2, <1>3, <1>4
<1>6. run.journal[e - base] = e
  BY <1>3, <1>5
<1>7. DOMAIN run.journal = 1 .. n
  BY <1>2 DEF n
<1>8. QED
  BY <1>5, <1>6, <1>7 DEF Range

LEMMA StillUpcoming ==
  ASSUME DInv, NEW a \in Live, att[a].pc # "lagged", ~Lags(chan, att[a].next),
         NEW f \in att[a].last + 1 .. run.latest, f > run.acked
  PROVE  f \in Upcoming(chan, att[a].next)
<1> DEFINE at == att[a].next
           e == End(chan)
           h == chan.head
           n == Len(chan.buffer)
           latest == run.latest
           big == Larger(att[a].last, run.acked)
           p == e + f - latest - 1
           i == p - h + 1
<1>1. a \in Att /\ TypeOK /\ Stands(a)
  BY DEF DInv, Live
<1>2. /\ at \in Nat /\ latest \in Nat /\ att[a].last \in Nat /\ run.acked \in Nat
      /\ h \in Nat /\ n \in Nat /\ e \in Nat /\ e = h + n /\ big \in Nat
  BY <1>1, AttFacts, RunFacts, ChanFacts, LargerFacts
<1>3. f \in Nat /\ f > big /\ f <= latest
  BY <1>2 DEF Larger
<1>4. /\ latest + at <= e + big /\ h <= at
      /\ \A j \in 1 .. n : at < h + j => chan.buffer[j] + e = latest + h + j
  <2>1. h <= at
    BY <1>2 DEF Lags
  <2>2. QED
    BY <1>1, <2>1 DEF Stands
<1>5. n \in Nat /\ \A j \in 1 .. n : chan.buffer[j] \in Nat
  BY <1>1, ChanFacts
<1> HIDE DEF at, e, h, n, latest, big
<1>6. p \in Nat /\ at <= p /\ p < e /\ h <= p /\ p <= e
  BY <1>2, <1>3, <1>4
<1>7. i \in 1 .. n /\ at < h + i /\ h + i = p + 1 /\ h + i = e + f - latest
  BY <1>2, <1>3, <1>6
<1>8. chan.buffer[i] = f
  <2> DEFINE v == chan.buffer[i]
  <2>1. v \in Nat /\ v + e = latest + h + i /\ i \in Nat
    BY <1>4, <1>5, <1>7
  <2> HIDE DEF v, i, p
  <2>2. v = f
    BY <1>2, <1>3, <1>7, <2>1
  <2>3. QED
    BY <2>2 DEF v
<1> HIDE DEF p
<1>9. Holds(chan, p) /\ Value(chan, p) = f /\ p \in at .. e
  BY <1>2, <1>6, <1>8 DEF Holds, Value, e, h
<1>10. QED
  BY <1>9 DEF Upcoming, at, e

(* No event falls between a replay and the live events, nor into a lag:     *)
(* each event above the cursor that is not acknowledged has been given, or  *)
(* is in what the receiver has yet to take, or is in the journal when the   *)
(* receiver lags, unless the forwarder is about to be refused.              *)
THEOREM NoneLost == Spec => []NothingLost
<1>1. ASSUME DInv PROVE NothingLost
  <2> SUFFICES ASSUME NEW a \in Att, att[a].pc \in Running \cup {"held"}, Open(att[a].conn),
                      ~ReplayExpired(run, att[a].last),
                      NEW e \in Larger(att[a].after, run.acked) + 1 .. run.latest
               PROVE  e \in Coming(a) \cup Given(a)
    BY DEF NothingLost
  <2>1. /\ TypeOK /\ a \in Live /\ att[a].conn \in Conn /\ att[a].last \in Nat
        /\ run.acked \in Nat /\ run.latest \in Nat
    BY <1>1, StandsFacts
  <2>2. att[a].after \in Nat /\ att[a].pc # "unused"
    BY <2>1, AttFacts DEF Running
  <2>3. e > att[a].after /\ e > run.acked /\ e \in 1 .. run.latest
    BY <2>1, <2>2 DEF Larger
  <2>4. CASE e <= att[a].last
    <3>1. e \in att[a].after + 1 .. att[a].last
      BY <2>1, <2>2, <2>3, <2>4
    <3>2. Has(a, e)
      BY <1>1, <2>2, <2>3, <3>1 DEF DInv, Complete
    <3>3. QED
      BY <2>1, <2>3, <3>2 DEF Has, Given, Queued
  <2>5. CASE ~(e <= att[a].last)
    <3>1. e \in att[a].last + 1 .. run.latest
      BY <2>1, <2>3, <2>5
    <3>2. CASE att[a].pc = "lagged" \/ Lags(chan, att[a].next)
      <4>1. e \in Range(run.journal)
        BY <1>1, <2>1, <2>3, <3>1, StillInJournal
      <4>2. QED
        BY <3>2, <4>1 DEF Coming
    <3>3. CASE ~(att[a].pc = "lagged" \/ Lags(chan, att[a].next))
      <4>1. e \in Upcoming(chan, att[a].next)
        BY <1>1, <2>1, <2>3, <3>1, <3>3, StillUpcoming
      <4>2. QED
        BY <3>3, <4>1 DEF Coming
    <3>4. QED
      BY <3>2, <3>3
  <2>6. QED
    BY <2>4, <2>5
<1>2. QED
  BY <1>1, AlwaysDInv, PTL

-----------------------------------------------------------------------------
(***************************************************************************)
(* What the client of a connection hears.                                  *)
(***************************************************************************)
LEMMA HeardFrom ==
  ASSUME NEW c, NEW e
  PROVE  /\ e \in Heard(c) <=>
              \E a \in Att : att[a].conn = c /\ (e \in Range(got[a]) \/ e = att[a].after)
         /\ e \in Heard(c)' <=>
              \E a \in Att : att'[a].conn = c /\ (e \in Range(got'[a]) \/ e = att'[a].after)
         /\ e \in Written(c)' <=> \E a \in Att : att'[a].conn = c /\ e \in Range(got'[a])
  BY DEF Heard, Written

(* Up to any event that was given to an attachment nothing is missing. *)
LEMMA NoGap ==
  ASSUME DInv, NEW a \in Att, att[a].pc # "unused", Open(att[a].conn),
         NEW e \in Nat, e <= att[a].last, NEW d \in 1 .. e, ~(d <= run.acked), ~(d <= att[a].after)
  PROVE  Has(a, d)
<1>1. /\ TypeOK /\ att[a].after \in Nat /\ att[a].last \in Nat /\ run.acked \in Nat
  BY AttFacts, RunFacts DEF DInv
<1>2. d \in att[a].after + 1 .. att[a].last /\ d > run.acked
  BY <1>1
<1>3. QED
  BY <1>2 DEF DInv, Complete

(* A step that writes nothing makes nothing heard. *)
LEMMA NothingHeard ==
  ASSUME NEW c,
         \A x \in Att : att'[x].conn = c =>
           /\ att[x].conn = c /\ att'[x].after = att[x].after
           /\ got'[x] = got[x] \/ got'[x] = <<>>
  PROVE  Heard(c)' \subseteq Heard(c)
<1>1. Range(<<>>) = {}
  BY DEF Range
<1>2. \A x \in Att : att'[x].conn = c => Range(got'[x]) \subseteq Range(got[x])
  BY <1>1
<1>3. ASSUME NEW e \in Heard(c)' PROVE e \in Heard(c)
  <2>1. PICK x \in Att : att'[x].conn = c /\ (e \in Range(got'[x]) \/ e = att'[x].after)
    BY HeardFrom
  <2>2. att[x].conn = c /\ (e \in Range(got[x]) \/ e = att[x].after)
    BY <1>2, <2>1
  <2>3. QED
    BY <2>2, HeardFrom
<1>4. QED
  BY <1>3

(* No step passes over an event on connection c. *)
PassesOver(c) ==
  \E e \in Heard(c)' : \E d \in 1 .. e :
    /\ ~(d <= run.acked) /\ d \notin Written(c)' /\ \A k \in Heard(c) : ~(d <= k)

LEMMA NothingPassed ==
  ASSUME TypeOK, NEW c, Heard(c)' \subseteq Heard(c)
  PROVE  ~PassesOver(c)
<1> SUFFICES ASSUME NEW e \in Heard(c), NEW d \in 1 .. e PROVE \E k \in Heard(c) : d <= k
  BY DEF PassesOver
<1>1. QED
  OBVIOUS

(* The replay is written: whatever is below it was claimed or is in it. *)
LEMMA AttachedGapless == ASSUME DInv, NEW c \in Conn, Attached(c) PROVE ~PassesOver(c)
<1> DEFINE a == conn[c].new
<1>1. /\ TypeOK /\ conn[c].pc = "replay" /\ got' = [got EXCEPT ![a] = att[a].replay]
      /\ att' = [Aborting({conn[c].cur}) EXCEPT ![a].pc = "waiting", ![a].replay = <<>>]
  BY DEF DInv, Attached
<1>2. a \in Att /\ att[a].pc = "held" /\ att[a].conn = c /\ Open(c)
  BY <1>1 DEF DInv, Replaying, Open
<1> HIDE DEF a
<1>3. \A x \in Att : att'[x].conn = att[x].conn /\ att'[x].after = att[x].after
  <2>1. Aborting({conn[c].cur}) \in [Att -> Attachments]
    BY <1>1, AbortingFacts
  <2>2. \A x \in Att : /\ att'[x].conn = Aborting({conn[c].cur})[x].conn
                       /\ att'[x].after = Aborting({conn[c].cur})[x].after
    BY <1>1, <1>2, <2>1 DEF Attachments
  <2>3. QED
    BY <1>1, <2>2, AbortingFacts
<1>4. got'[a] = att[a].replay /\ \A x \in Att : x # a => got'[x] = got[x]
  BY <1>1, <1>2 DEF TypeOK
<1>5. ASSUME NEW e \in Heard(c)', e \notin Heard(c) PROVE e \in Range(att[a].replay)
  BY <1>3, <1>4, <1>5, HeardFrom
<1>6. att[a].replay \in Seq(Nat) /\ Within(a, att[a].replay) /\ got[a] = <<>> /\ att[a].pc # "unused"
  BY <1>1, <1>2, AttFacts DEF DInv, Placed, Handed
<1>7. ASSUME NEW e \in Range(att[a].replay) PROVE e \in Nat /\ e <= att[a].last
  BY <1>6 DEF Range, Within
<1>8. ASSUME NEW d, Has(a, d) PROVE d \in Written(c)'
  <2>1. Range(<<>>) = {}
    BY DEF Range
  <2>2. <<a, d>> \notin Range(queue[c])
    <3>1. ASSUME NEW k \in 1 .. Len(queue[c]), queue[c][k] = <<a, d>> PROVE FALSE
      <4>1. Frame(c, k) /\ queue[c][k][1] = a
        BY <3>1 DEF DInv
      <4>2. QED
        BY <1>2, <4>1 DEF Frame, FrameOf
    <3>2. DOMAIN queue[c] = 1 .. Len(queue[c])
      BY <1>1 DEF TypeOK
    <3>3. QED
      BY <3>1, <3>2 DEF Range
  <2>3. d \in Range(got'[a])
    BY <1>2, <1>4, <1>6, <1>8, <2>1, <2>2 DEF Has
  <2>4. QED
    BY <1>2, <1>3, <2>3, HeardFrom
<1>9. ASSUME NEW e \in Heard(c)', NEW d \in 1 .. e, ~(d <= run.acked), d \notin Written(c)'
      PROVE  \E k \in Heard(c) : d <= k
  <2>1. CASE e \in Heard(c)
    BY <2>1
  <2>2. CASE e \notin Heard(c)
    <3>1. e \in Nat /\ e <= att[a].last
      BY <1>5, <1>7, <2>2
    <3>2. d <= att[a].after
      BY <1>2, <1>6, <1>8, <1>9, <3>1, NoGap
    <3>3. att[a].after \in Heard(c)
      BY <1>2, HeardFrom
    <3>4. QED
      BY <3>2, <3>3
  <2>3. QED
    BY <2>1, <2>2
<1>10. QED
  BY <1>9 DEF PassesOver

(* The first event of the queue is written: whatever of its attachment is   *)
(* below it has been written before.                                        *)
LEMMA FlushGapless == ASSUME DInv, NEW c \in Conn, Flush(c) PROVE ~PassesOver(c)
<1>1. PICK a \in Att, f \in Nat : Flushes(c, a, f)
  BY FlushesIntro
<1>2. TypeOK /\ att' = att /\ Open(c)
  BY DEF DInv, Flush, Open
<1>3. att[a].conn = c /\ att[a].pc \notin {"unused", "held"} /\ f <= att[a].last
  BY <1>1 DEF Flushes, FrameOf
<1>4. ASSUME NEW e \in Heard(c)', e \notin Heard(c) PROVE e = f
  <2>1. PICK x \in Att : att'[x].conn = c /\ (e \in Range(got'[x]) \/ e = att'[x].after)
    BY HeardFrom
  <2>2. e \in Range(got'[x]) /\ e \notin Range(got[x])
    BY <1>2, <1>4, <2>1, HeardFrom
  <2>3. x # a => got'[x] = got[x]
    BY <1>1 DEF Flushes
  <2>4. Range(got'[a]) = Range(got[a]) \cup {f}
    BY <1>1 DEF Flushes
  <2>5. QED
    BY <2>2, <2>3, <2>4, Zenon
<1>5. ASSUME NEW d \in 1 .. f, Has(a, d) PROVE d \in Written(c)'
  <2>1. att[a].replay = <<>>
    BY <1>3 DEF DInv, Placed
  <2>2. d \in Range(got[a]) \/ <<a, d>> \in Range(queue[c])
    <3>1. Range(<<>>) = {}
      BY DEF Range
    <3>2. QED
      BY <1>3, <1>5, <2>1, <3>1 DEF Has
  <2>3. ASSUME <<a, d>> \in Range(queue[c]) PROVE d = f
    <3>1. DOMAIN queue[c] = 1 .. Len(queue[c])
      BY <1>2 DEF TypeOK
    <3>2. PICK k \in 1 .. Len(queue[c]) : queue[c][k] = <<a, d>>
      BY <2>3, <3>1 DEF Range
    <3>3. queue[c][1] = <<a, f>>
      BY <1>1 DEF Flushes
    <3>4. CASE k # 1
      <4>1. FrameOf(c, k, a, d)
        BY <3>2 DEF DInv, Frame
      <4>2. 1 \in 1 .. k - 1
        BY <3>4
      <4>3. f < d
        BY <3>3, <4>1, <4>2 DEF FrameOf
      <4>4. QED
        BY <4>3
    <3>5. QED
      BY <3>2, <3>3, <3>4
  <2>4. d \in Range(got'[a])
    BY <1>1, <2>2, <2>3 DEF Flushes
  <2>5. QED
    BY <1>2, <1>3, <2>4, HeardFrom
<1>6. ASSUME NEW e \in Heard(c)', NEW d \in 1 .. e, ~(d <= run.acked), d \notin Written(c)'
      PROVE  \E k \in Heard(c) : d <= k
  <2>1. CASE e \in Heard(c)
    BY <2>1
  <2>2. CASE e \notin Heard(c)
    <3>1. e = f
      BY <1>4, <2>2
    <3>2. d <= att[a].after
      BY <1>2, <1>3, <1>5, <1>6, <3>1, NoGap
    <3>3. att[a].after \in Heard(c)
      BY <1>3, HeardFrom
    <3>4. QED
      BY <3>2, <3>3
  <2>3. QED
    BY <2>1, <2>2
<1>7. QED
  BY <1>6 DEF PassesOver

(* The other steps write nothing on connection c. *)
LEMMA ForwarderSilent ==
  ASSUME DInv, NEW a \in Att, Forwarder(a)
  PROVE  /\ got' = got
         /\ \A x \in Att : att'[x].conn = att[x].conn /\ att'[x].after = att[x].after
<1>1. att \in [Att -> Attachments]
  BY DEF DInv, TypeOK
<1>2. CASE Ends(a) \/ Poll(a) \/ Park(a) \/ RecvLagged(a)
  <2>1. \/ \E pc \in AttPCs : att' = [att EXCEPT ![a].pc = pc]
        \/ att' = [att EXCEPT ![a].next = chan.head, ![a].pc = "lagged"]
    BY <1>2 DEF Ends, Poll, Park, RecvLagged, AttPCs, Running
  <2>2. ASSUME NEW x \in Att PROVE att'[x].conn = att[x].conn /\ att'[x].after = att[x].after
    <3>1. att[x] \in Attachments
      BY <1>1
    <3>2. CASE x = a
      BY <1>1, <2>1, <3>1, <3>2 DEF Attachments
    <3>3. CASE x # a
      BY <1>1, <2>1, <3>3
    <3>4. QED
      BY <3>2, <3>3
  <2>3. got' = got
    BY DEF Forwarder, Stop, Poll, Park, RecvValue, RecvLagged, Reattach
  <2>4. QED
    BY <2>2, <2>3
<1>3. ASSUME NEW events, NEW last, NEW next, Forward(a, events, last, next)
      PROVE  \/ Ends(a)
             \/ \A x \in Att : att'[x].conn = att[x].conn /\ att'[x].after = att[x].after
  <2>1. \/ Ends(a)
        \/ att' = [att EXCEPT ![a].pc = "polling", ![a].last = last, ![a].next = next]
    BY <1>3 DEF Forward
  <2> SUFFICES ASSUME NEW x \in Att,
                      att' = [att EXCEPT ![a].pc = "polling", ![a].last = last, ![a].next = next]
               PROVE  att'[x].conn = att[x].conn /\ att'[x].after = att[x].after
    BY <2>1
  <2>2. att[x] \in Attachments
    BY <1>1
  <2>3. CASE x = a
    BY <1>1, <2>2, <2>3 DEF Attachments
  <2>4. CASE x # a
    BY <1>1, <2>4
  <2>5. QED
    BY <2>3, <2>4
<1>4. CASE Stop(a) \/ RecvValue(a) \/ Reattach(a)
  <2>1. Ends(a) \/ \E events, last, next : Forward(a, events, last, next)
    BY <1>4, Zenon DEF Stop, RecvValue, Reattach
  <2>2. got' = got
    BY <1>4 DEF Stop, RecvValue, Reattach
  <2>3. QED
    BY <1>2, <1>3, <2>1, <2>2
<1>5. QED
  BY <1>2, <1>4 DEF Forwarder

LEMMA ClientSilent ==
  ASSUME DInv, NEW b \in Conn, Client(b), NEW c \in Conn, conn'[c].pc # "replay", NEW x \in Att,
         att'[x].conn = c
  PROVE  /\ att[x].conn = c /\ att'[x].after = att[x].after
         /\ got'[x] = got[x] \/ got'[x] = <<>>
<1>1. TypeOK /\ att \in [Att -> Attachments]
  BY DEF DInv, TypeOK
<1>2. ASSUME NEW a \in Att, NEW after, Attach(b, a, after)
      PROVE  att'[x] = att[x] /\ got' = got
  <2>1. /\ conn' = [conn EXCEPT ![b].pc = "replay", ![b].new = a] /\ got' = got
        /\ \E e, s, n : att' = [att EXCEPT ![a] = [Unused EXCEPT !.pc = "held", !.conn = b,
                                  !.after = after, !.last = e, !.next = n, !.replay = s]]
    BY <1>2 DEF Attach
  <2>2. conn'[b].pc = "replay"
    BY <1>1, <2>1 DEF TypeOK
  <2>3. att'[a].conn = b
    BY <1>1, <2>1 DEF Unused
  <2>4. x # a
    BY <2>2, <2>3
  <2>5. QED
    BY <1>1, <2>1, <2>4
<1>3. ASSUME Close(b) PROVE got'[x] = got[x] \/ got'[x] = <<>>
  BY <1>3 DEF Close
<1>4. CASE Detach(b) \/ HangUp(b) \/ HandlerFails(b)
  <2>1. /\ att' = att \/ att' = Aborting({conn[b].cur})
        /\ got'[x] = got[x] \/ got'[x] = <<>>
    BY <1>3, <1>4 DEF Detach, HangUp, HandlerFails
  <2>2. att'[x].conn = att[x].conn /\ att'[x].after = att[x].after
    BY <1>1, <2>1, AbortingFacts
  <2>3. QED
    BY <2>1, <2>2
<1>5. CASE AttachFailed(b)
  <2>1. /\ att' = [att EXCEPT ![conn[b].new].pc = "done", ![conn[b].new].replay = <<>>]
        /\ got'[x] = got[x] \/ got'[x] = <<>>
    BY <1>3, <1>5 DEF AttachFailed
  <2>2. att'[x].conn = att[x].conn /\ att'[x].after = att[x].after
    BY <1>1, <2>1 DEF Attachments
  <2>3. QED
    BY <2>1, <2>2
<1>6. QED
  BY <1>2, <1>4, <1>5 DEF Client

LEMMA HandlerElsewhere ==
  ASSUME DInv, NEW b \in Conn, Handler(b), NEW c \in Conn, c # b, NEW x \in Att,
         att'[x].conn = c
  PROVE  att[x].conn = c /\ att'[x].after = att[x].after /\ got'[x] = got[x]
<1>1. TypeOK /\ got \in [Att -> Seq(Nat)]
  BY DEF DInv, TypeOK
<1>2. CASE Attached(b)
  <2> DEFINE a == conn[b].new
             others == Aborting({conn[b].cur})
  <2>1. /\ conn[b].pc = "replay" /\ got' = [got EXCEPT ![a] = att[a].replay]
        /\ att' = [others EXCEPT ![a].pc = "waiting", ![a].replay = <<>>]
    BY <1>2 DEF Attached
  <2>2. a \in Att /\ att[a].conn = b
    BY <2>1 DEF DInv, Replaying
  <2>3. /\ others \in [Att -> Attachments]
        /\ others[x].conn = att[x].conn /\ others[x].after = att[x].after
    BY <1>1, AbortingFacts
  <2> HIDE DEF a, others
  <2>4. att'[x].conn = att[x].conn /\ att'[x].after = att[x].after
    BY <2>1, <2>2, <2>3 DEF Attachments
  <2>5. QED
    BY <1>1, <2>1, <2>2, <2>4
<1>3. CASE Flush(b)
  <2>1. PICK a \in Att, e \in Nat : Flushes(b, a, e)
    BY <1>3, FlushesIntro
  <2>2. att' = att
    BY <1>3 DEF Flush
  <2>3. QED
    BY <2>1, <2>2 DEF Flushes, FrameOf
<1>4. QED
  BY <1>2, <1>3 DEF Handler

LEMMA StepGapless ==
  ASSUME DInv, [Next]_vars, NEW c \in Conn, conn'[c].pc # "replay"
  PROVE  ~PassesOver(c)
<1>1. TypeOK
  BY DEF DInv
<1>2. ASSUME UNCHANGED <<att, got>> PROVE ~PassesOver(c)
  <2>1. Heard(c)' \subseteq Heard(c)
    BY <1>2, NothingHeard
  <2>2. QED
    BY <1>1, <2>1, NothingPassed
<1>3. CASE Publish \/ (\E n \in 1 .. run.latest : Acknowledge(n)) \/ UNCHANGED vars
  BY <1>2, <1>3 DEF Publish, Acknowledge, vars
<1>4. ASSUME NEW b \in Conn, Client(b) PROVE ~PassesOver(c)
  <2>1. Heard(c)' \subseteq Heard(c)
    BY <1>4, ClientSilent, NothingHeard
  <2>2. QED
    BY <1>1, <2>1, NothingPassed
<1>5. ASSUME NEW b \in Conn, Handler(b) PROVE ~PassesOver(c)
  <2>1. CASE b = c
    BY <1>5, <2>1, AttachedGapless, FlushGapless DEF Handler
  <2>2. CASE b # c
    <3>1. Heard(c)' \subseteq Heard(c)
      BY <1>5, <2>2, HandlerElsewhere, NothingHeard
    <3>2. QED
      BY <1>1, <3>1, NothingPassed
  <2>3. QED
    BY <2>1, <2>2
<1>6. ASSUME NEW a \in Att, Forwarder(a) PROVE ~PassesOver(c)
  <2>1. Heard(c)' \subseteq Heard(c)
    BY <1>6, ForwarderSilent, NothingHeard
  <2>2. QED
    BY <1>1, <2>1, NothingPassed
<1>7. QED
  BY <1>3, <1>4, <1>5, <1>6 DEF Next

(* A client that keeps the highest sequence it has heard of on a            *)
(* connection, and drops what comes at or below it, misses nothing that is  *)
(* not acknowledged, however often it attaches anew: no step that writes on *)
(* the connection passes over an event above that sequence.                 *)
THEOREM NothingPassedOver == Spec => Gapless
<1>1. DInv /\ [Next]_vars =>
        [\A c \in Conn : conn'[c].pc # "replay" =>
           \A e \in Heard(c)' : \A d \in 1 .. e :
             \/ d <= run.acked
             \/ d \in Written(c)'
             \/ \E k \in Heard(c) : d <= k]_vars
  BY StepGapless DEF PassesOver
<1>2. QED
  BY <1>1, AlwaysDInv, PTL DEF Spec, Gapless
=============================================================================
