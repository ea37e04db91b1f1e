--------------------------- MODULE LiveRunProofs ---------------------------
(***************************************************************************)
(* What the operators of LiveRun preserve: the type of a run, the bound on *)
(* its journal, and the exactness of the journal.                          *)
(***************************************************************************)
EXTENDS LiveRun, SequenceTheorems, TLAPS

(* A run is typed, and its journal is within MAX_REPLAY_EVENTS. *)
BoundedRun(run) == run \in LiveRuns /\ Len(run.journal) <= MaxReplay

(* A run as the registry keeps it. *)
GoodRun(run) == BoundedRun(run) /\ JournalExact(run)

(* What the loop of acknowledge leaves of a journal that has no hole, and   *)
(* what attach replays of it: the events above the cursor.                  *)
LEMMA AfterExact ==
  ASSUME NEW journal \in Seq(Nat), NEW base \in Nat, NEW through \in Nat,
         through <= base + Len(journal),
         \A i \in 1 .. Len(journal) : journal[i] = base + i
  PROVE  /\ After(journal, through) \in Seq(Nat)
         /\ Len(After(journal, through)) = base + Len(journal) - Larger(base, through)
         /\ \A i \in 1 .. Len(After(journal, through)) :
              After(journal, through)[i] = Larger(base, through) + i
<1> DEFINE P(k) == /\ \A i \in 1 .. k : journal[i] <= through
                   /\ k < Len(journal) => journal[k + 1] > through
           d == Larger(base, through) - base
<1>1. /\ d \in 0 .. Len(journal) /\ Len(journal) \in Nat
      /\ base + d >= through
      /\ d = 0 \/ base + d = through
  BY DEF Larger
<1> HIDE DEF d
<1>2. P(d)
  <2>1. ASSUME NEW i \in 1 .. d PROVE journal[i] <= through
    <3>1. i \in 1 .. Len(journal)
      BY <1>1
    <3> QED
      BY <3>1, <1>1
  <2>2. ASSUME d < Len(journal) PROVE journal[d + 1] > through
    <3>1. d + 1 \in 1 .. Len(journal)
      BY <1>1, <2>2
    <3>2. journal[d + 1] = base + (d + 1)
      BY <3>1
    <3> QED
      BY <3>2, <1>1
  <2> QED
    BY <2>1, <2>2
<1>3. ASSUME NEW k \in 0 .. Len(journal), P(k)
      PROVE  k = d
  <2>1. CASE k < d
    <3>1. k < Len(journal) /\ k + 1 \in 1 .. Len(journal)
      BY <1>1, <2>1
    <3>2. journal[k + 1] = base + (k + 1) /\ journal[k + 1] > through
      BY <1>3, <3>1
    <3> QED
      BY <2>1, <3>2, <1>1
  <2>2. CASE k > d
    <3>1. d + 1 \in 1 .. k /\ d + 1 \in 1 .. Len(journal)
      BY <1>1, <2>2
    <3>2. journal[d + 1] = base + (d + 1) /\ journal[d + 1] <= through
      BY <1>3, <3>1
    <3> QED
      BY <3>2, <1>1
  <2> QED
    BY <2>1, <2>2, <1>1
<1>4. (CHOOSE k \in 0 .. Len(journal) : P(k)) = d
  BY <1>1, <1>2, <1>3
<1>5. After(journal, through) = SubSeq(journal, d + 1, Len(journal))
  BY <1>4 DEF After
<1> HIDE DEF P
<1>6. /\ SubSeq(journal, d + 1, Len(journal)) \in Seq(Nat)
      /\ Len(SubSeq(journal, d + 1, Len(journal))) = Len(journal) - d
      /\ \A i \in 1 .. Len(journal) - d :
           SubSeq(journal, d + 1, Len(journal))[i] = journal[d + i]
  BY <1>1
<1> QED
  <2> DEFINE rest == SubSeq(journal, d + 1, Len(journal))
             from == Larger(base, through)
  <2>1. base + d = from
    BY DEF d, Larger
  <2> HIDE DEF rest, from
  <2>2. rest \in Seq(Nat) /\ Len(rest) = Len(journal) - d
    BY <1>6 DEF rest
  <2>3. ASSUME NEW i \in 1 .. Len(rest) PROVE rest[i] = from + i
    <3>1. i \in 1 .. Len(journal) - d /\ d + i \in 1 .. Len(journal)
      BY <1>1, <2>2
    <3>2. rest[i] = journal[d + i] /\ journal[d + i] = base + (d + i)
      BY <3>1, <1>6 DEF rest
    <3> QED
      BY <3>2, <2>1, <1>1
  <2>4. Len(rest) = base + Len(journal) - from
    BY <1>1, <2>1, <2>2
  <2> QED
    BY <1>5, <2>2, <2>3, <2>4 DEF rest, from

(* push_journal on a run whose latest sequence is s. *)
LEMMA PushJournalBounded ==
  ASSUME NEW run, BoundedRun(run), NEW s \in Nat
  PROVE  BoundedRun(PushJournal(run, s))
<1> USE MaxReplayAssumption
<1> DEFINE grown == Append(run.journal, s)
<1>1. /\ grown \in Seq(Nat) /\ grown # <<>>
      /\ Len(grown) = Len(run.journal) + 1
      /\ Len(run.journal) \in Nat /\ Len(run.journal) <= MaxReplay
  BY DEF BoundedRun, LiveRuns
<1>2. CASE Len(grown) > MaxReplay
  <2>1. /\ Tail(grown) \in Seq(Nat) /\ Len(Tail(grown)) <= MaxReplay
        /\ Head(grown) \in Nat
    BY <1>1, <1>2
  <2>2. Larger(run.floor, Head(grown)) \in Nat
    BY <2>1 DEF Larger, BoundedRun, LiveRuns
  <2>3. PushJournal(run, s) = [run EXCEPT !.journal = Tail(grown),
                                         !.floor = Larger(run.floor, Head(grown))]
    BY <1>2 DEF PushJournal
  <2> HIDE DEF grown
  <2> QED
    BY <2>1, <2>2, <2>3 DEF BoundedRun, LiveRuns
<1>3. CASE ~(Len(grown) > MaxReplay)
  <2>1. PushJournal(run, s) = [run EXCEPT !.journal = grown]
    BY <1>3 DEF PushJournal
  <2>2. Len(grown) <= MaxReplay
    BY <1>1, <1>3
  <2> HIDE DEF grown
  <2> QED
    BY <1>1, <2>1, <2>2 DEF BoundedRun, LiveRuns
<1> QED
  BY <1>2, <1>3

(* What publish does to a good run: the event it appends is the next one.   *)
LEMMA PublishedGood ==
  ASSUME NEW run, GoodRun(run), NEW st \in RunStates
  PROVE  GoodRun(Published(run, st))
<1> USE MaxReplayAssumption
<1> DEFINE s     == run.latest + 1
           moved == [run EXCEPT !.latest = s, !.state = st,
                                !.completed = run.completed \/ Finishes(run, st)]
           base  == RetainedFrom(run)
           grown == Append(run.journal, s)
           next  == Published(run, st)
<1>1. /\ run \in LiveRuns /\ Len(run.journal) <= MaxReplay
      /\ base <= run.latest /\ Len(run.journal) = run.latest - base
      /\ \A i \in 1 .. Len(run.journal) : run.journal[i] = base + i
  BY DEF GoodRun, BoundedRun, JournalExact
<1>2. /\ run.latest \in Nat /\ run.acked \in Nat /\ run.floor \in Nat
      /\ run.journal \in Seq(Nat) /\ Len(run.journal) \in Nat
      /\ base = Larger(run.acked, run.floor) /\ base \in Nat
      /\ run.completed \in BOOLEAN /\ run.state \in RunStates
  BY <1>1 DEF LiveRuns, RetainedFrom, Larger
<1>3. /\ moved \in LiveRuns
      /\ moved.journal = run.journal /\ moved.latest = s
      /\ moved.acked = run.acked /\ moved.floor = run.floor
  <2> DEFINE done == run.completed \/ Finishes(run, st)
  <2>1. done \in BOOLEAN /\ s \in Nat
    BY <1>2 DEF Finishes, IsActive
  <2>2. moved = [run EXCEPT !.latest = s, !.state = st, !.completed = done]
    OBVIOUS
  <2> HIDE DEF done, s, moved
  <2> QED
    BY <1>1, <2>1, <2>2 DEF LiveRuns
<1>4. next = PushJournal(moved, s)
  BY DEF Published
<1>5. BoundedRun(next)
  <2>1. BoundedRun(moved)
    BY <1>1, <1>3 DEF BoundedRun
  <2> QED
    BY <2>1, <1>2, <1>4, PushJournalBounded
<1>6. /\ grown \in Seq(Nat) /\ Len(grown) = Len(run.journal) + 1
      /\ \A i \in 1 .. Len(grown) : grown[i] = base + i
  <2>1. /\ grown \in Seq(Nat) /\ Len(grown) = Len(run.journal) + 1
        /\ \A i \in 1 .. Len(run.journal) : grown[i] = run.journal[i]
        /\ grown[Len(run.journal) + 1] = s
    BY <1>2
  <2>2. s = base + Len(run.journal) + 1
    BY <1>1, <1>2
  <2> HIDE DEF grown, base, s
  <2>3. ASSUME NEW i \in 1 .. Len(grown) PROVE grown[i] = base + i
    <3>1. CASE i \in 1 .. Len(run.journal)
      BY <3>1, <2>1, <1>1
    <3>2. CASE i = Len(run.journal) + 1
      BY <3>2, <2>1, <2>2, <1>2
    <3> QED
      BY <3>1, <3>2, <2>1, <1>2
  <2> QED
    BY <2>1, <2>3
<1> HIDE DEF base, moved
<1>7. JournalExact(next)
  <2>1. CASE Len(grown) > MaxReplay
    <3>1. next = [moved EXCEPT !.journal = Tail(grown),
                               !.floor = Larger(run.floor, Head(grown))]
      BY <1>3, <1>4, <2>1 DEF PushJournal
    <3> HIDE DEF grown, next
    <3>2. /\ Head(grown) = base + 1 /\ Len(Tail(grown)) = Len(run.journal)
          /\ \A i \in 1 .. Len(run.journal) : Tail(grown)[i] = base + 1 + i
      <4>1. grown # <<>> /\ 1 \in 1 .. Len(grown)
        BY <1>6, <1>2
      <4>2. /\ Head(grown) = grown[1] /\ Len(Tail(grown)) = Len(grown) - 1
            /\ \A i \in 1 .. Len(grown) - 1 : Tail(grown)[i] = grown[i + 1]
        BY <4>1, <1>6
      <4>3. Head(grown) = base + 1 /\ Len(Tail(grown)) = Len(run.journal)
        BY <4>1, <4>2, <1>6, <1>2
      <4>4. ASSUME NEW i \in 1 .. Len(run.journal) PROVE Tail(grown)[i] = base + 1 + i
        <5>1. i \in 1 .. Len(grown) - 1 /\ i + 1 \in 1 .. Len(grown) /\ i \in Nat
          BY <1>6, <1>2
        <5>2. Tail(grown)[i] = base + (i + 1)
          BY <5>1, <4>2, <1>6
        <5> QED
          BY <5>1, <5>2, <1>2
      <4> QED
        BY <4>3, <4>4
    <3>3. /\ next.acked = run.acked /\ next.floor = Larger(run.floor, base + 1)
          /\ next.latest = s /\ next.journal = Tail(grown)
      BY <3>1, <3>2, <1>3 DEF LiveRuns
    <3>4. RetainedFrom(next) = base + 1
      BY <3>3, <1>2 DEF RetainedFrom, Larger
    <3>5. base + 1 <= s /\ Len(run.journal) = s - (base + 1)
      BY <1>1, <1>2
    <3> HIDE DEF s
    <3> QED
      BY <3>2, <3>3, <3>4, <3>5 DEF JournalExact
  <2>2. CASE ~(Len(grown) > MaxReplay)
    <3>1. next = [moved EXCEPT !.journal = grown]
      BY <1>3, <1>4, <2>2 DEF PushJournal
    <3> HIDE DEF grown, next
    <3>2. /\ next.acked = run.acked /\ next.floor = run.floor
          /\ next.latest = s /\ next.journal = grown
      BY <3>1, <1>3 DEF LiveRuns
    <3>3. RetainedFrom(next) = base
      BY <3>2, <1>2 DEF RetainedFrom
    <3> QED
      BY <3>2, <3>3, <1>6, <1>1, <1>2 DEF JournalExact
  <2> QED
    BY <2>1, <2>2
<1> QED
  BY <1>5, <1>7 DEF GoodRun

(* What publish leaves alone and what it sets, as the registry sees it. *)
LEMMA PublishedFields ==
  ASSUME NEW run \in LiveRuns, NEW st \in RunStates
  PROVE  /\ Published(run, st).state = st
         /\ Published(run, st).latest = run.latest + 1
         /\ Published(run, st).cancel = run.cancel
         /\ Published(run, st).completed = (run.completed \/ Finishes(run, st))
BY DEF Published, PushJournal, LiveRuns

(* What acknowledge does to a good run, whatever the client sends. *)
LEMMA AcknowledgedGood ==
  ASSUME NEW run, GoodRun(run), NEW through \in Nat
  PROVE  GoodRun(Acknowledged(run, through))
<1> USE MaxReplayAssumption
<1> DEFINE cursor == Larger(run.acked, Smaller(through, run.latest))
           base   == RetainedFrom(run)
           rest   == After(run.journal, cursor)
           next   == Acknowledged(run, through)
<1>1. /\ run \in LiveRuns /\ Len(run.journal) <= MaxReplay
      /\ base <= run.latest /\ Len(run.journal) = run.latest - base
      /\ \A i \in 1 .. Len(run.journal) : run.journal[i] = base + i
  BY DEF GoodRun, BoundedRun, JournalExact
<1>2. /\ run.latest \in Nat /\ run.acked \in Nat /\ run.floor \in Nat
      /\ run.journal \in Seq(Nat) /\ Len(run.journal) \in Nat
      /\ base = Larger(run.acked, run.floor) /\ base \in Nat
  BY <1>1 DEF LiveRuns, RetainedFrom, Larger
<1>3. cursor \in Nat /\ run.acked <= cursor /\ cursor <= run.latest
  BY <1>1, <1>2 DEF Larger, Smaller
<1>4. next = [run EXCEPT !.acked = cursor, !.journal = rest]
  BY DEF Acknowledged
<1> HIDE DEF cursor, next, base
<1>5. /\ rest \in Seq(Nat) /\ Len(rest) = run.latest - Larger(base, cursor)
      /\ \A i \in 1 .. Len(rest) : rest[i] = Larger(base, cursor) + i
  <2>1. cursor <= base + Len(run.journal) /\ base + Len(run.journal) = run.latest
    BY <1>1, <1>2, <1>3
  <2>2. /\ rest \in Seq(Nat)
        /\ Len(rest) = base + Len(run.journal) - Larger(base, cursor)
        /\ \A i \in 1 .. Len(rest) : rest[i] = Larger(base, cursor) + i
    BY <1>1, <1>2, <1>3, <2>1, AfterExact
  <2> HIDE DEF rest
  <2>3. Len(rest) = run.latest - Larger(base, cursor)
    BY <1>2, <1>3, <2>1, <2>2 DEF Larger
  <2> QED
    BY <2>2, <2>3
<1> HIDE DEF rest
<1>6. /\ next \in LiveRuns
      /\ next.acked = cursor /\ next.floor = run.floor
      /\ next.latest = run.latest /\ next.journal = rest
  BY <1>1, <1>3, <1>4, <1>5 DEF LiveRuns
<1>7. RetainedFrom(next) = Larger(base, cursor) /\ Larger(base, cursor) <= run.latest
      /\ Larger(base, cursor) \in Nat /\ base <= Larger(base, cursor)
  BY <1>1, <1>2, <1>3, <1>6 DEF RetainedFrom, Larger
<1>8. BoundedRun(next)
  BY <1>1, <1>2, <1>5, <1>6, <1>7 DEF BoundedRun
<1>9. JournalExact(next)
  BY <1>2, <1>5, <1>6, <1>7 DEF JournalExact
<1> QED
  BY <1>8, <1>9 DEF GoodRun, next

LEMMA AcknowledgedFields ==
  ASSUME NEW run \in LiveRuns, NEW through
  PROVE  LET next == Acknowledged(run, through)
         IN  /\ next.state = run.state /\ next.latest = run.latest
             /\ next.cancel = run.cancel /\ next.completed = run.completed
BY DEF Acknowledged, LiveRuns

LEMMA CancelTakenGood ==
  ASSUME NEW run, GoodRun(run)
  PROVE  /\ GoodRun(CancelTaken(run))
         /\ CancelTaken(run).state = run.state /\ CancelTaken(run).latest = run.latest
         /\ CancelTaken(run).completed = run.completed /\ ~CancelTaken(run).cancel
<1>1. CancelTaken(run) = [run EXCEPT !.cancel = FALSE] /\ run \in LiveRuns
  BY DEF CancelTaken, GoodRun, BoundedRun
<1> QED
  BY <1>1 DEF GoodRun, BoundedRun, JournalExact, RetainedFrom, LiveRuns

LEMMA NewRunGood == GoodRun(NewRun)
BY MaxReplayAssumption
   DEF GoodRun, BoundedRun, JournalExact, RetainedFrom, Larger, NewRun, LiveRuns,
       RunStates, ActiveStates
=============================================================================
