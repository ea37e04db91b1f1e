------------------------- MODULE ClientDriveProofs -------------------------
(***************************************************************************)
(* The safety of ClientDrive for any requests, versions, events and room   *)
(* in the socket: nobody waits for a drive that has returned, nobody is    *)
(* given another's answer, and both ends speak one version.                *)
(***************************************************************************)
EXTENDS ClientDrive, SequenceTheorems, TLAPS

Versions == {NoVersion} \cup (Nat \X Nat)
Asked    == [id : Nat, of : Requests]
Replies  == [id : Nat, of : Requests, version : Versions]
Sent     == Replies \cup {Event}
Handlers == [pc : {"hello", "ready", "refusing", "closed"}, built : Majors \X Minors,
             version : Versions, out : Seq(Sent)]

Typed ==
  /\ client \in {"connecting", "ready", "dropped"}
  /\ status \in [Requests -> Statuses]
  /\ answer \in [Requests -> Replies \cup {NoAnswer}]
  /\ queue \in Seq(Requests)
  /\ writing \in Requests \cup {"none"} /\ onWire \in BOOLEAN /\ driving \in BOOLEAN
  /\ nextId \in Nat \ {0}
  /\ DOMAIN pending \subseteq 1 .. nextId - 1
  /\ \A i \in DOMAIN pending : pending[i] \in Requests
  /\ proxy \in Handlers /\ Len(proxy.out) <= 1
  /\ toProxy \in Seq(Asked) /\ Len(toProxy) <= Room
  /\ toClient \in Seq(Sent) /\ Len(toClient) <= Room
  /\ events \in 0 .. MaxEvents

(***************************************************************************)
(* AnsweredByOwn is not inductive: it needs to know of each frame on its   *)
(* way that it carries the request its number was given to.  A number is   *)
(* that of the request being written, of a pending one, or of one that     *)
(* nobody waits for any more, and no frame carries it before its write.    *)
(***************************************************************************)
Matches(id, of) ==
  /\ id \in 1 .. nextId - 1
  /\ \A i \in DOMAIN pending : id = i => of = pending[i]
  /\ writing # "none" /\ id = nextId - 1 => onWire /\ of = writing

Framed ==
  /\ \A k \in 1 .. Len(toProxy) : Matches(toProxy[k].id, toProxy[k].of)
  /\ \A k \in 1 .. Len(toClient) :
       toClient[k] # Event => Matches(toClient[k].id, toClient[k].of)
  /\ \A k \in 1 .. Len(proxy.out) :
       proxy.out[k] # Event => Matches(proxy.out[k].id, proxy.out[k].of)

Numbered ==
  /\ onWire => writing # "none"
  /\ writing # "none" => nextId > 1 /\ nextId - 1 \notin DOMAIN pending

(* SpeakSame needs to know of each response that it carries no version, or  *)
(* the one that the proxy has agreed to.                                    *)
Carries(frame) == frame.version # NoVersion => frame.version = proxy.version

Agreed ==
  /\ proxy.pc = "hello" => proxy.version = NoVersion
  /\ proxy.version \in {NoVersion, Negotiate(proxy.built, PROTOCOL_VERSION)}
  /\ \A k \in 1 .. Len(toClient) : Carries(toClient[k])
  /\ \A k \in 1 .. Len(proxy.out) : Carries(proxy.out[k])
  /\ \A q \in Requests : Carries(answer[q])
  /\ client = "ready" => version # NoVersion /\ version = proxy.version

CInv == /\ Typed /\ Framed /\ Numbered
        /\ NoneForgotten /\ AnsweredByOwn /\ Agreed

-----------------------------------------------------------------------------
(***************************************************************************)
(* Sequences, and the callers that are told something.                     *)
(***************************************************************************)
LEMMA RangeAppend ==
  ASSUME NEW S, NEW s \in Seq(S), NEW e \in S
  PROVE  Range(Append(s, e)) = Range(s) \cup {e}
<1>1. /\ DOMAIN s = 1 .. Len(s) /\ Len(s) \in Nat
      /\ DOMAIN Append(s, e) = 1 .. Len(s) + 1
      /\ \A i \in 1 .. Len(s) : Append(s, e)[i] = s[i]
      /\ Append(s, e)[Len(s) + 1] = e
  OBVIOUS
<1>2. 1 .. Len(s) + 1 = (1 .. Len(s)) \cup {Len(s) + 1}
  BY <1>1
<1>3. QED
  BY <1>1, <1>2 DEF Range

LEMMA RangeHeadTail ==
  ASSUME NEW S, NEW s \in Seq(S), s # <<>>
  PROVE  Range(s) = {Head(s)} \cup Range(Tail(s))
<1>1. /\ DOMAIN s = 1 .. Len(s) /\ Len(s) \in Nat \ {0} /\ Head(s) = s[1]
      /\ DOMAIN Tail(s) = 1 .. Len(s) - 1
      /\ \A i \in 1 .. Len(s) - 1 : Tail(s)[i] = s[i + 1]
  OBVIOUS
<1>2. ASSUME NEW i \in 1 .. Len(s), i # 1
      PROVE  i - 1 \in 1 .. Len(s) - 1 /\ Tail(s)[i - 1] = s[i]
  <2>1. i - 1 \in 1 .. Len(s) - 1 /\ (i - 1) + 1 = i
    BY <1>1, <1>2
  <2>2. Tail(s)[i - 1] = s[(i - 1) + 1]
    BY <1>1, <2>1
  <2>3. QED
    BY <2>1, <2>2, Zenon
<1>3. ASSUME NEW i \in 1 .. Len(s) - 1 PROVE i + 1 \in 1 .. Len(s)
  BY <1>1
<1>4. ASSUME NEW x \in Range(s) PROVE x \in {Head(s)} \cup Range(Tail(s))
  <2>1. PICK i \in 1 .. Len(s) : x = s[i]
    BY <1>1 DEF Range
  <2>2. CASE i = 1
    BY <2>1, <2>2, <1>1
  <2>3. CASE i # 1
    BY <2>1, <2>3, <1>1, <1>2 DEF Range
  <2>4. QED
    BY <2>2, <2>3
<1>5. ASSUME NEW x \in {Head(s)} \cup Range(Tail(s)) PROVE x \in Range(s)
  BY <1>1, <1>3 DEF Range
<1>6. QED
  BY <1>4, <1>5

LEMMA NoneNotAsked == "none" \notin Requests /\ "event" \notin Requests /\ Hello \in Requests
  BY ClientDriveAssumption DEF Requests, Hello

LEMMA Told ==
  ASSUME status \in [Requests -> Statuses], NEW qs, NEW what \in Statuses, Tell(qs, what)
  PROVE  /\ status' \in [Requests -> Statuses]
         /\ \A q \in Requests :
              status'[q] = IF q \in qs /\ status[q] = "waiting" THEN what ELSE status[q]
  BY DEF Tell, Waiting

LEMMA VersionFacts ==
  /\ PROTOCOL_VERSION \in Nat \X Nat /\ NoVersion \notin Nat \X Nat
  /\ \A built \in Majors \X Minors : Negotiate(built, PROTOCOL_VERSION) \in Versions
<1>1. PROTOCOL_VERSION \in Nat \X Nat
  BY ClientDriveAssumption DEF PROTOCOL_VERSION
<1>2. NoVersion \notin Nat \X Nat
  BY DEF NoVersion
<1>3. ASSUME NEW built \in Majors \X Minors
      PROVE  Negotiate(built, PROTOCOL_VERSION) \in Versions
  <2>1. built \in Nat \X Nat
    BY ClientDriveAssumption
  <2> HIDE DEF PROTOCOL_VERSION, NoVersion
  <2>2. QED
    BY <1>1, <2>1 DEF Negotiate, Versions
<1>4. QED
  BY <1>1, <1>2, <1>3

LEMMA EventSent == Event \in Sent /\ Carries(Event)
  BY DEF Event, Sent, Carries

-----------------------------------------------------------------------------
LEMMA InitCInv == Init => CInv
<1> SUFFICES ASSUME Init PROVE CInv
  OBVIOUS
<1> USE NoneNotAsked
<1>1. Typed
  <2>1. proxy \in Handlers /\ Len(proxy.out) = 0
    BY DEF Init, Handlers, Versions
  <2>2. queue \in Seq(Requests)
    BY DEF Init
  <2>3. toProxy \in Seq(Asked) /\ toClient \in Seq(Sent) /\ Len(toProxy) = 0 /\ Len(toClient) = 0
    BY DEF Init
  <2>4. DOMAIN pending = {}
    BY DEF Init
  <2>5. status \in [Requests -> Statuses]
    BY DEF Init, Statuses
  <2>6. answer \in [Requests -> Replies \cup {NoAnswer}]
    BY DEF Init
  <2>7. /\ client = "connecting" /\ writing = "none" /\ onWire \in BOOLEAN
        /\ driving \in BOOLEAN /\ nextId = 1 /\ events = 0
    BY DEF Init
  <2>8. Room \in Nat /\ MaxEvents \in Nat
    BY ClientDriveAssumption
  <2>9. QED
    BY <2>1, <2>2, <2>3, <2>4, <2>5, <2>6, <2>7, <2>8 DEF Typed
<1>2. Framed /\ Numbered
  BY <1>1 DEF Init, Framed, Numbered
<1>3. NoneForgotten
  <2>1. Range(queue) = {Hello}
    BY DEF Init, Range
  <2>2. QED
    BY <2>1 DEF Init, NoneForgotten, Waiting
<1>4. AnsweredByOwn
  BY DEF Init, AnsweredByOwn
<1>5. Agreed
  BY DEF Init, Agreed, Carries, NoAnswer
<1>6. QED
  BY <1>1, <1>2, <1>3, <1>4, <1>5 DEF CInv

-----------------------------------------------------------------------------
(***************************************************************************)
(* Callers.                                                                *)
(***************************************************************************)
LEMMA ConnectedCInv ==
  ASSUME CInv, Connected \/ ConnectFails \/ DropClients
  PROVE  CInv'
<1> USE DEF ends, calls, drive, wire
<1>1. /\ UNCHANGED <<calls, drive, wire>>
      /\ client' \in {"connecting", "ready", "dropped"}
  BY DEF Connected, ConnectFails, DropClients
<1>2. Typed'
  BY <1>1 DEF CInv, Typed
<1>3. Framed' /\ Numbered' /\ NoneForgotten' /\ AnsweredByOwn'
  BY <1>1 DEF CInv, Framed, Matches, Numbered, NoneForgotten, Waiting, AnsweredByOwn
<1>4. client' = "ready" => version' # NoVersion /\ version' = proxy.version
  BY NoneNotAsked DEF CInv, Agreed, Carries, Connected, ConnectFails, DropClients, Welcome
<1>5. Agreed'
  BY <1>1, <1>4 DEF CInv, Agreed, Carries
<1>6. QED
  BY <1>2, <1>3, <1>5 DEF CInv

LEMMA RequestCInv == ASSUME CInv, NEW q \in Requests, Request(q) PROVE CInv'
<1> USE DEF ends, calls, drive, wire
<1>1. UNCHANGED <<ends, answer, drive, wire>> /\ status[q] = "new"
  BY DEF Request
<1>2. /\ queue' \in Seq(Requests)
      /\ Range(queue) \subseteq Range(queue') /\ (driving => q \in Range(queue'))
  <2>1. queue \in Seq(Requests)
    BY DEF CInv, Typed
  <2>2. CASE driving
    <3>1. queue' = Append(queue, q)
      BY <2>2 DEF Request
    <3>2. QED
      BY <2>1, <3>1, RangeAppend
  <2>3. CASE ~driving
    BY <2>1, <2>3 DEF Request
  <2>4. QED
    BY <2>2, <2>3
<1>3. /\ status' \in [Requests -> Statuses]
      /\ \A p \in Requests : p # q => status'[p] = status[p]
      /\ status'[q] = IF driving THEN "waiting" ELSE "failed"
  BY DEF CInv, Typed, Request, Statuses
<1>4. Typed'
  BY <1>1, <1>2, <1>3 DEF CInv, Typed
<1>5. Framed' /\ Numbered' /\ Agreed'
  BY <1>1 DEF CInv, Framed, Matches, Numbered, Agreed, Carries
<1>6. NoneForgotten'
  BY <1>1, <1>2, <1>3 DEF CInv, NoneForgotten, Waiting
<1>7. AnsweredByOwn'
  BY <1>1, <1>3 DEF CInv, AnsweredByOwn
<1>8. QED
  BY <1>4, <1>5, <1>6, <1>7 DEF CInv

LEMMA AbandonCInv == ASSUME CInv, NEW q \in Requests, Abandon(q) PROVE CInv'
<1> USE DEF ends, calls, drive, wire
<1>1. /\ UNCHANGED <<version, answer, queue, drive, wire>>
      /\ client' \in {client, "dropped"}
  BY DEF Abandon
<1>2. /\ status' \in [Requests -> Statuses]
      /\ \A p \in Requests : p # q => status'[p] = status[p]
      /\ status'[q] = "abandoned"
  BY DEF CInv, Typed, Abandon, Statuses
<1>3. Typed'
  BY <1>1, <1>2 DEF CInv, Typed
<1>4. Framed' /\ Numbered' /\ Agreed'
  BY <1>1 DEF CInv, Framed, Matches, Numbered, Agreed, Carries
<1>5. NoneForgotten'
  BY <1>1, <1>2 DEF CInv, NoneForgotten, Waiting
<1>6. AnsweredByOwn'
  BY <1>1, <1>2 DEF CInv, AnsweredByOwn
<1>7. QED
  BY <1>3, <1>4, <1>5, <1>6 DEF CInv

-----------------------------------------------------------------------------
(***************************************************************************)
(* drive.                                                                  *)
(***************************************************************************)

(* Its queue without the head. *)
LEMMA QueueTaken ==
  ASSUME CInv, queue # <<>>
  PROVE  /\ Head(queue) \in Requests /\ Tail(queue) \in Seq(Requests)
         /\ Range(queue) = {Head(queue)} \cup Range(Tail(queue))
  BY RangeHeadTail DEF CInv, Typed

LEMMA TakeCInv == ASSUME CInv, Take PROVE CInv'
<1> USE DEF ends, calls, wire
<1>1. /\ UNCHANGED <<ends, status, answer, onWire, pending, driving, wire>>
      /\ driving /\ writing = "none" /\ writing' = Head(queue) /\ queue' = Tail(queue)
      /\ nextId' = nextId + 1 /\ writing' \in Requests /\ writing' # "none"
      /\ nextId \in Nat \ {0} /\ ~onWire
  BY QueueTaken, NoneNotAsked DEF CInv, Typed, Numbered, Take, Selecting
<1>2. Typed'
  <2>1. DOMAIN pending' \subseteq 1 .. nextId' - 1
    BY <1>1 DEF CInv, Typed
  <2>2. queue' \in Seq(Requests)
    BY <1>1, QueueTaken DEF Take
  <2>3. QED
    BY <1>1, <2>1, <2>2 DEF CInv, Typed
<1>3. Numbered'
  BY <1>1 DEF CInv, Typed, Numbered
<1>4. \A id, of : Matches(id, of) => Matches(id, of)'
  BY <1>1 DEF Matches
<1>5. Framed'
  BY <1>1, <1>4 DEF CInv, Framed
<1>6. NoneForgotten'
  <2>1. Range(queue) = {writing'} \cup Range(queue')
    BY <1>1, QueueTaken DEF Take
  <2>2. QED
    BY <1>1, <2>1, NoneNotAsked DEF CInv, NoneForgotten, Waiting
<1>7. AnsweredByOwn' /\ Agreed'
  BY <1>1 DEF CInv, AnsweredByOwn, Agreed, Carries
<1>8. QED
  BY <1>2, <1>3, <1>5, <1>6, <1>7 DEF CInv

LEMMA TakeUnencodableCInv == ASSUME CInv, TakeUnencodable PROVE CInv'
<1> USE DEF ends, calls, wire
<1>1. /\ UNCHANGED <<ends, answer, writing, onWire, pending, driving, wire>>
      /\ driving /\ writing = "none" /\ queue' = Tail(queue) /\ queue # <<>>
      /\ nextId' = nextId + 1 /\ nextId \in Nat \ {0} /\ ~onWire
  BY DEF CInv, Typed, Numbered, TakeUnencodable, Selecting
<1>2. /\ status' \in [Requests -> Statuses]
      /\ \A q \in Requests : status'[q] = IF q = Head(queue) /\ status[q] = "waiting"
                                            THEN "failed" ELSE status[q]
  BY Told DEF CInv, Typed, Statuses, TakeUnencodable
<1>3. Typed'
  <2>1. DOMAIN pending' \subseteq 1 .. nextId' - 1
    BY <1>1 DEF CInv, Typed
  <2>2. queue' \in Seq(Requests)
    BY <1>1, QueueTaken
  <2>3. QED
    BY <1>1, <1>2, <2>1, <2>2 DEF CInv, Typed
<1>4. Numbered'
  BY <1>1 DEF Numbered
<1>5. \A id, of : Matches(id, of) => Matches(id, of)'
  BY <1>1 DEF Matches
<1>6. Framed'
  BY <1>1, <1>5 DEF CInv, Framed
<1>7. NoneForgotten'
  BY <1>1, <1>2, QueueTaken DEF CInv, NoneForgotten, Waiting
<1>8. AnsweredByOwn' /\ Agreed'
  BY <1>1, <1>2 DEF CInv, AnsweredByOwn, Agreed, Carries
<1>9. QED
  BY <1>3, <1>4, <1>6, <1>7, <1>8 DEF CInv

LEMMA TransmitCInv == ASSUME CInv, Transmit PROVE CInv'
<1> USE DEF ends, calls
<1> DEFINE frame == [id |-> nextId - 1, of |-> writing]
<1>1. /\ UNCHANGED <<ends, calls, writing, nextId, pending, driving, proxy, toClient, events>>
      /\ writing # "none" /\ ~onWire /\ onWire' = TRUE
      /\ toProxy' = toProxy \/ (Len(toProxy) < Room /\ toProxy' = Append(toProxy, frame))
  BY DEF Transmit
<1>2. /\ writing \in Requests /\ nextId \in Nat /\ nextId > 1
      /\ nextId - 1 \notin DOMAIN pending /\ toProxy \in Seq(Asked)
      /\ Len(toProxy) \in Nat /\ Len(toProxy) <= Room
  BY <1>1 DEF CInv, Typed, Numbered
<1>3. frame \in Asked /\ frame.id = nextId - 1 /\ frame.of = writing
  BY <1>2 DEF Asked
<1> HIDE DEF frame
<1>4. toProxy' \in Seq(Asked) /\ Len(toProxy') <= Room
  BY <1>1, <1>2, <1>3, ClientDriveAssumption
<1>5. Typed'
  BY <1>1, <1>4 DEF CInv, Typed
<1>6. Numbered'
  BY <1>1 DEF CInv, Numbered
<1>7. \A id, of : Matches(id, of) => Matches(id, of)'
  BY <1>1 DEF Matches
<1>8. Matches(nextId - 1, writing)'
  BY <1>1, <1>2, <1>3 DEF Matches
<1>9. Framed'
  <2>1. \A k \in 1 .. Len(toProxy') : Matches(toProxy[k].id, toProxy[k].of)'
    <3>1. CASE toProxy' = toProxy
      BY <3>1, <1>7 DEF CInv, Framed
    <3>2. CASE toProxy' = Append(toProxy, frame)
      <4> TAKE k \in 1 .. Len(toProxy')
      <4>1. \/ k \in 1 .. Len(toProxy) /\ toProxy'[k] = toProxy[k]
            \/ toProxy'[k] = frame
        BY <3>2, <1>2, <1>3
      <4>2. QED
        BY <4>1, <1>1, <1>3, <1>7, <1>8 DEF CInv, Framed
    <3>3. QED
      BY <3>1, <3>2, <1>1
  <2>2. QED
    BY <1>1, <1>7, <2>1 DEF CInv, Framed
<1>10. NoneForgotten' /\ AnsweredByOwn' /\ Agreed'
  BY <1>1 DEF CInv, NoneForgotten, Waiting, AnsweredByOwn, Agreed, Carries
<1>11. QED
  BY <1>5, <1>6, <1>9, <1>10 DEF CInv

LEMMA WrittenCInv == ASSUME CInv, Written PROVE CInv'
<1> USE DEF ends, calls, wire
<1>1. /\ UNCHANGED <<ends, calls, nextId, driving, wire>>
      /\ onWire /\ writing # "none" /\ writing \in Requests /\ nextId \in Nat /\ nextId > 1
      /\ writing' = "none" /\ onWire' = FALSE
  BY DEF CInv, Typed, Numbered, Written
<1>2. /\ DOMAIN pending' = DOMAIN pending \cup {nextId - 1}
      /\ pending'[nextId - 1] = writing
      /\ \A i \in DOMAIN pending : i # nextId - 1 => pending'[i] = pending[i]
      /\ nextId - 1 \notin DOMAIN pending
  BY <1>1 DEF CInv, Numbered, Written
<1>3. Typed'
  <2>1. DOMAIN pending' \subseteq 1 .. nextId' - 1
    BY <1>1, <1>2 DEF CInv, Typed
  <2>2. \A i \in DOMAIN pending' : pending'[i] \in Requests
    BY <1>1, <1>2 DEF CInv, Typed
  <2>3. QED
    BY <1>1, <2>1, <2>2 DEF CInv, Typed
<1>4. \A id, of : Matches(id, of) => Matches(id, of)'
  BY <1>1, <1>2 DEF Matches
<1>5. Framed' /\ Numbered'
  BY <1>1, <1>4 DEF CInv, Framed, Numbered
<1>6. NoneForgotten'
  <2>1. Range(pending') = Range(pending) \cup {writing}
    BY <1>2 DEF Range
  <2>2. QED
    BY <1>1, <2>1 DEF CInv, NoneForgotten, Waiting
<1>7. AnsweredByOwn' /\ Agreed'
  BY <1>1 DEF CInv, AnsweredByOwn, Agreed, Carries
<1>8. QED
  BY <1>3, <1>5, <1>6, <1>7 DEF CInv

(* The socket without the frame that drive has read. *)
LEMMA FrameRead ==
  ASSUME CInv, toClient # <<>>
  PROVE  /\ Head(toClient) = toClient[1] /\ 1 \in 1 .. Len(toClient)
         /\ Head(toClient) \in Sent
         /\ Tail(toClient) \in Seq(Sent) /\ Len(Tail(toClient)) <= Room
         /\ \A k \in 1 .. Len(Tail(toClient)) :
              \E j \in 1 .. Len(toClient) : Tail(toClient)[k] = toClient[j]
<1>1. toClient \in Seq(Sent) /\ Len(toClient) <= Room /\ Room \in Nat
  BY ClientDriveAssumption DEF CInv, Typed
<1>2. /\ Len(Tail(toClient)) = Len(toClient) - 1 /\ Len(toClient) \in Nat \ {0}
      /\ \A k \in 1 .. Len(toClient) - 1 : Tail(toClient)[k] = toClient[k + 1]
  BY <1>1
<1>3. \A k \in 1 .. Len(toClient) - 1 : k + 1 \in 1 .. Len(toClient)
  BY <1>2
<1>4. QED
  BY <1>1, <1>2, <1>3

LEMMA ReceiveEventCInv == ASSUME CInv, ReceiveEvent PROVE CInv'
<1> USE DEF ends, calls, drive
<1>1. /\ UNCHANGED <<ends, calls, drive, proxy, toProxy, events>>
      /\ toClient' = Tail(toClient) /\ toClient # <<>>
  BY DEF ReceiveEvent
<1>2. Typed'
  BY <1>1, FrameRead DEF CInv, Typed
<1>3. Framed' /\ Numbered'
  BY <1>1, FrameRead DEF CInv, Framed, Matches, Numbered
<1>4. Agreed'
  BY <1>1, FrameRead DEF CInv, Agreed, Carries
<1>5. NoneForgotten' /\ AnsweredByOwn'
  BY <1>1 DEF CInv, NoneForgotten, Waiting, AnsweredByOwn
<1>6. QED
  BY <1>2, <1>3, <1>4, <1>5 DEF CInv

LEMMA ReceiveResponseCInv == ASSUME CInv, ReceiveResponse PROVE CInv'
<1> USE DEF ends
<1> DEFINE frame == Head(toClient)
           id == frame.id
<1>1. /\ UNCHANGED <<ends, queue, writing, onWire, nextId, driving, proxy, toProxy, events>>
      /\ toClient' = Tail(toClient) /\ toClient # <<>> /\ driving /\ writing = "none"
      /\ frame # Event
  BY DEF ReceiveResponse, Selecting
<1>2. frame \in Replies /\ Matches(frame.id, frame.of) /\ Carries(frame)
  BY <1>1, FrameRead DEF CInv, Framed, Agreed, Sent
<1>3. CASE id \notin DOMAIN pending
  <2>1. UNCHANGED <<pending, status, answer>>
    BY <1>3 DEF ReceiveResponse
  <2>2. Typed'
    BY <1>1, <2>1, FrameRead DEF CInv, Typed
  <2>3. Framed' /\ Numbered'
    BY <1>1, <2>1, FrameRead DEF CInv, Framed, Matches, Numbered
  <2>4. Agreed'
    BY <1>1, <2>1, FrameRead DEF CInv, Agreed, Carries
  <2>5. NoneForgotten' /\ AnsweredByOwn'
    BY <1>1, <2>1 DEF CInv, NoneForgotten, Waiting, AnsweredByOwn
  <2>6. QED
    BY <2>2, <2>3, <2>4, <2>5 DEF CInv
<1>4. CASE id \in DOMAIN pending
  <2> DEFINE q == pending[id]
  <2>1. q \in Requests /\ frame.of = q
    BY <1>2, <1>4 DEF CInv, Typed, Matches
  <2>2. /\ DOMAIN pending' = DOMAIN pending \ {id}
        /\ \A i \in DOMAIN pending' : pending'[i] = pending[i]
    BY <1>4 DEF ReceiveResponse, Restrict
  <2>3. /\ status' \in [Requests -> Statuses]
        /\ \A p \in Requests : status'[p] = IF p = q /\ status[p] = "waiting"
                                              THEN "answered" ELSE status[p]
    <3>1. Tell({q}, "answered")
      BY <1>4 DEF ReceiveResponse
    <3>2. QED
      BY <3>1, Told DEF CInv, Typed, Statuses
  <2>4. /\ answer' \in [Requests -> Replies \cup {NoAnswer}]
        /\ \A p \in Requests : answer'[p] = IF p = q /\ status[p] = "waiting"
                                              THEN frame ELSE answer[p]
    BY <1>2, <1>4 DEF CInv, Typed, ReceiveResponse, Waiting
  <2> HIDE DEF frame, id, q
  <2>5. Typed'
    <3>1. /\ DOMAIN pending' \subseteq 1 .. nextId' - 1
          /\ \A i \in DOMAIN pending' : pending'[i] \in Requests
      BY <1>1, <2>2 DEF CInv, Typed
    <3>2. QED
      BY <1>1, <2>3, <2>4, <3>1, FrameRead DEF CInv, Typed
  <2>6. \A i, of : Matches(i, of) => Matches(i, of)'
    BY <1>1, <2>2 DEF Matches
  <2>7. Framed' /\ Numbered'
    BY <1>1, <2>2, <2>6, FrameRead DEF CInv, Framed, Numbered
  <2>8. Agreed'
    BY <1>1, <1>2, <2>4, FrameRead DEF CInv, Agreed, Carries
  <2>9. NoneForgotten'
    <3>1. Range(pending) \subseteq Range(pending') \cup {q}
      BY <2>2 DEF Range, q
    <3>2. QED
      BY <1>1, <2>3, <3>1 DEF CInv, NoneForgotten, Waiting
  <2>10. AnsweredByOwn'
    BY <2>1, <2>3, <2>4 DEF CInv, AnsweredByOwn
  <2>11. QED
    BY <2>5, <2>7, <2>8, <2>9, <2>10 DEF CInv
<1>5. QED
  BY <1>3, <1>4

LEMMA StopsCInv == ASSUME CInv, Stops PROVE CInv'
<1> USE DEF ends
<1>1. /\ UNCHANGED <<ends, answer, nextId, proxy, toProxy, events>>
      /\ driving' = FALSE /\ pending' = <<>> /\ queue' = <<>> /\ writing' = "none"
      /\ onWire' = FALSE /\ toClient' = <<>>
  BY DEF Stops
<1>2. /\ status' \in [Requests -> Statuses]
      /\ \A q \in Requests :
           status'[q] = IF /\ q \in Range(pending) \cup Range(queue) \cup {writing}
                           /\ status[q] = "waiting"
                          THEN "failed" ELSE status[q]
  <2>1. Tell(Range(pending) \cup Range(queue) \cup {writing}, "failed")
    BY DEF Stops
  <2>2. QED
    BY <2>1, Told DEF CInv, Typed, Statuses
<1>3. DOMAIN pending' = {} /\ Len(toClient') = 0
  BY <1>1
<1>4. Typed'
  <2>1. queue' \in Seq(Requests) /\ toClient' \in Seq(Sent) /\ Len(toClient') <= Room
    BY <1>1, ClientDriveAssumption
  <2>2. QED
    BY <1>1, <1>2, <1>3, <2>1 DEF CInv, Typed
<1>5. \A id, of : Matches(id, of) => Matches(id, of)'
  BY <1>1, <1>3 DEF Matches
<1>6. Framed' /\ Numbered'
  BY <1>1, <1>3, <1>5 DEF CInv, Framed, Numbered
<1>7. NoneForgotten'
  BY <1>2 DEF CInv, NoneForgotten, Waiting
<1>8. AnsweredByOwn'
  BY <1>1, <1>2 DEF CInv, AnsweredByOwn
<1>9. Agreed'
  BY <1>1, <1>3 DEF CInv, Agreed, Carries
<1>10. QED
  BY <1>4, <1>6, <1>7, <1>8, <1>9 DEF CInv

-----------------------------------------------------------------------------
(***************************************************************************)
(* The proxy.                                                              *)
(***************************************************************************)

(* The socket without the request that the proxy has read. *)
LEMMA RequestRead ==
  ASSUME CInv, toProxy # <<>>
  PROVE  /\ Head(toProxy) = toProxy[1] /\ 1 \in 1 .. Len(toProxy)
         /\ Head(toProxy) \in Asked
         /\ Tail(toProxy) \in Seq(Asked) /\ Len(Tail(toProxy)) <= Room
         /\ \A k \in 1 .. Len(Tail(toProxy)) :
              \E j \in 1 .. Len(toProxy) : Tail(toProxy)[k] = toProxy[j]
<1>1. toProxy \in Seq(Asked) /\ Len(toProxy) <= Room /\ Room \in Nat
  BY ClientDriveAssumption DEF CInv, Typed
<1>2. /\ Len(Tail(toProxy)) = Len(toProxy) - 1 /\ Len(toProxy) \in Nat \ {0}
      /\ \A k \in 1 .. Len(toProxy) - 1 : Tail(toProxy)[k] = toProxy[k + 1]
  BY <1>1
<1>3. \A k \in 1 .. Len(toProxy) - 1 : k + 1 \in 1 .. Len(toProxy)
  BY <1>2
<1>4. QED
  BY <1>1, <1>2, <1>3

(***************************************************************************)
(* What a step of the proxy that leaves the client alone must show: the    *)
(* frames on their way still match, and carry the version agreed to.       *)
(***************************************************************************)
LEMMA ProxyStep ==
  ASSUME CInv, UNCHANGED <<ends, calls, drive>>,
         proxy' \in Handlers, Len(proxy'.out) <= 1,
         toProxy' \in Seq(Asked), Len(toProxy') <= Room,
         toClient' \in Seq(Sent), Len(toClient') <= Room,
         events' \in 0 .. MaxEvents,
         Framed', Agreed'
  PROVE  CInv'
<1> USE DEF ends, calls, drive
<1>1. Typed'
  BY DEF CInv, Typed
<1>2. Numbered' /\ NoneForgotten' /\ AnsweredByOwn'
  BY DEF CInv, Numbered, NoneForgotten, Waiting, AnsweredByOwn
<1>3. QED
  BY <1>1, <1>2 DEF CInv

LEMMA ProxyGreetsCInv == ASSUME CInv, ProxyGreets PROVE CInv'
<1> DEFINE frame == Head(toProxy)
           agreed == IF frame.of = Hello THEN Negotiate(proxy.built, PROTOCOL_VERSION)
                     ELSE NoVersion
           out == [id |-> frame.id, of |-> frame.of, version |-> agreed]
<1>1. /\ UNCHANGED <<ends, calls, drive, toClient, events>>
      /\ toProxy' = Tail(toProxy) /\ toProxy # <<>>
      /\ proxy' = [proxy EXCEPT !.pc = IF agreed = NoVersion THEN "refusing" ELSE "ready",
                                !.version = agreed, !.out = <<out>>]
      /\ proxy.pc = "hello"
  BY DEF ProxyGreets, Reading
<1>2. frame \in Asked /\ Matches(frame.id, frame.of)
  BY <1>1, RequestRead DEF CInv, Framed
<1>3. agreed \in Versions /\ agreed \in {NoVersion, Negotiate(proxy.built, PROTOCOL_VERSION)}
  BY VersionFacts DEF CInv, Typed, Handlers, Versions
<1> HIDE DEF frame, agreed
<1>4. out \in Sent /\ out.id = frame.id /\ out.of = frame.of /\ out.version = agreed
  BY <1>2, <1>3 DEF Asked, Sent, Replies
<1>5. /\ proxy' \in Handlers /\ proxy'.version = agreed /\ proxy'.out = <<out>>
      /\ proxy'.built = proxy.built /\ proxy'.pc # "hello"
  <2>1. <<out>> \in Seq(Sent)
    BY <1>4
  <2> HIDE DEF out
  <2>2. QED
    BY <1>1, <1>3, <2>1 DEF CInv, Typed, Handlers
<1> HIDE DEF out
<1>6. Len(proxy'.out) = 1 /\ proxy'.out[1] = out
  BY <1>5
<1>7. \A id, of : Matches(id, of) => Matches(id, of)'
  BY <1>1 DEF Matches, drive
<1>8. Framed'
  <2>1. \A k \in 1 .. Len(toProxy') : Matches(toProxy[k].id, toProxy[k].of)'
    BY <1>1, <1>7, RequestRead DEF CInv, Framed
  <2>2. \A k \in 1 .. Len(toClient') :
          toClient'[k] # Event => Matches(toClient[k].id, toClient[k].of)'
    BY <1>1, <1>7 DEF CInv, Framed
  <2>3. \A k \in 1 .. Len(proxy'.out) : Matches(proxy.out[k].id, proxy.out[k].of)'
    <3>1. \A k \in 1 .. Len(proxy'.out) : proxy'.out[k] = out
      BY <1>6
    <3>2. QED
      BY <3>1, <1>2, <1>4, <1>7
  <2>4. QED
    BY <2>1, <2>2, <2>3 DEF Framed, Event
<1>9. Agreed'
  <2>1. proxy.version = NoVersion /\ client # "ready"
    BY <1>1 DEF CInv, Agreed
  <2>2. \A k \in 1 .. Len(proxy'.out) : Carries(proxy.out[k])'
    <3>1. \A k \in 1 .. Len(proxy'.out) : proxy'.out[k] = out
      BY <1>6
    <3>2. QED
      BY <3>1, <1>4, <1>5 DEF Carries
  <2>3. QED
    BY <1>1, <1>3, <1>5, <2>1, <2>2 DEF CInv, Agreed, Carries, ends, calls
<1>10. QED
  BY <1>1, <1>5, <1>6, <1>8, <1>9, RequestRead, ProxyStep DEF CInv, Typed

LEMMA ProxyAnswersCInv == ASSUME CInv, ProxyAnswers PROVE CInv'
<1> DEFINE frame == Head(toProxy)
           out == [id |-> frame.id, of |-> frame.of, version |-> NoVersion]
<1>1. /\ UNCHANGED <<ends, calls, drive, toClient, events>>
      /\ toProxy' = Tail(toProxy) /\ toProxy # <<>>
      /\ proxy' = [proxy EXCEPT !.out = <<out>>]
  BY DEF ProxyAnswers, Reading
<1>2. frame \in Asked /\ Matches(frame.id, frame.of)
  BY <1>1, RequestRead DEF CInv, Framed
<1> HIDE DEF frame
<1>3. out \in Sent /\ out.id = frame.id /\ out.of = frame.of /\ out.version = NoVersion
  BY <1>2 DEF Asked, Sent, Replies, Versions
<1> HIDE DEF out
<1>4. /\ proxy' \in Handlers /\ proxy'.out = <<out>> /\ proxy'.version = proxy.version
      /\ proxy'.built = proxy.built /\ proxy'.pc = proxy.pc
  <2>1. <<out>> \in Seq(Sent)
    BY <1>3
  <2>2. QED
    BY <1>1, <2>1 DEF CInv, Typed, Handlers
<1>5. Len(proxy'.out) = 1 /\ \A k \in 1 .. Len(proxy'.out) : proxy'.out[k] = out
  BY <1>4
<1>6. \A id, of : Matches(id, of) => Matches(id, of)'
  BY <1>1 DEF Matches, drive
<1>7. Framed'
  <2>1. \A k \in 1 .. Len(toProxy') : Matches(toProxy[k].id, toProxy[k].of)'
    BY <1>1, <1>6, RequestRead DEF CInv, Framed
  <2>2. \A k \in 1 .. Len(toClient') :
          toClient'[k] # Event => Matches(toClient[k].id, toClient[k].of)'
    BY <1>1, <1>6 DEF CInv, Framed
  <2>3. \A k \in 1 .. Len(proxy'.out) : Matches(proxy.out[k].id, proxy.out[k].of)'
    BY <1>5, <1>2, <1>3, <1>6
  <2>4. QED
    BY <2>1, <2>2, <2>3 DEF Framed, Event
<1>8. Agreed'
  <2>1. \A k \in 1 .. Len(proxy'.out) : Carries(proxy.out[k])'
    BY <1>3, <1>5 DEF Carries
  <2>2. QED
    BY <1>1, <1>4, <2>1 DEF CInv, Agreed, Carries, ends, calls
<1>9. QED
  BY <1>1, <1>4, <1>5, <1>7, <1>8, RequestRead, ProxyStep DEF CInv, Typed

LEMMA ProxyPushesCInv == ASSUME CInv, ProxyPushes PROVE CInv'
<1>1. /\ UNCHANGED <<ends, calls, drive, toProxy, toClient>>
      /\ proxy' = [proxy EXCEPT !.out = <<Event>>]
  BY DEF ProxyPushes
<1>2. events' \in 0 .. MaxEvents
  BY ClientDriveAssumption DEF CInv, Typed, ProxyPushes
<1>3. /\ proxy' \in Handlers /\ proxy'.out = <<Event>> /\ proxy'.version = proxy.version
      /\ proxy'.built = proxy.built /\ proxy'.pc = proxy.pc
  <2>1. <<Event>> \in Seq(Sent)
    BY EventSent
  <2>2. QED
    BY <1>1, <2>1 DEF CInv, Typed, Handlers
<1>4. Len(proxy'.out) = 1 /\ \A k \in 1 .. Len(proxy'.out) : proxy'.out[k] = Event
  BY <1>3
<1>5. \A id, of : Matches(id, of) => Matches(id, of)'
  BY <1>1 DEF Matches, drive
<1>6. Framed'
  BY <1>1, <1>4, <1>5 DEF CInv, Framed, Event
<1>7. Agreed'
  <2>1. \A k \in 1 .. Len(proxy'.out) : Carries(proxy.out[k])'
    BY <1>4 DEF Carries, Event
  <2>2. QED
    BY <1>1, <1>3, <2>1 DEF CInv, Agreed, Carries, ends, calls
<1>8. QED
  BY <1>1, <1>2, <1>3, <1>4, <1>6, <1>7, ProxyStep DEF CInv, Typed

LEMMA ProxyWritesCInv == ASSUME CInv, ProxyWrites PROVE CInv'
<1>1. /\ UNCHANGED <<ends, calls, drive, events>>
      /\ toClient' = toClient \o proxy.out /\ Len(toClient) < Room
      /\ toProxy' \in {<<>>, toProxy}
  BY DEF ProxyWrites
<1>2. /\ toClient \in Seq(Sent) /\ proxy.out \in Seq(Sent) /\ Len(proxy.out) = 1
      /\ Len(toClient) \in Nat /\ Room \in Nat
  <2>1. /\ toClient \in Seq(Sent) /\ proxy.out \in Seq(Sent) /\ Len(proxy.out) <= 1
        /\ proxy.out # <<>>
    BY DEF CInv, Typed, Handlers, ProxyWrites
  <2>2. Len(proxy.out) \in Nat /\ Len(proxy.out) # 0
    <3>1. \A out \in Seq(Sent) : out # <<>> => Len(out) \in Nat \ {0}
      BY EmptySeq, Zenon
    <3>2. QED
      BY <2>1, <3>1
  <2>3. Len(proxy.out) = 1
    <3>1. \A n \in Nat : n # 0 /\ n <= 1 => n = 1
      OBVIOUS
    <3>2. QED
      BY <2>1, <2>2, <3>1, Zenon
  <2>4. Len(toClient) \in Nat
    BY <2>1
  <2>5. QED
    BY <2>1, <2>3, <2>4, ClientDriveAssumption, Zenon
<1>3. /\ toClient' \in Seq(Sent) /\ Len(toClient') = Len(toClient) + 1
      /\ \A k \in 1 .. Len(toClient) : toClient'[k] = toClient[k]
      /\ toClient'[Len(toClient) + 1] = proxy.out[1]
  <2>1. /\ toClient' \in Seq(Sent) /\ Len(toClient') = Len(toClient) + Len(proxy.out)
        /\ \A k \in 1 .. Len(toClient) + Len(proxy.out) :
             toClient'[k] = IF k <= Len(toClient) THEN toClient[k]
                            ELSE proxy.out[k - Len(toClient)]
    BY <1>1, <1>2, ConcatProperties, Zenon
  <2>2. (Len(toClient) + 1) - Len(toClient) = 1
    BY <1>2
  <2>3. QED
    BY <1>2, <2>1, <2>2
<1>4. ASSUME NEW k \in 1 .. Len(toClient')
      PROVE  \/ k \in 1 .. Len(toClient) /\ toClient'[k] = toClient[k]
             \/ 1 \in 1 .. Len(proxy.out) /\ toClient'[k] = proxy.out[1]
  BY <1>2, <1>3
<1>5. /\ proxy' \in Handlers /\ proxy'.out = <<>> /\ proxy'.version = proxy.version
      /\ proxy'.built = proxy.built /\ (proxy'.pc = "hello" => proxy.pc = "hello")
  <2>1. <<>> \in Seq(Sent)
    OBVIOUS
  <2>2. proxy'.out = <<>>
    BY DEF CInv, Typed, Handlers, ProxyWrites
  <2>3. QED
    BY <2>1, <2>2 DEF CInv, Typed, Handlers, ProxyWrites
<1>6. toProxy' \in Seq(Asked) /\ Len(toProxy') <= Room
  <2>1. toProxy \in Seq(Asked) /\ Len(toProxy) <= Room /\ 0 <= Room
    BY <1>2 DEF CInv, Typed
  <2>2. <<>> \in Seq(Asked) /\ Len(<<>>) = 0
    BY EmptySeq, Zenon
  <2>3. QED
    BY <1>1, <2>1, <2>2, Zenon
<1>7. \A id, of : Matches(id, of) => Matches(id, of)'
  BY <1>1 DEF Matches, drive
<1>8. Framed'
  <2>1. \A k \in 1 .. Len(toProxy') : Matches(toProxy[k].id, toProxy[k].of)'
    BY <1>1, <1>7 DEF CInv, Framed
  <2>2. \A k \in 1 .. Len(toClient') :
          toClient'[k] # Event => Matches(toClient[k].id, toClient[k].of)'
    BY <1>4, <1>7 DEF CInv, Framed
  <2>3. QED
    BY <2>1, <2>2, <1>5 DEF Framed, Event
<1>9. Agreed'
  <2>1. \A k \in 1 .. Len(toClient') : Carries(toClient[k])'
    BY <1>4, <1>5 DEF CInv, Agreed, Carries
  <2>2. QED
    BY <1>1, <1>5, <2>1 DEF CInv, Agreed, Carries, ends, calls
<1>10. QED
  BY <1>1, <1>2, <1>3, <1>5, <1>6, <1>8, <1>9, ProxyStep DEF CInv, Typed

LEMMA ProxyClosesCInv == ASSUME CInv, ProxyCloses PROVE CInv'
<1>1. UNCHANGED <<ends, calls, drive, toClient, events>> /\ toProxy' = <<>>
  BY DEF ProxyCloses
<1>2. /\ proxy' \in Handlers /\ proxy'.out = <<>> /\ proxy'.version = proxy.version
      /\ proxy'.built = proxy.built /\ proxy'.pc = "closed"
  BY EmptySeq DEF CInv, Typed, Handlers, ProxyCloses
<1>3. toProxy' \in Seq(Asked) /\ Len(toProxy') <= Room
  BY <1>1, ClientDriveAssumption
<1>4. \A id, of : Matches(id, of) => Matches(id, of)'
  BY <1>1 DEF Matches, drive
<1>5. Framed'
  BY <1>1, <1>2, <1>4 DEF CInv, Framed, Event
<1>6. Agreed'
  BY <1>1, <1>2 DEF CInv, Agreed, Carries, ends, calls
<1>7. QED
  BY <1>1, <1>2, <1>3, <1>5, <1>6, ProxyStep DEF CInv, Typed

-----------------------------------------------------------------------------
LEMMA NextCInv == ASSUME CInv, [Next]_vars PROVE CInv'
<1>1. CASE Connected \/ ConnectFails \/ DropClients
  BY <1>1, ConnectedCInv
<1>2. CASE \E q \in Requests : Request(q) \/ Abandon(q)
  BY <1>2, RequestCInv, AbandonCInv
<1>3. CASE Drive
  BY <1>3, TakeCInv, TakeUnencodableCInv, TransmitCInv, WrittenCInv, ReceiveResponseCInv,
     ReceiveEventCInv, StopsCInv DEF Drive, ReceiveEnd, ClientsGone
<1>4. CASE ReceiveFails \/ WriteFails
  BY <1>4, StopsCInv DEF ReceiveFails, WriteFails
<1>5. CASE Proxy
  BY <1>5, ProxyGreetsCInv, ProxyAnswersCInv, ProxyWritesCInv DEF Proxy
<1>6. CASE ProxyPushes \/ ProxyCloses
  BY <1>6, ProxyPushesCInv, ProxyClosesCInv
<1>7. CASE UNCHANGED vars
  BY <1>7 DEF vars, ends, calls, drive, wire, CInv, Typed, Framed, Matches, Numbered,
     NoneForgotten, Waiting, AnsweredByOwn, Agreed, Carries
<1>8. QED
  BY <1>1, <1>2, <1>3, <1>4, <1>5, <1>6, <1>7 DEF Next

LEMMA CInvTyped == CInv => TypeOK
<1> SUFFICES ASSUME CInv PROVE TypeOK
  OBVIOUS
<1>1. Range(queue) \subseteq Requests
  BY DEF CInv, Typed, Range
<1>2. \A i \in DOMAIN pending : i < nextId /\ pending[i] \in Requests
  BY DEF CInv, Typed
<1>3. \A q \in Requests : answer[q].of \in Requests \cup {"none"}
  BY DEF CInv, Typed, Replies, NoAnswer
<1>4. QED
  BY <1>1, <1>2, <1>3 DEF CInv, Typed, Handlers, TypeOK

LEMMA CInvSpeakSame == CInv => SpeakSame
<1> SUFFICES ASSUME CInv, client = "ready" PROVE SpeakSame
  BY DEF SpeakSame
<1>1. /\ version = proxy.version /\ version # NoVersion
      /\ version = Negotiate(proxy.built, PROTOCOL_VERSION)
  BY DEF CInv, Agreed
<1>2. proxy.built \in Nat \X Nat /\ PROTOCOL_VERSION \in Nat \X Nat
  BY VersionFacts, ClientDriveAssumption DEF CInv, Typed, Handlers
<1> HIDE DEF PROTOCOL_VERSION
<1>3. \A built \in {PROTOCOL_VERSION, proxy.built} :
        version[1] = built[1] /\ version[2] <= built[2]
  BY <1>1, <1>2 DEF Negotiate
<1>4. QED
  BY <1>1, <1>3 DEF SpeakSame

(* Every state of a client and its proxy is typed: no number is used before *)
(* its turn, and neither direction of the socket holds more than it can.    *)
THEOREM ClientDriveTyped == Spec => []TypeOK
<1>1. Init => CInv
  BY InitCInv
<1>2. CInv /\ [Next]_vars => CInv'
  BY NextCInv
<1>3. QED
  BY <1>1, <1>2, CInvTyped, PTL DEF Spec

(* A caller that waits is in drive's queue, being written, or pending, and  *)
(* drive has not returned: whichever way its loop is left, and whatever was *)
(* queued or half written at that moment, nobody waits for ever on a client *)
(* whose task is gone.                                                      *)
THEOREM NobodyForgotten == Spec => []NoneForgotten
<1>1. Init => CInv
  BY InitCInv
<1>2. CInv /\ [Next]_vars => CInv'
  BY NextCInv
<1>3. CInv => NoneForgotten
  BY DEF CInv
<1>4. QED
  BY <1>1, <1>2, <1>3, PTL DEF Spec

(* The answer that a caller is given is that to its own request, though     *)
(* numbers are spent on requests that could not be encoded, and answers     *)
(* come in for requests that were abandoned.                                *)
THEOREM EachItsOwnAnswer == Spec => []AnsweredByOwn
<1>1. Init => CInv
  BY InitCInv
<1>2. CInv /\ [Next]_vars => CInv'
  BY NextCInv
<1>3. CInv => AnsweredByOwn
  BY DEF CInv
<1>4. QED
  BY <1>1, <1>2, <1>3, PTL DEF Spec

(* A client that got through connect and its proxy speak one version, no    *)
(* newer than what either was built with, for any two builds.               *)
THEOREM OneVersion == Spec => []SpeakSame
<1>1. Init => CInv
  BY InitCInv
<1>2. CInv /\ [Next]_vars => CInv'
  BY NextCInv
<1>3. QED
  BY <1>1, <1>2, CInvSpeakSame, PTL DEF Spec
=============================================================================
