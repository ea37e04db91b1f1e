---------------------------- MODULE ClientDrive ----------------------------
(***************************************************************************)
(* A client and the proxy on one connection.  The client library,          *)
(* crates/client/src/lib.rs: callers put requests into a queue and wait;   *)
(* one task, `drive`, numbers and writes them, matches the answers by      *)
(* number, and tells everyone who waits when the connection ends.          *)
(* Client::connect is the first caller, with a Hello.  The proxy is        *)
(* handle_connection of crates/proxy/src/lib.rs seen from the wire: the    *)
(* hello, then one request after the other, each answered under its        *)
(* number, with events in between.                                         *)
(*                                                                         *)
(* Each direction of the socket holds Room frames, and neither end reads   *)
(* while it writes.  The number is a u64 that wraps past zero; the model   *)
(* stops far short of that.  Events go to the client's broadcast channel,  *)
(* which is module Broadcast.                                              *)
(***************************************************************************)
EXTENDS Naturals, Sequences, Functions

CONSTANTS Req,             \* requests the callers may make, each of them once
          Major, Minor,    \* PROTOCOL_VERSION as the client was built with it
          Majors, Minors,  \* what the proxy may have been built with
          MaxEvents,       \* bound: events the proxy pushes
          Room             \* bound: frames that each direction of the socket holds

ASSUME ClientDriveAssumption ==
  /\ Req \cap {"hello", "event", "none"} = {}
  /\ MaxEvents \in Nat /\ Room \in Nat \ {0}
  /\ Major \in Nat /\ Minor \in Nat /\ Majors \subseteq Nat /\ Minors \subseteq Nat

VARIABLES
  client,     \* "connecting", "ready", or "dropped" with all its clones
  version,    \* client.version, once connected
  status,     \* of each request: what its caller knows
  answer,     \* the response that its caller was given
  queue,      \* the mpsc queue of PendingRequests
  writing,    \* the request that drive is writing, or "none"
  onWire,     \* its frame is in the socket, and the write may return
  nextId,     \* next_request_id
  pending,    \* the map from request ids to waiters
  driving,    \* drive has not returned
  proxy,      \* handle_connection: [pc, built, version, out]
  toProxy,    \* frames in the socket: [id, of]
  toClient,   \* [id, of, version]
  events      \* events the proxy has pushed

ends  == <<client, version>>
calls == <<status, answer, queue>>
drive == <<writing, onWire, nextId, pending, driving>>
wire  == <<proxy, toProxy, toClient, events>>
vars  == <<ends, calls, drive, wire>>

Hello    == "hello"
Requests == Req \cup {Hello}
Statuses == {"new", "waiting", "answered", "failed", "abandoned"}

PROTOCOL_VERSION == <<Major, Minor>>
NoVersion == <<>>       \* None, and what a response that is not a Hello carries
NoAnswer  == [id |-> 0, of |-> "none", version |-> NoVersion]
Event     == [id |-> 0, of |-> "event", version |-> NoVersion]

(* Mutated form: the newer side does not step back. *)
NegotiateOwn(self, peer) == IF self[1] # peer[1] THEN NoVersion ELSE self

Negotiate(self, peer) ==
  IF self[1] # peer[1] THEN NoVersion
  ELSE <<self[1], IF self[2] < peer[2] THEN self[2] ELSE peer[2]>>

Waiting(qs) == {q \in Requests : q \in qs /\ status[q] = "waiting"}
Tell(qs, what) ==
  status' = [q \in Requests |-> IF q \in Waiting(qs) THEN what ELSE status[q]]

(* connect has spawned drive and put its Hello into the queue. *)
Init ==
  /\ client = "connecting" /\ version = PROTOCOL_VERSION
  /\ status = [q \in Requests |-> IF q = Hello THEN "waiting" ELSE "new"]
  /\ answer = [q \in Requests |-> NoAnswer]
  /\ queue = <<Hello>>
  /\ writing = "none" /\ onWire = FALSE /\ nextId = 1 /\ pending = <<>> /\ driving = TRUE
  /\ \E built \in Majors \X Minors :
       proxy = [pc |-> "hello", built |-> built, version |-> NoVersion, out |-> <<>>]
  /\ toProxy = <<>> /\ toClient = <<>> /\ events = 0

-----------------------------------------------------------------------------
(***************************************************************************)
(* Callers: connect with the answer to its Hello, request, and a request   *)
(* whose future is dropped.                                                *)
(***************************************************************************)
Welcome(a) == a.version # NoVersion /\ a.version[1] = PROTOCOL_VERSION[1]

Connected ==
  /\ client = "connecting" /\ status[Hello] = "answered" /\ Welcome(answer[Hello])
  /\ client' = "ready" /\ version' = answer[Hello].version
  /\ UNCHANGED <<calls, drive, wire>>

(* The request failed, or the proxy refused; the Client goes. *)
ConnectFails ==
  /\ client = "connecting"
  /\ \/ status[Hello] = "failed"
     \/ status[Hello] = "answered" /\ ~Welcome(answer[Hello])
  /\ client' = "dropped"
  /\ UNCHANGED <<version, calls, drive, wire>>

(* Mutated form: the queue outlives its consumer. *)
RequestUnchecked(q) ==
  /\ client = "ready" /\ status[q] = "new"
  /\ status' = [status EXCEPT ![q] = "waiting"] /\ queue' = Append(queue, q)
  /\ UNCHANGED <<ends, answer, drive, wire>>

Request(q) ==
  /\ client = "ready" /\ status[q] = "new"
  /\ IF driving
       THEN status' = [status EXCEPT ![q] = "waiting"] /\ queue' = Append(queue, q)
       ELSE status' = [status EXCEPT ![q] = "failed"] /\ UNCHANGED queue
  /\ UNCHANGED <<ends, answer, drive, wire>>

(* With the future of connect goes its Client. *)
Abandon(q) ==
  /\ status[q] = "waiting"
  /\ status' = [status EXCEPT ![q] = "abandoned"]
  /\ client' = IF q = Hello THEN "dropped" ELSE client
  /\ UNCHANGED <<version, answer, queue, drive, wire>>

(* The last clone is dropped; whoever waits holds one. *)
DropClients ==
  /\ client = "ready" /\ Waiting(Req) = {}
  /\ client' = "dropped"
  /\ UNCHANGED <<version, calls, drive, wire>>

-----------------------------------------------------------------------------
(***************************************************************************)
(* drive.  While it writes a request it takes neither another nor a frame. *)
(***************************************************************************)
Selecting == driving /\ writing = "none"

(* Mutated form: the number is not advanced. *)
TakeSameId ==
  /\ Selecting /\ queue # <<>>
  /\ writing' = Head(queue) /\ queue' = Tail(queue)
  /\ nextId' = 2
  /\ UNCHANGED <<ends, status, answer, onWire, pending, driving, wire>>

(* The request is numbered, and its write begins. *)
Take ==
  /\ Selecting /\ queue # <<>>
  /\ writing' = Head(queue) /\ queue' = Tail(queue)
  /\ nextId' = nextId + 1
  /\ UNCHANGED <<ends, status, answer, onWire, pending, driving, wire>>

(* It cannot be encoded: its caller is told, and its number is spent.  A    *)
(* Hello always can.                                                        *)
TakeUnencodable ==
  /\ Selecting /\ queue # <<>> /\ Head(queue) # Hello
  /\ Tell({Head(queue)}, "failed") /\ queue' = Tail(queue)
  /\ nextId' = nextId + 1
  /\ UNCHANGED <<ends, answer, writing, onWire, pending, driving, wire>>

(* The frame gets into the socket, when there is room: the proxy may read   *)
(* and answer it before the write returns.                                  *)
Transmit ==
  /\ driving /\ writing # "none" /\ ~onWire
  /\ Len(toProxy) < Room \/ proxy.pc = "closed"
  /\ onWire' = TRUE
  /\ toProxy' = IF proxy.pc = "closed" THEN toProxy
                ELSE Append(toProxy, [id |-> nextId - 1, of |-> writing])
  /\ UNCHANGED <<ends, calls, writing, nextId, pending, driving, proxy, toClient, events>>

(* Mutated form: the waiter is kept under the next number. *)
WrittenUnderNext ==
  /\ driving /\ onWire
  /\ pending' = [i \in DOMAIN pending \cup {nextId} |->
                   IF i = nextId THEN writing ELSE pending[i]]
  /\ writing' = "none" /\ onWire' = FALSE
  /\ UNCHANGED <<ends, calls, nextId, driving, wire>>

(* The write returns, and the waiter is kept under its number. *)
Written ==
  /\ driving /\ onWire
  /\ pending' = [i \in DOMAIN pending \cup {nextId - 1} |->
                   IF i = nextId - 1 THEN writing ELSE pending[i]]
  /\ writing' = "none" /\ onWire' = FALSE
  /\ UNCHANGED <<ends, calls, nextId, driving, wire>>

(* A response goes to its waiter, if there is one; an event to the          *)
(* broadcast channel.                                                       *)
ReceiveResponse ==
  /\ Selecting /\ toClient # <<>> /\ Head(toClient) # Event
  /\ LET id == Head(toClient).id
     IN  IF id \in DOMAIN pending
           THEN /\ pending' = Restrict(pending, DOMAIN pending \ {id})
                /\ Tell({pending[id]}, "answered")
                /\ answer' = [q \in Requests |-> IF q \in Waiting({pending[id]})
                                                   THEN Head(toClient) ELSE answer[q]]
           ELSE UNCHANGED <<pending, status, answer>>
  /\ toClient' = Tail(toClient)
  /\ UNCHANGED <<ends, queue, writing, onWire, nextId, driving, proxy, toProxy, events>>

ReceiveEvent ==
  /\ Selecting /\ toClient # <<>> /\ Head(toClient) = Event
  /\ toClient' = Tail(toClient)
  /\ UNCHANGED <<ends, calls, drive, proxy, toProxy, events>>

(***************************************************************************)
(* drive returns, and its end of the socket goes.  Whoever is pending is   *)
(* told; what is still in the queue, or was being written, is told or      *)
(* dropped with its sender, which its caller sees as Closed.               *)
(***************************************************************************)
Stops ==
  /\ driving' = FALSE
  /\ Tell(Range(pending) \cup Range(queue) \cup {writing}, "failed")
  /\ pending' = <<>> /\ queue' = <<>> /\ writing' = "none" /\ onWire' = FALSE
  /\ toClient' = <<>>
  /\ UNCHANGED <<ends, answer, nextId, proxy, toProxy, events>>

(* The connection ends, a frame cannot be read or decoded, or a write       *)
(* fails.                                                                   *)
ReceiveEnd   == Selecting /\ toClient = <<>> /\ proxy.pc = "closed" /\ Stops
ReceiveFails == Selecting /\ Stops
WriteFails   == driving /\ writing # "none" /\ Stops

(* Mutated form: drive goes on until the connection ends. *)
ClientsGoneUnseen ==
  /\ Selecting /\ queue = <<>> /\ client = "dropped" /\ proxy.pc = "closed"
  /\ Stops

(* Every Client is gone, and the queue is drained. *)
ClientsGone ==
  /\ Selecting /\ queue = <<>> /\ client = "dropped"
  /\ Stops

-----------------------------------------------------------------------------
(***************************************************************************)
(* The proxy.  It reads the next frame once it has written the last.       *)
(***************************************************************************)
Reading == proxy.pc \in {"hello", "ready"} /\ proxy.out = <<>> /\ toProxy # <<>>

(* The first frame must be a Hello of a compatible version; otherwise the   *)
(* answer is an error, and the handler returns.                             *)
ProxyGreets ==
  /\ Reading /\ proxy.pc = "hello"
  /\ LET frame  == Head(toProxy)
         agreed == IF frame.of = Hello THEN Negotiate(proxy.built, PROTOCOL_VERSION)
                   ELSE NoVersion
     IN  proxy' = [proxy EXCEPT !.pc = IF agreed = NoVersion THEN "refusing" ELSE "ready",
                                !.version = agreed,
                                !.out = <<[id |-> frame.id, of |-> frame.of,
                                           version |-> agreed]>>]
  /\ toProxy' = Tail(toProxy)
  /\ UNCHANGED <<ends, calls, drive, toClient, events>>

ProxyAnswers ==
  /\ Reading /\ proxy.pc = "ready"
  /\ proxy' = [proxy EXCEPT !.out = <<[id |-> Head(toProxy).id, of |-> Head(toProxy).of,
                                       version |-> NoVersion]>>]
  /\ toProxy' = Tail(toProxy)
  /\ UNCHANGED <<ends, calls, drive, toClient, events>>

ProxyPushes ==
  /\ proxy.pc = "ready" /\ proxy.out = <<>> /\ events < MaxEvents
  /\ proxy' = [proxy EXCEPT !.out = <<Event>>]
  /\ events' = events + 1
  /\ UNCHANGED <<ends, calls, drive, toProxy, toClient>>

(* A frame gets into the socket; after a refusal the handler returns. *)
ProxyWrites ==
  /\ proxy.out # <<>> /\ Len(toClient) < Room /\ driving
  /\ toClient' = toClient \o proxy.out
  /\ proxy' = [proxy EXCEPT !.out = <<>>,
                            !.pc = IF @ = "refusing" THEN "closed" ELSE @]
  /\ toProxy' = IF proxy.pc = "refusing" THEN <<>> ELSE toProxy
  /\ UNCHANGED <<ends, calls, drive, events>>

ProxyCloses ==
  /\ proxy.pc # "closed"
  /\ proxy' = [proxy EXCEPT !.pc = "closed", !.out = <<>>]
  /\ toProxy' = <<>>
  /\ UNCHANGED <<ends, calls, drive, toClient, events>>

-----------------------------------------------------------------------------
Drive ==
  \/ Take \/ TakeUnencodable \/ Transmit \/ Written
  \/ ReceiveResponse \/ ReceiveEvent \/ ReceiveEnd \/ ClientsGone

Proxy == ProxyGreets \/ ProxyAnswers \/ ProxyWrites

Next ==
  \/ Connected \/ ConnectFails \/ DropClients
  \/ \E q \in Requests : Request(q) \/ Abandon(q)
  \/ Drive \/ ReceiveFails \/ WriteFails
  \/ Proxy \/ ProxyPushes \/ ProxyCloses

Spec == Init /\ [][Next]_vars

(* The pool polls drive, connect and the proxy's handler whenever they can  *)
(* go on.  Nobody has to make a request, drop a Client, push an event or    *)
(* close.                                                                   *)
FairSpec ==
  /\ Spec
  /\ WF_vars(Drive) /\ WF_vars(Proxy) /\ WF_vars(Connected \/ ConnectFails)

-----------------------------------------------------------------------------
(***************************************************************************)
(* Properties.                                                             *)
(***************************************************************************)

(* Every variable has its type, and no number is used before its turn. *)
TypeOK ==
  /\ client \in {"connecting", "ready", "dropped"}
  /\ status \in [Requests -> Statuses]
  /\ \A q \in Requests : answer[q].of \in Requests \cup {"none"}
  /\ Range(queue) \subseteq Requests
  /\ writing \in Requests \cup {"none"} /\ onWire \in BOOLEAN
  /\ nextId \in Nat
  /\ \A i \in DOMAIN pending : i < nextId /\ pending[i] \in Requests
  /\ driving \in BOOLEAN
  /\ proxy.pc \in {"hello", "ready", "refusing", "closed"}
  /\ Len(toProxy) <= Room /\ Len(toClient) <= Room /\ events \in 0 .. MaxEvents

(* A caller that waits is one drive still knows of: in its queue, being     *)
(* written, or pending.  So nobody waits once drive has returned, however   *)
(* the connection ended and whatever was queued meanwhile.                  *)
NoneForgotten ==
  \A q \in Waiting(Requests) :
    driving /\ q \in Range(queue) \cup {writing} \cup Range(pending)

(* No caller is given the answer to another's request, though answers come  *)
(* for requests that were abandoned or could not be encoded in between.     *)
AnsweredByOwn == \A q \in Requests : status[q] = "answered" => answer[q].of = q

(* A client that got through connect speaks the version that the proxy      *)
(* speaks with it, which is no newer than what either was built with.       *)
SpeakSame ==
  client = "ready" =>
    /\ version = proxy.version
    /\ \A built \in {PROTOCOL_VERSION, proxy.built} :
         version[1] = built[1] /\ version[2] <= built[2]

(* drive is stuck in the write of a request and the proxy in the write of   *)
(* an answer or an event, and each would have to read what the other has    *)
(* sent.  Nothing in the code prevents it; only a failure of the connection *)
(* ends it.                                                                 *)
Jammed ==
  /\ driving /\ writing # "none" /\ ~onWire /\ Len(toProxy) = Room
  /\ proxy.out # <<>> /\ Len(toClient) = Room

(* Every request ends, that of connect too, with its answer or an error:    *)
(* only two full sockets can keep a caller waiting.                         *)
EveryRequestEnds ==
  \A q \in Requests : status[q] = "waiting" ~> status[q] # "waiting" \/ Jammed

(* "the task ends when every `Client` clone is gone and the request channel *)
(* closes, or when the proxy does", whatever it was at, and whether connect *)
(* succeeded, failed or was given up.                                       *)
DriveReturns == client = "dropped" \/ proxy.pc = "closed" ~> ~driving \/ Jammed
=============================================================================
