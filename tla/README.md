# AgencyProxy in TLA+

AgencyProxy is a daemon that owns provider runs (agent processes) on behalf of
clients that come and go. A client starts a run, leaves, comes back, asks for
the events it has missed, and cancels or acknowledges; the daemon drains its
runs before it stops. This directory models the parts of it that keep state,
checks them with TLC on small instances, and proves the most important results
with TLAPS for every instance.

Paths below are relative to the repository; `runtime.rs`, `lib.rs`, `web.rs`,
`broadcast.rs` and `flag.rs` without a directory are those of
`crates/proxy/src`.

## 1. The system

| Part | State | Operations | Talks to |
|---|---|---|---|
| Run registry (`runtime.rs`) | a map of `LiveRun`s under a read-write lock, an atomic activity counter, one provider task per run | start, cancel, cancel_all, acknowledge, attach, inject, decide, list | the provider through `agent_abstraction`; every server; each run's broadcast channel |
| Broadcast channel (`broadcast.rs`, and the same file in the client) | ring buffer, head, number of receivers, wake-up generation | send, subscribe, recv, drop | registry to forwarders |
| Set-once flag (`flag.rs`) | a boolean and a wake-up generation | set, wait | run completed, daemon shutdown |
| Unix-socket server (`lib.rs`) | the `Lifecycle { stopping }` lock, the shutdown flag, per connection an outbound queue and the table of its attachments | hello, the client messages, drain task, accept loop | registry, clients |
| WebSocket/MCP server (`web.rs`) | the table of run subscriptions with their generations | eleven MCP tools, the disconnect hook, the drain at the end | registry, endpoint-libs |
| Client library (`crates/client/src/lib.rs`) | a queue of requests, numbered pending requests, an event channel | connect, request, subscribe, the `drive` task | the Unix-socket server |
| Wire protocol (`crates/protocol`) | none | types, version negotiation | both ends |
| Socket path (`lib.rs`) | the socket file | prepare, bind, remove on drop | a second daemon |
| Process entry point (`main.rs`) | a oneshot for the first signal | choose one transport, forward signals, exit after the drain | servers |
| Configuration (`config.rs`) | none | parse, validate | entry point |

`main.rs` starts either the Unix-socket server or the WebSocket server, never
both over one registry.

What is hard in it:

- **Two locks, an atomic and tasks between them.** A start looks at the map
  under the read lock, launches a provider without a lock, and looks again
  under the write lock; the counter is read without any lock; a handler holds
  the lifecycle lock while it writes to its client.
- **Cancellation races everything.** A cancel, a shutdown and the natural end
  of a run come in any order; a cancel is answered only when the run is over.
- **Events are delivered twice over**, from the journal and from the channel,
  and both drop old events; the receiver can lag behind one or both.
- **Every write can fail**, and `?` then leaves the handler in the middle of
  what it was doing.
- **Tasks are aborted at their next suspension point**, on another thread,
  while their owner has already replaced them.
- **Every wait is a snapshot, a look and a wait** (`Notify` in the channel, the
  flag and the activity counter), and what it waits for may happen in between.
- **Both ends of a socket write without reading.**
- **A daemon may be killed**, and leaves its socket behind for the next.

What makes each part correct: the registry counts and ends each run exactly
once, and its journal never has a hole that it does not report; the server
admits nothing once it is stopping, stops only when idle, and does stop; an
attachment gets its events in order, once, without a gap; the subscription
table names the live forwarders and no other; a client's request always ends,
with its own answer, in a version both ends speak; a receiver of the channel is
told exactly what it missed, and is woken; the process outlives the runs it has
acknowledged; a daemon that serves can be reached, unless another start takes
its place.

## 2. The modules

| Module | Models | Actions and state |
|---|---|---|
| `LiveRun` | `struct LiveRun`, `push_journal`, the effect of `publish`, `acknowledge` and `attach` on one run | operators only |
| `RunLifecycle` | abstract: what the registry promises of a run | phases absent, inserted, live, settling, settled; the counter; cancellations taken |
| `RunRegistry` | `RuntimeRegistry`, its callers and the provider tasks | one action per stretch between two awaits or lock operations |
| `Admission` | `ProxyServer::serve` and the handlers that take the lifecycle lock; the drain task | built on `RunLifecycle` (it EXTENDS it and conjoins its actions) |
| `Channel` | the broadcast channel's `State` | operators only |
| `Delivery` | attach, replay, forwarders and connections of the Unix socket | built on `LiveRun` and `Channel` |
| `WebSubscriptions` | `RunSubscriptions`, `MethodSubscribeRun`, `MethodUnsubscribeRun`, the disconnect hook | forwarders named by generation |
| `ClientDrive` | `connect` with its hello, the client library's callers and its `drive` task, and `handle_connection` seen from the wire | the queue, the pending map, the negotiated version, the two directions of a bounded socket |
| `Broadcast` | senders and receivers of the channel as threads, with its `Notify` | built on `Channel`: what is under the lock is one step, the notification another |
| `WebServe` | `main`, `termination`, `serve_websocket`, `StartRun`, `CancelRun`, `wait_until_idle`, `Flag` | built on `RunLifecycle`; store, notification, snapshot and look are steps |
| `SocketPath` | `prepare_socket_path`, `bind_with_registry`, `Drop`, crashes | what is at the path, and where each daemon's start is |

Each run checks one of these modules directly; no definition is overridden for
TLC. `LiveRunProofs`, `RunRegistryProofs`, `LifecycleProofs` (what is built on
`RunLifecycle`: `Admission` and `WebServe`), `DeliveryProofs`,
`WebSubscriptionsProofs`, `ClientDriveProofs`, `BroadcastProofs` and
`SocketPathProofs` hold the proofs. A definition whose
comment begins with "Mutated form" is not part of any specification: it is a
plausible bug, kept beside the definition it corrupts, to show that a property
would catch it.

`crates/proxy/src/broadcast.rs` and `crates/client/src/broadcast.rs` are the
same code. `Channel`, what happens under the lock, is mapped to the proxy's
copy, and the threads of `Broadcast` to the client's.

How a step is cut. In all modules a step ends where the code awaits or gives up
a lock. In `RunRegistry` two stretches under the map's lock are cut once more,
because they touch state that is read without it: a start inserts the run and
then counts it (`StartInsert`, `StartCount`), and the publication of a terminal
event sets the completed flag and then discounts the run (`Publish`, `Settle`).
`RunsUnlocked` keeps everyone else out meanwhile. `WebServe` cuts the same two
stretches at each `notify_waiters` as well, since its waiters look at the flag
and the counter without the lock. In `Admission` the lifecycle
lock is a variable, held from the gate to the end of the write. A forwarder in
`Delivery` or `WebSubscriptions` runs from one suspension point to the next in
several steps, and an abort takes effect when it is next polled. In `SocketPath`
each system call is a step. A `Notify` is the number of times it has woken its
waiters: `notified()` remembers it, and the wait is over when it differs.

What is abstracted. An event is its sequence number, and for the registry the
run state that its publication sets. A request is the kind of state it changes.
The provider (`agent_abstraction`) sends events, closes its stream or not, and
ends when cancelled. Toolbox, connection loss and `Abortable` of the libraries
under the WebSocket server are modelled from how `web.rs` uses them; a request
that is under way when the listener stops may be cut off anywhere. A value of
the channel is its place among those accepted. A protocol version is its major
and minor number.

## 3. The runs

| Run | Instance | Shows |
|---|---|---|
| `registry` | 2 callers, 2 runs, 2 events per run, a journal of 1 | journals exact, counter exact, a cancel answered only after the end, one accepted start per id, nothing after the terminal event; a cancellation that was sent ends the run and answers its caller; refinement of `RunLifecycle`, fairness included |
| `registry_encode` | 1 caller, 1 run, encoding may fail | **violation**: finding 1 |
| `admission` | 3 connections, 2 runs | the gate closes with `stopping`; shutdown finds every run settled; a terminating shutdown that was acknowledged ends the daemon, even if clients never read and keep the lifecycle lock |
| `admission_ack_lost` | 1 connection, 1 run | **violation**: finding 2 |
| `delivery` | 1 connection, 2 attachments, 3 events, channel of 1, journal of 2 | events in order, none twice, none lost, all of them in the end; a forwarder ends by itself only when its replay has expired; what several attachments write on one connection passes over no event (`Gapless`); a forwarder left behind by a handler that failed ends with the next event (`LetsGo`) |
| `delivery_replay` | 1 connection, 1 attachment, 3 events | **violation**: finding 3 |
| `web_subscriptions` | 2 connections, 2 runs, 2 subscriptions | no stale entry, no orphaned forwarder; a lost connection leaves no forwarder, even if no event ever comes |
| `web_subscriptions_order` | 1 connection, 1 run, 1 subscription | **violation**: finding 4 |
| `client_drive` | a hello and 3 requests, 1 pushed event, sockets of 1 frame, proxies of 6 versions | nobody waits on a `drive` that has returned, nobody gets another's answer, both ends speak one version; every request ends and `drive` returns, unless both ends are stuck in a write |
| `broadcast` | 2 senders, 2 receivers, 4 values, channel of 2 | values and lags account for every value, the close comes last, no wake-up is lost |
| `web_serve` | 2 runs, each started and cancelled | the process outlives every run whose start was answered, does exit, and answers a cancel |
| `socket_path` | 3 daemons | whoever serves is reachable unless starts overlapped or a connect failed at a listener; somebody who serves is reachable even then; a daemon started alone over what a crash has left comes to serve |

Bounds. `MaxSequence` bounds the events of a run, `MaxReplay` is
`MAX_REPLAY_EVENTS` (2048 in the code), `Capacity` the channel's (256),
`MaxGeneration` the subscriptions, `MaxEvents` the events of one forwarder or
of the proxy, `MaxSends` the values sent, `Room` the frames a direction of the
socket holds. They are chosen so that the interesting case happens:

- a journal shorter than the events, so that it overflows and is acknowledged
  from the same end;
- a channel of one, so that a receiver lags after two events while the journal
  still holds them, and after three lags behind the journal as well; an attach
  with any cursor below the last event;
- two attachments one after the other on one connection, so that the queued
  events of the first meet the replay of the second (`delivery` has one
  connection: connections share only the run, and with it nothing that one
  could do to another's attachments);
- two callers, so that two starts of one id or two cancels of one run meet,
  with a shutdown cancelling all of them; three connections, so that a start, a
  cancel and a shutdown race, or two shutdowns and a start;
- two subscriptions over two connections and two runs, so that a key's
  forwarder is replaced or a connection is lost with two;
- a room of one frame, so that two queued requests and one event are enough for
  both ends to block; proxies of the client's major with an older, the same and
  a newer minor, and of another major;
- four values in a channel of two, so that a receiver can lag twice;
- three daemons, so that one serves while two start.

The safety results that matter most do not rest on the bounds, since they are
proved (section 5).

Deadlock is checked in the registry's run (a caller can always acknowledge or
cancel). The other systems really may stop: a daemon that has shut down,
connections or handles that are used up, requests that have all ended.

## 4. Fairness

Only what the code and its scheduler guarantee, and only weak fairness:

- The pool polls each task that can go on: a provider task that has something
  to publish, has seen its cancellation, or must discount its run; a handler
  inside a request; the drain task; a forwarder or a receiver with something to
  receive, woken, or aborted; `drive`.
- `run.cancel()` ends, within the provider library's bounded fallback, and
  `run.finish()` ends once the stream is closed.
- A thread that has begun a send, a drop or a daemon's start goes on with it.
- The listener stops when its stop signal is there (`WebServe`).

**Writes.** The code puts no timeout on a write. In `Admission` a write is
under no fairness: a client that keeps its socket open and never reads holds
the lifecycle lock for good, and `TerminateStops` holds all the same, because
the drain task takes no lifecycle lock. Only `EndingSpec` makes writes end, and
providers too; `admission_ack_lost` uses it, so that its counterexample can be
blamed on neither. In `ClientDrive` a write ends when there is room in the
socket, and room comes only from the other end's reading. `Delivers` is a
promise to a client that reads, so in `Delivery` a write ends or fails.

Nothing makes a client send a request, a provider send an event or end by
itself, an operator send a signal, or a connection break.

## 5. What is proved

All of it for every value of the constants that satisfies the assumptions in
the modules: finitely many run ids and handles, a journal and a channel of at
least one event, bounds that are natural numbers, and a few strings that are
not names of connections, attachments, requests or daemons, since the models
use them for "nobody", for a kind of frame, or for what is at the path. Every
safety invariant and every action property that a run checks is proved, each
from an inductive invariant that TLC had checked first.

**Registry, types and journals** (`RunRegistryProofs`). `TypeCorrect` and
`JournalsAlwaysExact` hold whether or not encodings fail. The invariant
`TypeInv` adds to them that a call in progress names a run and that a received
event is kept until it is published. The journal lemmas of `LiveRunProofs` carry it:
a push and an acknowledgement keep `JournalExact`, which says that the journal
is the interval above the larger of the acknowledged cursor and the floor. That
exactness is also what makes the pop loop of `acknowledge` well typed.

**Registry, safety** (`RunRegistryProofs`), if encodings do not fail:
`ActivityAlwaysExact`, `CancelAnswersTerminal`, `StartsAcceptedOnce` and
`TerminalStaysFinal`. None of them is inductive. `SafeInv` adds: a run is
active exactly while its task is short of its terminal event; a run without a
task is one that a start has inserted and not yet counted, and that start is
the only holder of the lock; the counter counts tasks. The hypothesis
`EncodeCanFail = FALSE` is needed, as finding 1 shows.

**Registry refines lifecycle** (`RunRegistryProofs`).
`RegistryImplementsLifecycle`: every registry step is one step of
`RunLifecycle` or none, under the mapping `phase <- Phase(r)`,
`count <- active`, `taken <-` the runs whose cancel sender is gone. `Admission`
is built on `RunLifecycle`, so what is proved of it is proved over the registry.

**Admission** (`LifecycleProofs`). `AdmissionTyped`, `AlwaysStopsIdle` and
`AdmissionStaysClosed`. The invariant `AInv` adds that the counter is exact
(`LifecycleStep`, a lemma on `RunLifecycle` alone), that a run inserted and not
counted has a handler at that point, that no handler is behind the gate once
`stopping` is set, and that an idle shutdown that was accepted and whose answer
is still being written finds the registry quiet. The point of the argument: the
counter can be zero while a run is inserted, but not with the lock free, and
the lock is free when a shutdown looks at it.

**WebSocket process** (`LifecycleProofs`, which extends both servers; `WebServe`
names its definitions apart from those of `Admission` for that). `WebServeTyped`
(types, which no run repeats) and `DrainOutlivesAcked`. The invariant `WebInv` adds that the counter is exact, by the same `LifecycleStep`,
that a start is answered only after its run was counted, and that nothing is
answered once the drain has begun: so a counter of zero, whenever the drain
looks, is a settled registry as far as any client knows.

**Delivery** (`DeliveryProofs`). `DeliveryTyped`, `GivenInOrder`, `NoneLost`,
`OnlyExpiredEnds` and `NothingPassedOver`, the last an action property. None of
them says how the receiver, the queue and the journal fit together, which is
what `DInv` adds, attachment by attachment:

- `Counted`: the channel's `receivers` is the number of attachments that hold a
  receiver. A send without receivers is dropped, so an event is in the buffer
  for a live receiver only because of this.
- `Stands`: what the receiver has yet to take are the last events published,
  without a hole, and (unless it has just lagged) the first of them is at most
  one above `last` or the acknowledged cursor. It follows that skipping
  `sequence <= last` skips only what the replay gave, and that the next event
  it takes is the next one that the client needs.
- `Handed` and `Frame`: what was written, what is being replayed and what is
  queued lie between `after` and `last`, ascending, written before queued.
- `Complete`: every event between `after` and `last` that is not acknowledged
  is in one of these places while the connection is open.
- `Placed` and `Replaying`: a replay belongs to the one attachment that its
  handler is about to spawn, and nothing of that one is queued.

The journal's part is `ReplayFacts`: above a cursor that has not expired, a
replay is the interval from the larger of the cursor and what the journal
retains, up to the latest event. `NoneLost` then splits on where the event is:
at or below `last` it is `Complete`; above, it is in the journal if the receiver
lags (`StillInJournal`), else in the buffer at the position that `Stands`
computes (`StillUpcoming`). `NothingPassedOver` needs that only two steps write
on a connection, and that what either writes comes right after something
written, claimed or acknowledged, although the frames of an earlier attachment
may still be ahead in the same queue.

**Client** (`ClientDriveProofs`). `ClientDriveTyped`, `NobodyForgotten`,
`EachItsOwnAnswer` and `OneVersion`. `CInv` adds that each frame in either
direction of the socket carries the request its number was given to (`Framed`):
a number belongs to the request being written, to a pending one, or to one that
nobody waits for, and no frame carries it before the write. For the version it
adds that every response on its way carries none, or the one the proxy has
agreed to (`Agreed`).

**Subscriptions** (`WebSubscriptionsProofs`). `SubscriptionsTyped`,
`ForwardersAlwaysNamed` and `EntriesNeverStale`. The invariant `WInv` adds that the forwarder of an entry
has not been aborted, and that a forwarder not yet spawned belongs to the one
handler that is about to register or spawn it; generations are never reused, so
a late `remove_if_current` cannot hit a newer entry.

**Broadcast** (`BroadcastProofs`). `TypeCorrect`, which includes that the buffer
stays within its capacity, and `LagReportsExact` (`Accounted`). What a receiver
adds up says nothing about the buffer, so `BInv` adds what the channel holds:
the value at position p is the (p+1)-th, a live receiver's `next` is what its
owner counts, no further than what was sent, and the counters of handles are
the numbers of handles there are. The last is why nobody can send after a
receiver was told that the channel is closed.

**Socket path** (`SocketPathProofs`). `TypeCorrect`, `ServingIsReachable` and
`RaceLeavesSomeone`. `prepare_socket_path` removes a socket at every error of
its `connect`, so the socket of a daemon that serves can be taken away by a
start that overlaps another and by a connect that fails at a listener.
`Reachable` says that nothing else does it, and `SomeoneReachable` that even
then, once the starts are through, the path leads to a daemon that serves.
`SInv` adds, for the first, that without the two mishaps only one start is under
way, that past its look nobody else serves, and that from its bind on the path
is its own; for the second, that a daemon which has bound leaves its socket
only to another's, or to a start that has removed it and is about to bind.

**Only model-checked.** Everything about liveness and fairness, which is beyond
the prover: `CancelEndsRun`, `ImplementsFairLifecycle`, `TerminateStops`,
`Delivers`, `LetsGo`, `LostIsReleased`, `EveryRequestEnds`, `DriveReturns`, `Wakes`,
`DrainEnds`, `CancelEnds`, `Recovers`. Where such a property rests on a safety
fact, that fact is proved: `Delivers` says that what `NoneLost` puts into the
buffer or the journal is written in the end.

## 6. Findings

1. **A run that cannot be encoded is discounted twice** (`runtime.rs:532`,
   code bug). `publish_provider` publishes a failure, which ends the run, but
   the task's loop goes on; the next event makes the run active again without
   counting it, and its end discounts it again, against
   `debug_assert!(previous > 0, ...)` at `runtime.rs:87`. In a release build
   the counter saturates, or falls below the number of live runs.
2. **A shutdown whose answer cannot be written never happens** (`lib.rs:321`,
   code bug). `stopping` is set, the write fails, `?` leaves the handler before
   the drain task is spawned. Every start is refused from then on and every
   further `Shutdown` answered "already stopping"; only `ShutdownIfIdle` still
   stops the daemon.
3. **A replay can begin after a hole** (`runtime.rs:372`, doc and code
   disagree). `attach` refuses cursors below the floor, but acknowledgements
   shorten the journal without raising it. An attach below the acknowledged
   cursor is accepted, and its replay lacks the events in between.
4. **A notification can overtake the response** (`web.rs:450`, doc and code
   disagree). The forwarder is spawned on the pool before the handler returns,
   while the tool's description promises the snapshot and replay "then" the new
   events.

Met while modelling, and not the subject of a run, because no document promises
otherwise:

- Two daemons that start at the same time can both see one stale socket; the
  slower `remove_file` (`lib.rs:172`) then removes the socket that the faster
  has just bound, or the slower connects between the other's bind and listen.
  The faster serves a path nobody can reach (`SomeoneReachable`: the slower, or
  a third, then serves there).
- `prepare_socket_path` asks `connect(..).is_ok()` (`lib.rs:169`) and treats
  every error as a stale socket. A connect that fails for want of a descriptor,
  at a signal, or at a full backlog removes the socket of a daemon that is
  serving, and the new daemon takes its place. The old one serves on unseen,
  and when it ends, its `Drop` (`lib.rs:145`) removes the socket of the new one.
- A forwarder that is refused its replay after a lag ends without telling its
  client (`lib.rs:409`). `EndsOnlyExpired` says that only events which have left
  the journal bring this about.
- `drive` does not read while it writes, and neither does the proxy. With both
  directions of the socket full each waits for the other (`Jammed`), until the
  connection fails. `EveryRequestEnds` and `DriveReturns` say that nothing else
  keeps a caller waiting.
- `wait_until_idle` counts runs that are inserted. A `StartRun` still launching
  its provider when the listener stops is not counted, and the process may exit
  before it is. Its client has had no answer: `DrainsAcked` is about those that
  have.
- `idempotency_key` (protocol) is carried and never read: a start that is
  retried is refused as a duplicate id, a retried injection injects again, a
  retried cancel is refused, since the first took the sender. Nothing in the
  repository retries.
- The README counts nine MCP tools and the server registers eleven. A `tls`
  section of the configuration is accepted and ignored. No run ever leaves the
  map, so a run's channel never closes, and `RecvError::Closed` is not reached
  by its forwarders. The client's request number is a u64 that skips zero when
  it wraps.

## 7. Not modelled

- inject, decide, interrupt_session, list, probes and account usage: they pass
  a request to the provider, or read, and change nothing in the daemon.
- `build_request` and the reports of `probe_providers`: translations field by
  field.
- Configuration and argument parsing: pure checks of strings.
- Authentication, schemas of the tools, the contents of events and requests.
- The order in which `main` blocks signals and starts threads: a matter of the
  process's signal mask, which has no counterpart in a state machine of the
  daemon.

## 8. Plan

1. *Event stream*: an abstract specification of what an attachment gets,
   refined by `Delivery`.
2. *Waiting*: the loop of snapshot, look and wait is written out in `Broadcast`
   and `WebServe`; an abstract waiter that both refine would say once why no
   wake-up is lost.
