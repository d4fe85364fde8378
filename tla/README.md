# Showtime: a TLA+ model of its core

Showtime connects programs into one performance.  A *stage* (server) keeps the
graph of entities; *clients* own a root performer with components, plugs and
factories below it, mirror everybody else's entities as *proxies*, and send
plug values to each other directly.  The code modelled is the C++ core
(`src/src/core`), the client (`src/src/client`) and the stage
(`src/src/server`).  This directory holds the models, the TLC configurations
and the TLAPS proofs; `PROJECT.json` says which definition models which lines.

## Inventory

| part | state it keeps | operations | talks to |
|---|---|---|---|
| `ZstSynchronisable`, `ZstSynchronisableModule`, `ZstReaper` | status, deferred events, has_event notices, dead IDs, cleanup operations | activate, deactivate, announce_update, process_events, reap_all | every module that owns entities or cables |
| `ZstHierarchy` (client and stage) | URI lookup of raw pointers, owned proxies, deferred arriving events | create, add, update, remove proxies; activate, deactivate local ones; snapshot and broadcast | transports' threads, application thread |
| `ZstMessageSupervisor`, `ZstTransportLayerBase` | promises and owned messages by message ID, retired promises, inbox, request pool | blocking_send, event loop | all request senders |
| `ZstClient` | connecting / connected flags, heartbeat timer, beacons, auto join promises, pending peer connections | init, destroy, join, leave, heartbeat, auto join, handshake | stage, peers |
| `ZstStage` | heartbeat counters, event loop, timer | init, destroy, remove silent performers | clients |
| `ZstSession`, `ZstStageSession`, `ZstClientSession`, `ZstCable` | cables, connected performers, subscribers | connect and destroy cables, observe, take ownership | hierarchy, peers |
| `ZstComponent`, `ZstEntityBase`, `ZstPerformer`, `ZstEntityFactory` | tree of children, names, creatables | add and remove child, rename, create | hierarchy |
| `ZstPlug`, `ZstValue` | items, default type, owner, fire flag, cables | append, fire, read, set_owner | session, graph transport |
| `ZstURI` | none | split, join, compare paths | everything |
| discovery transport | beacons and their time stamps | broadcast, expire | client |
| dispatchers, `ZstSemaphore` | event queues, wake count | defer, invoke, process, wait | everything |
| `ZstActor`, ZeroMQ transports | loop, sockets, process-wide reference count | start, stop, send, receive | czmq |

What is hard: entities are passed between threads as raw pointers through
three different queues and a lookup table; statuses and flags are tested and set in two
steps; requests time out while their replies are on the way; one boost timer is
cancelled, re-armed and left by different threads; a snapshot races the broadcasts
it overlaps; entities are tied together by URIs, which a rename changes; a value is
written item by item while another thread computes on it; destroy stops threads
that wait for each other.  `PROJECT.json` lists each of these at its line
under "hazards", with the property that would catch it going wrong.

What makes each part correct: no event stranded, no freed entity found by
lookup, one proxy per URI, a farewell before the memory goes (lifecycle); a
reply's memory held exactly as long as its reader needs it (requests); a
heartbeat exactly while connected, a silent stage noticed (connection); clients
that see the stage's graph once messages have arrived (graph); plugs
and session agreeing on their cables, within the limit (cables); the flags to fire following the
stage's decisions, inputs that read what was fired (plugs); lookup, paths, parents and
children telling one story (tree); a library that can always be destroyed
(lifetime).

## Modules

| module | models | composed or used with |
|---|---|---|
| `ProxyLifecycle` | the entities of one `ZstHierarchy`, from arrival to reaping | `MCProxyLifecycle`, `ProxyLifecycle_proofs` |
| `MessageSupervisor` | `blocking_send`, `ZstMessageSupervisor` and the transport's event thread | `MCMessageSupervisor`, `Runtime_proofs` |
| `ClientConnection` | join, leave and heartbeat of one `ZstClient` | `MCClientConnection`, `ClientConnection_proofs` |
| `PeerHandshake` | `connect_clients` and the listen / start / stop handshake of two performers | `MCPeerHandshake`, `PeerHandshake_proofs` |
| `WorkQueue` | what a queue of deferred work promises: once, in order, in the end | instantiated by `EventLoop` |
| `EventLoop` | dispatchers, semaphore and event loop of the stage; implements `WorkQueue` | `MCEventLoop`, `Runtime_proofs` |
| `CableSession` | cables on the stage, on the clients and in the plugs | `MCCableSession`, `CableSession_proofs` |
| `GraphSync` | the stage's graph and the clients' mirrors of it | `MCGraphSync`, `GraphSync_proofs` |
| `EntityTree` | URIs, parents, children, creatables and lookup of one client | `MCEntityTree` |
| `StagePresence` | beacons, auto join, and the count of missed heartbeats | `MCStagePresence`, `StagePresence_proofs` |
| `PlugControl` | ownership of a plug and who may fire it | extended by `PlugValues`, proofs in `PlugValues_proofs` |
| `PlugValues` | values from an output plug to the inputs, with `PlugControl` composed in | `MCPlugValues`, `PlugValues_proofs` |
| `LibraryLifetime` | init, destroy and re-init of the library, its threads and sockets, beside a stage | `MCLibraryLifetime`, `Runtime_proofs` |

### ProxyLifecycle

One thread at a time is at one step of one call: `call[t]` holds the step and
the raw pointer the real call keeps on its stack.  `CreateCheck` and
`CreateInsert` are the two halves of a proxy's arrival, `CheckOff`, `SetOff`,
`DeferDeactivated`, `DeferDestroyed` and `Wake` are `enqueue_deactivation`
statement by statement, `CheckOn` ... `WakeOn` are `enqueue_activation`.
`process_events` runs on the thread `App` (the application of a client, the
event loop of a stage): arriving events, then notices, then, for each notice,
the entity's own queue (`loop.at = "object"`), then the reaper.  The queues are
moodycamel queues: first in first out per producer, and nothing is said of the
order between producers, so a queue is a function from producers to sequences.

Memory is explicit: `memory[o]` is unborn, live or freed.  A step that would
touch a freed entity sets `fault` and the model stops; what a program does
after such a step is undefined.  A destroyed event that makes `process_events`
call itself is a fault as well ("nested"): the model does not follow it.
An entity stands for a subtree without a parent, as the three queues treat the
members of a subtree one by one; the tree is left to `EntityTree` (below).
`activate_entity` lists a local entity in the lookup when it asks the stage
(`ActivateRequest`), and its completion lists it once more.

### MessageSupervisor

A request is named by its message ID.  The caller's steps are those of
`blocking_send`, the handler's those of the transport's event thread, where
`process_events` first erases retired promises and then takes one message,
waiting for at most 500 ms.  `m_mtx` is modelled where it is taken.  Three
accesses take no lock (`ZstMessageSupervisor.cpp` lines 45, 56 and 65-69);
when such a search overlaps a write of the same map the model lets it hit or
miss (`ReleaseMiss`, `CleanupMiss`, `FindNothing`).  A corrupted hash table is a possible outcome too and is not modelled.

### ClientConnection

The heartbeat handler is bound without its error code, so cancelling a wait
*runs* the handler; `armed` counts waits, `posted` handlers that are due.
`leave[t]` is where thread `t` is in `leave_stage_complete`; three kinds of
thread come there.  Joins are asynchronous; the reply to the join and to each
heartbeat is any of the outcomes `MessageSupervisor` allows: answered, refused
or timed out.  The root performer's events are kept as two flags, since its
queue is processed whole.

### PeerHandshake

A cable or observe request makes the stage connect two performers: `Requests`
are the requests for one pair, `request[r]` says where each is, `target[r]`
which process under the listener's name its raw pointer belongs to.  On the
stage the transport's event thread (`handler`) runs `HandleCable` or
`HandleObserve`, then the two halves of `connect_clients` (`ConnectClients`,
`SendStart`), and takes answers (`ReceiveAnswer`); pool threads run
`blocking_send` (`SendListen`) and its callback (`CompleteConnection`,
`ListenTimesOut`); the event loop reaps (`StageReaps`) and announces
(`AnnounceJoin`).  On the listener `HearListen` is the stage transport's thread
and `HearHandshake`, `HandshakeErase` the graph transport's, which share
`m_pending_peer_connections` without a lock.  On the broadcaster the start and
stop handlers (`HearStart`, `HearStop`, `StopErase`) and the timer thread
(`SendHandshake`, `LoopTimer`) share `m_connection_timers`; a timer is named by
the start message that made it, `waits` counts its waits and `due` its handlers
that are due, since cancelling, re-arming and erasing a timer all *run* its
handlers.  A handshake is lost unless the sockets are connected.

The listener may leave, and another process may join under its name.  Memory is
misused, and the model stops, when the stage uses a reaped performer
("performer"), when the broadcaster does not find the listener, whose URI it
reads before it tests the pointer ("null"), and when a timer is re-armed after
it was erased ("timer").  All three are reachable; no document says otherwise,
so they are described here and not checked.  Two more things the model shows:
after a listen message has timed out nobody tells the broadcaster to stop, and
a start message that is processed after the stop of an overlapping request
starts a broadcast without end.

Not modelled: a broadcaster that leaves, the removal of a silent listener by
the heartbeat watch, a requester that is neither of the two, the pool's limit
of four threads, the cables themselves (`CableSession`), and what a data race on the two
unordered maps may do to their structure.

### WorkQueue and EventLoop

`WorkQueue` has three actions: work is put on a channel, taken off it in order,
and the queue is closed; it promises that what was put there before the
closing is run.  `EventLoop` is the stage's code: a thread enqueues an event on one
of four dispatchers (`Defer`) and notifies the semaphore afterwards (`Notify`);
the loop waits (`Wake`), and drains hierarchy, entities, session and cables in
this order (`RunEvent`, `EventDone`, `Drained`).  An event may defer others.
`destroy` sets a flag and notifies in two steps.  `ImplementsQueue` is the
refinement, with the dispatchers' queues as channels.

### CableSession

The stage has a status per cable (`cable`), the addresses each plug lists
(`lists`), the plugs its lookup finds and what its event loop has yet to drain;
each client has its own copies (`mine`, `plugged`, `known`).  `CreateCable` is
`create_cable_handler`: it evicts what is in a full input, creates the cable,
and publishes it, or begins a handshake (`shakes`) that ends by
`FinishHandshake`, `HandshakeFails`, or not at all when the pair is on record.
`RemovePlug` and `RemovePlugEnds` are the two halves of a component's
destruction, between which the event loop (`LoopLeaving`, `LoopEntities`,
`LoopCables`) may run.  On the client, a cable is created early
(`ConnectEarly`), activated by whichever of publication and reply comes first,
and given up in `Unplug`.  A cable waits for the reaper until `Poll`.

A component that leaves is first taken from its parent, which gives it and its
plugs new paths at once, on the stage (`RemovePlug`) and on a client
(`HearGone`).  `live` and `known` are the plugs that are found by the address of
a cable; a plug that leaves is in `Leaving` or `parting` instead, found under its
new path until its deactivation is processed (`LoopEntities`, `Poll`), and its
list is then cleared whole.  Meanwhile `Unlisted` and `Unplug` pass it over.  A
client that asks for the destruction of a cable with such a plug makes the
address of the new path (`AskDestroy`, "astray").

### GraphSync

Requests of the clients go up in order, messages come down in order.  The order
of the requests is an assumption: `ASYNC_REPLY` requests are sent by a pool of four
threads (`ZstTransportLayerBase.hpp:75`), which may overtake each other, and
the model is of applications that have no two of them under way whose order
matters.  A client joins once, under a name of its own, so the answer to a join
under a name that exists (`ZstStageHierarchy.cpp:129`) is left out.  The
router's actions are the handlers of `ZstStageHierarchy` and the snapshot of
`synchronise_client_graph_handler`; arrivals are deferred to the event loop,
which serialises an entity, and sends it one step later; the timer evicts a silent
performer.  A path is an object and a version of its name.  A factory
request is forwarded, answered by the factory's client and answered again by
the stage; `answer` is the first answer the requester gets.  A step that uses a
null or freed sender ends the model (`fault`).

### EntityTree

A tree is a record of functions: `uri`, `par` (m_parent), `kids` (m_children),
`make` (creatables), `reg`, and `look`, the lookup.  The calls are sequential
and the operators take a tree and return the tree after the call, in the order
of the code's statements: `SetParent` and `SetName` rewrite a subtree by
removing and adding children, which they find through the lookup they are changing.
URIs are sequences of parts; `range`, `parent`, `last`, `contains` and `+` are
operators on them.  Names of siblings, and of a parent and its child, are kept
distinct (`FreeName`): the code overwrites a key when they are equal.

### StagePresence

Three records: `d`, the client's list of stages with its discovery thread and
timer; `a`, calls of auto join with their promises; `h`, the stage's record of a
client.  Each access to a shared container is a step, as no lock is taken.  The
history fields `torn`, `window`, `overlap` and `raced` mark overlaps that the code does
not guard, and the properties name them as exceptions.

### PlugControl and PlugValues

`PlugControl` has one output plug and its instances at every performer: the
stage records the owner and broadcasts it, each client sets the flag
(`HearOwner`), and the creator's activation raises its flag in two steps.
`PlugValues` extends it: items are appended and fired, copied to inputs of the
same performer, sent to others, written item by item by the listener's graph
thread into its proxy and its input, and read by computes the application runs.
Numbers are counted in halves, so that converting a float to an int loses
something; a string need not be a number.  No action of values changes a
variable of control, which makes `PlugValues` an implementation of `PlugControl`.

### LibraryLifetime

`init` and `destroy` of client and stage are scripts of steps (`InitClientScript`,
`DestroyScript`, ...), which the application's thread takes one by one (`todo`)
while the timer thread, the event threads of five transports, the actor, the
workers of the request pool and the thread that waits for a beacon run between
them.  `open` holds the actors and sockets that exist, `refs` the counter that
decides when ZeroMQ is shut down.  A socket may fail to open, and init then
returns early.  Requests pass pool, actor pipe, socket, inbox and promise, or
time out.

## Runs

Bounds are constants of the configurations: `MaxCalls` (updates, requests or API
calls), `MaxReplies` (replies per request), `MaxJoins` (joins, or processes that
join under one name), `MaxFlight` (handshakes in a socket), `MaxEvents` (events
per channel, or deferred events), `MaxVersion` (names of an entity), `MaxSteps`
(calls on a tree), `MaxMissed` (MAX_MISSED_HEARTBEATS), `MaxAsks`, `MaxFires`,
`MaxAppends` (ownership requests, fires, items), `MaxInits`, `MaxFailures`,
`MaxQueue`, `MaxBeats` (inits, failing sockets, queued requests, heartbeats).

| run | instance | shows |
|---|---|---|
| `lifecycle_client` | two incarnations of one URI, a creating and removing thread, an updating thread, two updates | no lost notice, one proxy per URI, single cleanup, farewell first |
| `lifecycle_ends` | a local entity with two reply threads, deleted at any time; or two incarnations with a router and a timer that both remove | the lookup holds no freed entity, notices of deleted entities are disarmed, activations complete, every removed proxy is reaped |
| `supervisor` | two requests, two replies each | a reply in use has its memory and owner, nothing is freed twice, no waited-for reply is dropped, promises are erased |
| `connection` | two pool threads, two joins | the heartbeat goes on while connected, chains do not multiply, a silent stage is noticed |
| `handshake` | a cable and an observe request for one pair, the listener leaves and rejoins | what is confirmed was heard, a lone listen message is never forgotten, the broadcast keeps itself going, the pair connects although early handshakes are lost, a stopped broadcaster falls silent |
| `event_loop` | router, timer and the loop itself defer two events each | no notification missed, destroy ends the loop, the loop implements `WorkQueue` |
| `cables` | two clients, an input for one cable, a local and a remote output, three calls | the limit holds, plugs and sessions agree, a destroyed cable is unplugged |
| `graph` | two clients, a factory and what it makes, two names each, five calls | mirrors agree with the stage, an ACK means an entity was created |
| `tree` | a client with two components and a factory, a peer with the same, two names, seven calls | lookup and walk agree with the paths, parents with children, creatables with their factory |
| `presence` | one stage, two auto joins; or one client and three checks in a row | what was told is listed, a beacon in time is seen, one auto join at a time is safe, silence has its bounds |
| `values` | two performers with an input each, a float and a string, two requests, two fires | the flags follow the stage's decisions (after a release nobody can fire: the finding below), no value is left uncomputed, inputs read what was fired |
| `library` | two inits, one failing socket, one worker, a stage in the process | ZeroMQ is not shut down under a socket, destroy always returns and has stopped everything |

The bounds are enough for the cases that matter: two incarnations of a URI are
needed to see a duplicate or a stale entry, a second update to queue a notice
behind a drained queue, two replies to see one replace the other, two joins
to see an old timer or teardown meet a new connection, and two requests in
flight to see their map operations collide.  In the handshake two requests are
needed for an ID that replaces another and for a timer that is started while it
is stopped, two processes for a stale pointer or record; one handshake in the
socket is enough, as a second finds nothing pending or is like the first.
A second cable is what evicts the first; a third call destroys either while the
other is on its way.  Five calls let a client join, activate, rename and destroy
while another joins.  Seven calls build a tree of three levels and rename
two of them, or reap and arrive again.  A second init is what finds the
io context and the pools of the first.  No symmetry is used: most runs check liveness, and the
values differ.

Two sides that share no variable are explored one at a time where one module
has both (`OneSide` in `MCProxyLifecycle` and `MCStagePresence`).
`ValuesFollow` in `MCPlugValues` lets values start once the plug is active; control before
that is covered by the states without values, and by the proof.

Deadlock is not checked where the system may come to rest: nobody has to send
another request, and every other thread then waits.

Each property has a mutant in `PROJECT.json`: an operator
defined beside the original (`X_What`) that has a plausible bug, under which
TLC finds the property violated.  The types of `ProxyLifecycle`,
`MessageSupervisor`, `ClientConnection`, `PeerHandshake`, `EventLoop`,
`CableSession`, `GraphSync`, `StagePresence`, `PlugControl` and `PlugValues` are proved; those of the other modules held on
the instances above and are not a run of their own.

### Exceptions in properties

Some properties except behaviour the code does not prevent:

* `DeadIDsCoverWakeups`: an entity deleted after its destroyed event was
  delivered, with a notice queued since, is not disarmed.
* `CleanupOnce` is checked with one removing thread; with the stage's two, both
  can pass the check in `enqueue_deactivation`, and the reaper gets the
  performer twice.
* `LookupLive`: a local entity that `activate_entity` listed again after its
  destroyed event, and that the application deletes before the reply, stays in
  the lookup, since `dispatch_destroyed` does nothing for the status DESTROYED.
* `PromiseIsErased`: the promise whose erasing search ran into a registration.
* `PlugsAgree`: a plug that leaves, which may list cables that are gone until its
  deactivation.  `DestroyedIsUnplugged`: the same on a client until the next
  `process_events`, and a client whose own request was not granted.
* `SilentStageIsNoticed`: the late teardown of an old connection disconnects the
  socket of a new one; heartbeats are then not sent and cannot fail.
* `ListenNotForgotten`: a second listen message for the pair replaces the ID of
  the first, or is erased by the handler that has just answered it.
* `ViewsAgree`: entities of performers that have gone, and those the router
  changes while the event loop is between serialising and sending them.
* `TreeAgrees`: a proxy that arrives under a URI a renamed sibling has left is
  taken for a child already and gets no parent.
* `ToldIsListed`, `AutoJoinSees`, `OneCallIsSafe`, `SilenceBounds`: the overlaps named under
  `StagePresence`.
* `ControlAgrees`: the creator's late activation raises its flag although
  another performer owns the plug.
* `ReadAsFired`: a local copy into an input that the graph thread is writing.

### A finding

`ZstClientSession.cpp:286` says that an empty owner "will release entity ownership
back to the original owner", `ZstStageSession.cpp:264` that with it "we return
ownership back to the original owner".  The code does not: the stage records and
broadcasts the empty owner, and `ZstOutputPlug::set_owner` (`ZstPlug.cpp:384`)
clears the flag wherever the owner is not the local performer, so that after a
release nobody can fire the plug, its creator included, until it is acquired
again.  `ControlAgrees` states what the code does; its `Controller` is empty after a
release, and `values` and `ControlConverges` show that this is what performers
come to.

### Behaviour worth knowing

The models reach the following, which no property claims away.  Most contradict
a comment or a test nearby.

* A notice of an update queued after the reaper's look makes `process_events` call
  a freed proxy; the comment at `ZstSynchronisableModule.cpp:47` means to
  prevent it.
* A reply that finds the promise of a caller that has timed out is owned for
  ever (`ZstMessageSupervisor.cpp:73`).
* A retired ID whose search in the promise map runs into a registration is
  forgotten, and the promise kept for ever (`ZstMessageSupervisor.cpp:56`).
* A destroyed local entity that is activated again and deleted before the reply
  leaves a freed pointer in the lookup (`ZstEntityBase.cpp:372`,
  `ZstHierarchy.cpp:39`).
* A component that leaves, and its plugs, have new paths from then on
  (`ZstHierarchy.cpp:350`), so `destroy_cable_complete` does not find the plug
  and its list keeps destroyed cables until its deactivation.  A client's
  `destroy_cable` then names a path the stage does not know; the stage answers
  OK, the client forgets the cable and the stage keeps it.  If the stage's loop
  reaps the plug before it drains the leaving event, the cables stay on record
  at their other end.
* A join that is refused or times out leaves `m_is_connecting` set, and every
  later join returns at once (`ZstClient.cpp:374`; the test `auto_join_timeout`
  expects otherwise of its case).
* Two threads may pass the test at `ZstClient.cpp:536` together, and one
  disconnection is reported twice.
* `connect_clients` returns without its callback for a pair on record
  (`ZstStageSession.cpp:374`): the second cable of two performers is neither
  published nor answered, nor is one for a process that rejoins, as nobody calls
  `remove_subscriber`.
* Clients are not told of a performer that the stage evicts
  (`ZstStage.cpp:179`), and keep its proxies; a leaving performer may still be in
  a snapshot; an arrival may be broadcast after the leave.
* `leave` and factory requests of an endpoint without performer use a null
  sender (`ZstStageHierarchy.cpp:153`, 180, 222).
* A failed factory request is answered by its signal and then by an ACK with the
  factory's path (`ZstStageHierarchy.cpp:224-229`).
* The owner of a serialised entity is cut to as many bytes as its URI has parts
  (`ZstEntityBase.cpp:197`); nothing reads it on arrival.
* Ownership links performers in the direction receiver to owner
  (`ZstStageSession.cpp:298`); the owner's own inputs get nothing from a proxy's fire.
* A parent keeps the old URI of a renamed child (`ZstComponent.cpp:88`), equal
  names overwrite each other's key, and the lookup keeps parentless entries
  against the comment at `ZstHierarchy.cpp:318`.
* A beacon between auto join's test of the list and its store is missed, a second
  auto join at once takes a future twice or erases `end()` (`ZstClient.cpp:309`,
  315), and a second beacon keeps a promise twice (414).
* After destroy and a second init the timer thread may find the io context
  stopped and return (`ZstClient.cpp:117-119`), and `m_async_pool` and
  `m_thread_pool` stay joined, so that asynchronous requests never run.  A join
  whose reply comes during destroy leaves the destroyed library connected.
* A dealer socket or beacon that fails to open leaves its actor counted, so that
  ZeroMQ is never shut down.

### Fairness

`ProxyLifecycle`: a thread inside a call goes on, and `process_events` is
called again and again; on the stage by its event loop, on a client by the
application, which the library demands of it.  `MessageSupervisor`: callers and
the event thread go on; the lock is held for single map operations.
`ClientConnection`: requests end by `STAGE_TIMEOUT` at the latest, timers
expire, handlers and leaving threads go on.  `PeerHandshake`: each thread goes
on, sockets connect and timers expire; a listen message need not time out.
`EventLoop`: the loop's thread and a thread about to notify go on.
`LibraryLifetime`: the application goes on with an init or destroy it has
begun, threads that can run do, waits end by `STAGE_TIMEOUT`; the stage and its
beacons owe nothing.  The other modules check safety only.
Nothing forces an application to
join, leave, send or delete, a stage to answer, or a proxy to arrive.

## Proofs

All theorems hold for every value of the constants allowed by the named
assumptions `LifecycleAssumption`, `SupervisorAssumption`,
`ConnectionAssumption`, `HandshakeAssumption`, `LoopAssumption`,
`CableAssumption` (the plugs are finitely many), `GraphAssumption` (clients and
entities are finitely many, and no client is an entity; the entities of a factory
are at the factory's performer), `PresenceAssumption`,
`ControlAssumption`, `ValuesAssumption` and `LibraryAssumption`, which the runs evaluate.

* `ProxyLifecycle_proofs!TypeCorrect`: `TypeOK`, strengthened by `CallOK` and
  `LoopOK` (a call or a drain that is under way holds an entity, not null).
* `NoWakeupLost`: `WakeupNotLost` is nearly inductive.  It needs `Births`: the
  thread inserting a proxy is the only one that knows it, nothing is queued for
  an entity not yet born, and dead IDs belong to freed entities, so that a
  notice that is skipped is never one of a live entity.
* `LookupHoldsLive`: `LookupLive` needs `DrainedIsLive` (the entity whose queue
  is being drained is there), so that the status of a deleted entity stays what
  it was.
* `ProxyUnique`: `OneProxyPerURI`, assuming a single creating thread, as on a
  client and on a stage with one transport; `UriReserved` says that between the
  search and the insertion nobody else can take the URI.
* `DeadIDsKept`: `DeadIDsCoverWakeups`, on top of the invariant of
  `NoWakeupLost`, for any threads.
* `FarewellsDelivered` and `ReapedOnce`: `FarewellFirst` and `CleanupOnce`, assuming at
  most one removing thread (removers and the stage's timer together), and for
  `ReapedOnce` no entity of the application's own.  These are the cases the
  code is made for; with the stage's two removing threads both fail, see
  "Exceptions in properties".  The invariant `ProxiesOrderly` says for each
  proxy that farewells come from a removing thread only (`OffOnly`), that the
  destroyed event is queued last (`DestroyedLast`), that nothing of the farewell
  has happened to a proxy that is activated (`Undisturbed`), and that nothing
  of it is left when the reaper has the proxy (`Departed`).
* `Runtime_proofs!TypeCorrect` and `RepliesKept`: `FrameHeld`,
  `FreedOnce` and `AnswerOwned` together, from `Ownership`: a message is in one
  place only (`OnePlace`), and whoever has it, inbox, handler, owned map or
  promise, has it undestroyed.  `FramesFreedOnce` is the second of them.
* `RepliesNotDropped`: `ReplyNotDropped` from `Promised`: replies are to
  requests that were sent, and a promise is in the map from its registration
  until its caller is done, so that a search that finds nothing ran into a
  registration or came too late.
* `ClientConnection_proofs!TypeCorrect` and `HeartbeatNeverStops`:
  `HeartbeatGoesOn` is inductive given the types.  So is `OneChainPerJoin`
  (`ChainsBounded`), once the chains are counted step by step.
* `PeerHandshake_proofs!TypeCorrect`.
* `Confirmation`: `ConfirmedIsHeard` follows the answer back to the socket.  A
  process that has left hears nothing (`LeftIsDeaf`), so listen messages under
  way and pending are for the present process (`ListenForPresent`), so what it
  answers came over its own connected socket (`HeardOverLink`).
* `Broadcasting`: `BroadcastGoesOn` is inductive given the types.
* `ListenKept`: `ListenNotForgotten` from `ListenInv`: a request points to a
  process that has joined, and a request that is alone has its listen message in
  one place at a time (`Ordered`), so that the erasing half of the handshake
  handler can erase nothing but the ID that was answered.
* `Runtime_proofs!LoopTypeCorrect` (the proofs about `MessageSupervisor`,
  `EventLoop` and `LibraryLifetime` are in one module), and `NoWakeupMissed`:
  `WakeupNotMissed` is inductive given the types.
* `LoopImplementsQueue`: `LoopSpec => Queue!WQSafe`, the safety part of the
  refinement.  It needs `InOrder`: a channel's queue is the run of numbers from
  the last event run to the last event sent, so that the event run next is the
  next number.  The liveness part is checked by the run.
* `CableSession_proofs!TypeCorrect`: `TypeOK`, with the types of the messages in
  the queues (`TypeInv`).  `ListsAgree`: `PlugsAgree` needs `Apart`, that a plug
  found by a cable's address is not one that leaves.  `LimitKept`: `InputLimit` is
  inductive given the types; the creation of a cable evicts before it adds, and
  only plugs that are found get a cable.
* `DestroyedIsCalledBack`: `DestroyedIsUnplugged` from `CallBackInv`.  While the
  stage does not have a cable inside one performer, every message in a client's
  queue that grants it is followed by its destruction, and a client that lists it at
  a plug it finds has its destruction in the queue (`Recalled`); plugs list only
  cables the client has, and a plug that is neither found nor leaving lists none
  (`Tidy`); handshakes are between performers (`ShakesRemote`), so that no
  late end of one can publish such a cable again.
* `GraphSync_proofs!GraphInvariant`: `GraphInv`, from which the other theorems
  about the graph follow.  `ViewsAgree` speaks of states in which nothing is on
  its way; to be inductive it has to say something of all the others.
  `Mirrored` does: *replaying* the queue of a client over its view (`Replays`, a
  function of positions in the queue, `After` for one message) gives no other name
  of an entity than the stage has, and does give that one if the client was sent
  the graph and the entity's arrival is not still to be broadcast.  Each step
  either appends to a queue, and the replay is extended (`ReplayConcat`,
  `ReplaySnap` for a whole snapshot, whose order within performers and within
  entities does not matter), or takes the head of one, and the client's view makes
  the same step (`ReplayHear`).  An arrival on top of a snapshot that had the
  entity, and the converse, are then the same name added twice.
  The rest of `GraphInv` is what this rests on.  `Roles`: a client asks and
  hears nothing before it has joined, and hears of its join first.  `Births`: an
  entity is created by one request of its own performer, so that a rename or a
  destruction never runs ahead of its creation.  `Known`: nobody speaks of an
  entity that the stage has not had.  `Lefts` and `Goings`: farewells, and entities
  that are going, belong to performers that have gone.  `Sendings`: what the event
  loop is about to broadcast is still so, unless the router changed it meanwhile (`clash`,
  the exception of `ViewsAgree`).
* `MirrorsConverge`: `ViewsAgree`.  With nothing on its way the replay is the
  view itself (`ReplayQuiet`).
* `AcksTrue`: `AckMeansCreated` from `Makes`, a factory request is in one place
  and its entity is made once, and `Acks`: while an entity does not exist every
  ACK for it in a queue has the news of a failure ahead of it (`Failing`).
* `GoneForGood`: a step of the stage never brings back a performer or an entity it
  has let go, an action property that needs `Roles` and `Births`.
* `GraphTypeCorrect`: `TypeOK` of `GraphSync`.
* `StagePresence_proofs!TypeCorrect`, `AnnouncedInOrder`, `DiscoverySeen`,
  `CallsAloneSafe` and `SilenceBounded`: `TypeOK`, `ToldIsListed`,
  `AutoJoinSees`, `OneCallIsSafe` and the action property `SilenceBounds` from
  `PresenceInv`.  `Announces` extends `ToldIsListed` to the events still
  queued; `Reached` follows a promise in the map from the store on; `Alone`
  says where the one call is that does not overlap with another, and that its
  promise is in the map until it is erased; `Counts` bounds the count by the
  checks since the last heartbeat, in both directions and at each step of a
  check.  A heartbeat between the read and the increment of a check is what
  makes the bounds not inductive by themselves: the flag is then set and the
  count not zero.
* `PlugValues_proofs!ControlConverges`: `ControlAgrees` from `Follows`: at each
  performer the last broadcast on its way, or else the flag it has, is the
  stage's decision.  Any number of performers and requests.
* `ValuesKeepControl`: `Spec => ControlSpec`, so that
  `FireControlConverges` follows without a new induction.
* `ValuesTypeCorrect`, `NoValueForgotten`, `InputsReadAsFired`: `TypeOK`,
  `FreshComputed` and `ReadAsFired` from `ValueInv`.  Messages on the wire are
  the fired items in the plug's type (`WireFaithful`), what the graph thread has
  written so far is what the message says (`Writing`), and reading a list again in its type
  changes nothing (`ReadingAgain`).

* `ContextUnused`: `UnusedAtShutdown`, for any number of restarts, failing sockets
  and workers.  The counter and the set of open handles are changed by different
  steps, and in an order that differs from transport to transport, so that the
  invariant `LibraryInv` has to speak of the steps still to come.  There is a set
  of counted handles, not larger than the counter (`Counted`); what is open is
  counted, or its count is among the steps to come with no early return of the
  same transport in between (`Due`, `Opened`); a loop is started only after its
  actor was counted, and not at all when the transport has returned (`Looped`); a
  script that closes counts nothing (`Apart`).  A failing socket leaves its actor
  counted for good, which is why the counter may exceed the set.  That the scripts
  have these properties is proved piece by piece (`Whole`, `Undoing`) and carried
  over to whatever is left of them (`RestKeeps`).
* `LibraryTypeCorrect`: `LibraryTypeOK`, with `LibraryInv` for the counter, which
  never falls below zero.

Only model-checked: all liveness properties, the liveness half of
`ImplementsQueue` included (out of the prover's reach); and `LookupMatches`, `TreeAgrees` and
`CreatablesFound` of `EntityTree`, whose operators are recursive.

Proofs that go through a queue from its first to its last message use
`Induction` of `GraphSync_proofs`, for a set of numbers, which follows from the
least element of its complement.

## What is left

Composition: `CableSession` with the full `PeerHandshake` instead of its
outcome, `GraphSync` with `EntityTree` for renames of whole subtrees on several
clients.  A broadcaster that leaves during a handshake, and clients that leave
while they have cables.  Local plugs that left and that the application adds to
a component again.  More than one application thread in `LibraryLifetime`.

## Not modelled

The websocket transport and its sessions (a second way into the same handlers,
over boost::beast) and the UDP graph transport (like the TCP one); the encoding
of messages (generated by flatbuffers) and the text form of URIs; plugin loading,
logging and file utilities; registration of adaptors and plain queries of the
public facade; what czmq and boost do inside, but for the effects the code
relies on; components of one name under several performers in `CableSession`
(a leaving component is listed under its bare name); the language bindings, the monitor and the example plugins.  A data race on a container is a choice
between finding and missing an entry; a corrupted container is not modelled.
