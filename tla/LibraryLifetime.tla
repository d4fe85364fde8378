--------------------------- MODULE LibraryLifetime ----------------------------
(***************************************************************************)
(* The life of the client library: init, calls of the public interface,    *)
(* destroy and init again, next to a stage server in the same process.     *)
(*                                                                         *)
(* One application thread makes every call, as the tests and the bindings  *)
(* do.  init and destroy are long: each is a script of steps between which *)
(* the threads of the library run.  These are the timer thread, the event  *)
(* thread of each transport, the actors that own the ZeroMQ sockets, the   *)
(* workers of the client transport's m_async_pool and the one thread of    *)
(* m_thread_pool that waits for a beacon.                                  *)
(*                                                                         *)
(* Actors and sockets are named by the names they are counted under.  The  *)
(* count is shared by all libraries of the process, and ZeroMQ is shut     *)
(* down when it falls to zero.                                             *)
(*                                                                         *)
(* join, leave and the heartbeat are modelled in detail in                 *)
(* ClientConnection, and the race of beacons and auto join in              *)
(* StagePresence; here they are what destroy has to stop.                  *)
(***************************************************************************)
EXTENDS Integers, Sequences

CONSTANTS
    Workers,       \* threads of m_async_pool
    App,           \* the application's thread
    MaxInits,      \* bound on the calls of init
    MaxFailures,   \* bound on sockets that cannot be created
    MaxQueue,      \* requests queued for the workers before a call adds one
    MaxBeats       \* bound on heartbeats sent

ASSUME LibraryAssumption ==
    /\ App \notin Workers
    /\ {MaxInits, MaxFailures, MaxQueue, MaxBeats} \subseteq Nat

Transports == {"client", "graph", "discovery", "router", "beacons"}
Handles == {"client_actor", "client_sock", "graph", "graphsocket_in", "graphsocket_out",
            "beacon_actor", "beacon",                                \* the client's
            "stage_router", "server_sock", "stage_actor", "stage_beacon"}
StageHandles == {"stage_router", "server_sock", "stage_actor", "stage_beacon"}

Requesters == Workers \union {App}
Idle == [kind |-> "none", at |-> "none"]

VARIABLES
    todo,      \* what is left of the call of init or destroy in progress
    lib,       \* the flags of ZstClient and of its transport: see LibraryTypeOK
    io,        \* the timers' io context: "ready" or "stopped"
    timer,     \* m_client_timer_thread
    events,    \* the event thread of each transport
    pool,      \* m_async_pool of the client transport: "open" or "joined"
    posted,    \* requests no worker has taken yet
    req,       \* the request each requester is blocked on
    waiter,    \* auto join: [at, promise, pool]
    heard,     \* the stage's beacon is in m_server_beacons
    open,      \* actors and sockets that exist
    refs,      \* s_total_ref_count
    zmq,       \* the ZeroMQ context of the process: "up" or "down"
    stage,     \* the stage server in this process: "new", "up" or "down"
    used       \* bounds: inits, failures and heartbeats so far

libraryVars == <<todo, lib, io, timer, events, pool, posted, req, waiter, heard, open, refs, zmq, stage, used>>

\* Groups of variables most actions leave alone.
requests == <<pool, posted, req>>
sockets == <<open, refs, zmq>>
threads == <<io, timer, events>>

LibraryInit ==
    /\ todo = <<>>
    /\ lib = [init |-> FALSE, ending |-> FALSE, destroyed |-> FALSE, connecting |-> FALSE,
              connected |-> FALSE, linked |-> FALSE, beat |-> FALSE]
    /\ io = "ready" /\ timer = "none"
    /\ events = [t \in Transports |-> "none"]
    /\ pool = "open" /\ posted = <<>>
    /\ req = [r \in Requesters |-> Idle]
    /\ waiter = [at |-> "none", promise |-> FALSE, pool |-> "open"]
    /\ heard = FALSE
    /\ open = {} /\ refs = 0 /\ zmq = "down"
    /\ stage = "new"
    /\ used = [inits |-> 0, failures |-> 0, beats |-> 0]

-----------------------------------------------------------------------------
(* Scripts.  A step is done by the application's thread; "at" is the       *)
(* transport whose init or destroy it belongs to.                          *)

Script(t, ops) == [i \in 1..Len(ops) |-> [at |-> t, do |-> ops[i][1], on |-> ops[i][2]]]

\* ZstActor::init counts the actor, whose loop does not run yet.
ActorInit(actor) == <<"ref", actor>>

\* ZstZMQClientTransport: the actor is counted before the socket exists,
\* and the socket after the actor's loop has started.
ClientTransportInit ==
    Script("client", << <<"spawn", "client">>, ActorInit("client_actor"), <<"try", "client_sock">>,
                        <<"loop", "client_actor">>, <<"ref", "client_sock">> >>)
ClientTransportDestroy ==
    Script("client", << <<"stop", "client_actor">>, <<"close", "client_sock">>,
                        <<"interrupt", "client">>, <<"join", "client">>, <<"drain", "client">> >>)

\* ZstGraphTransport with ZstTCPGraphTransport's two sockets.
InitGraphSockets == << <<"open", "graphsocket_in">>, <<"open", "graphsocket_out">> >>
AttachGraphSockets == << <<"ref", "graphsocket_in">>, <<"ref", "graphsocket_out">> >>
GraphTransportInit ==
    Script("graph", << <<"spawn", "graph">>, ActorInit("graph") >> \o InitGraphSockets
                    \o AttachGraphSockets \o << <<"loop", "graph">> >>)
DestroyGraphSockets == << <<"close", "graphsocket_in">>, <<"close", "graphsocket_out">> >>
GraphTransportDestroy ==
    Script("graph", << <<"stop", "graph">> >> \o DestroyGraphSockets
                    \o << <<"interrupt", "graph">>, <<"join", "graph">> >>)

\* ZstServiceDiscoveryTransport, which both the client and the stage have.
DiscoveryInit(t, actor, beacon) ==
    Script(t, << <<"spawn", t>>, <<"iface", t>>, ActorInit(actor), <<"try", beacon>>,
                 <<"ref", beacon>>, <<"loop", actor>> >>)
DiscoveryDestroy(t, actor, beacon) ==
    Script(t, << <<"stop", actor>>, <<"close", beacon>>, <<"interrupt", t>>, <<"join", t>> >>)

\* ZstZMQServerTransport opens its socket first.
ServerTransportInit ==
    Script("router", << <<"spawn", "router">>, <<"open", "server_sock">>, ActorInit("stage_router"),
                        <<"loop", "stage_router">>, <<"ref", "server_sock">> >>)
ServerTransportDestroy ==
    Script("router", << <<"stop", "stage_router">>, <<"close", "server_sock">>,
                        <<"interrupt", "router">>, <<"join", "router">> >>)

\* init_client starts the timer thread before it restarts the io context.
InitClientScript ==
    Script("lib", << <<"timer", "lib">>, <<"restart", "lib">> >>)
    \o ClientTransportInit \o GraphTransportInit
    \o DiscoveryInit("discovery", "beacon_actor", "beacon")
    \o Script("lib", << <<"complete", "lib">> >>)

\* The mutant leaves the io context running.
DestroyScript_KeepsIO ==
    Script("lib", << <<"leave", "lib">>, <<"ending", "lib">>, <<"jointimer", "lib">> >>)
    \o DiscoveryDestroy("discovery", "beacon_actor", "beacon")
    \o ClientTransportDestroy \o GraphTransportDestroy
    \o Script("lib", << <<"joinpool", "lib">>, <<"destroyed", "lib">> >>)

DestroyScript ==
    Script("lib", << <<"leave", "lib">>, <<"ending", "lib">>, <<"stopio", "lib">>, <<"jointimer", "lib">> >>)
    \o DiscoveryDestroy("discovery", "beacon_actor", "beacon")
    \o ClientTransportDestroy \o GraphTransportDestroy
    \o Script("lib", << <<"joinpool", "lib">>, <<"destroyed", "lib">> >>)

StageInitScript == ServerTransportInit \o DiscoveryInit("beacons", "stage_actor", "stage_beacon")
StageDestroyScript == DiscoveryDestroy("beacons", "stage_actor", "stage_beacon") \o ServerTransportDestroy

-----------------------------------------------------------------------------
(* The steps of the scripts *)

Doing(op) == todo # <<>> /\ Head(todo).do = op
It == Head(todo).on
Advance == todo' = Tail(todo)
\* An early return: what is left of this transport's init is skipped.
Return ==
    \E n \in 1..Len(todo) :
        /\ \A i \in 1..n : todo[i].at = Head(todo).at
        /\ n < Len(todo) => todo[n + 1].at # Head(todo).at
        /\ todo' = SubSeq(todo, n + 1, Len(todo))

RefUnchanged == UNCHANGED <<lib, threads, requests, waiter, heard, stage>>

\* zst_zmq_inc_ref_count.
IncRefCount ==
    /\ Doing("ref") /\ Advance
    /\ refs' = refs + 1
    /\ RefUnchanged /\ UNCHANGED <<open, zmq, used>>

\* zst_zmq_dec_ref_count.
DecRefCount ==
    /\ refs' = refs - 1
    /\ zmq' = IF refs' <= 0 THEN "down" ELSE zmq

\* zsock_new of a socket the code takes for granted; czmq starts ZeroMQ when needed.
OpenSocket ==
    /\ Doing("open") /\ Advance
    /\ open' = open \union {It} /\ zmq' = "up"
    /\ RefUnchanged /\ UNCHANGED <<refs, used>>

\* The client's dealer socket and the beacon may fail: init returns, and the
\* actor stays counted although its loop never starts.
TrySocket ==
    /\ Doing("try") /\ zmq' = "up"
    /\ \/ Advance /\ open' = open \union {It} /\ UNCHANGED used
       \/ /\ used.failures < MaxFailures
          /\ used' = [used EXCEPT !.failures = @ + 1]
          /\ Return /\ UNCHANGED open
    /\ RefUnchanged /\ UNCHANGED refs

\* No interface to send beacons on.
FindInterface ==
    /\ Doing("iface") /\ (Advance \/ Return)
    /\ RefUnchanged /\ UNCHANGED <<sockets, used>>

\* ZstActor::start_loop.
StartLoop ==
    /\ Doing("loop") /\ Advance
    /\ open' = open \union {It}
    /\ RefUnchanged /\ UNCHANGED <<refs, zmq, used>>

\* The mutant forgets that a loop that never ran is not counted by itself.
StopLoop_Always ==
    /\ Doing("stop") /\ Advance
    /\ \A r \in Requesters : req[r].at # "piped"
    /\ open' = open \ {It} /\ DecRefCount
    /\ RefUnchanged /\ UNCHANGED used

\* ZstActor::stop_loop.  zactor_destroy waits until the actor has read $TERM
\* from its pipe, behind the messages that were sent to it before.
StopLoop ==
    /\ Doing("stop") /\ Advance
    /\ It = "client_actor" => \A r \in Requesters : req[r].at # "piped"
    /\ \/ It \in open /\ open' = open \ {It} /\ DecRefCount
       \/ It \notin open /\ UNCHANGED sockets
    /\ RefUnchanged /\ UNCHANGED used

\* zsock_destroy and zactor_destroy of a socket that exists.
CloseSocket ==
    /\ Doing("close") /\ Advance
    /\ \/ It \in open /\ open' = open \ {It} /\ DecRefCount
       \/ It \notin open /\ UNCHANGED sockets
    /\ RefUnchanged /\ UNCHANGED used

\* ZstTransportLayerBase::init.
SpawnEvents ==
    /\ Doing("spawn") /\ Advance
    /\ events' = [events EXCEPT ![It] = "run"]
    /\ UNCHANGED <<lib, io, timer, requests, waiter, heard, sockets, stage, used>>

\* ZstTransportLayerBase::destroy: interrupt, join, join the pool.
InterruptEvents ==
    /\ Doing("interrupt") /\ Advance
    /\ events' = [events EXCEPT ![It] = IF @ = "run" THEN "interrupted" ELSE @]
    /\ UNCHANGED <<lib, io, timer, requests, waiter, heard, sockets, stage, used>>

JoinEvents ==
    /\ Doing("join") /\ Advance
    /\ events[It] = "none"
    /\ UNCHANGED <<lib, threads, requests, waiter, heard, sockets, stage, used>>

DrainPool ==
    /\ Doing("drain") /\ Advance
    /\ pool = "open" => posted = <<>> /\ \A w \in Workers : req[w] = Idle
    /\ pool' = "joined"
    /\ UNCHANGED <<lib, threads, posted, req, waiter, heard, sockets, stage, used>>

\* The timer thread and its io context.
SpawnTimer ==
    /\ Doing("timer") /\ Advance
    /\ timer' = "starting"
    /\ UNCHANGED <<lib, io, events, requests, waiter, heard, sockets, stage, used>>

RestartIO ==
    /\ Doing("restart") /\ Advance
    /\ io' = "ready"
    /\ UNCHANGED <<lib, timer, events, requests, waiter, heard, sockets, stage, used>>

StopIO ==
    /\ Doing("stopio") /\ Advance
    /\ io' = "stopped"
    /\ UNCHANGED <<lib, timer, events, requests, waiter, heard, sockets, stage, used>>

JoinTimer ==
    /\ Doing("jointimer") /\ Advance
    /\ timer = "none"
    /\ UNCHANGED <<lib, threads, requests, waiter, heard, sockets, stage, used>>

\* m_thread_pool.join() and stop().
JoinThreadPool ==
    /\ Doing("joinpool") /\ Advance
    /\ waiter.pool = "open" => waiter.at = "none"
    /\ waiter' = [waiter EXCEPT !.pool = "joined"]
    /\ UNCHANGED <<lib, threads, requests, heard, sockets, stage, used>>

\* leave_stage_complete: nothing when the client is not connected; the
\* transport is unlinked only while it has its socket.
LeaveStageComplete(l) ==
    IF ~l.connected THEN l
    ELSE [l EXCEPT !.connected = FALSE, !.connecting = FALSE, !.beat = FALSE,
                   !.linked = @ /\ "client_sock" \notin open]

LibFlags ==
    /\ \/ Doing("leave") /\ lib' = LeaveStageComplete(lib)
       \/ Doing("ending") /\ lib' = [lib EXCEPT !.ending = TRUE]
       \/ Doing("destroyed") /\ lib' = [lib EXCEPT !.ending = FALSE, !.destroyed = TRUE]
       \/ Doing("complete") /\ lib' = [lib EXCEPT !.init = TRUE]
    /\ Advance
    /\ UNCHANGED <<threads, requests, waiter, heard, sockets, stage, used>>

ScriptStep ==
    \/ IncRefCount \/ OpenSocket \/ TrySocket \/ FindInterface \/ StartLoop
    \/ StopLoop \/ CloseSocket \/ SpawnEvents \/ InterruptEvents \/ JoinEvents \/ DrainPool
    \/ SpawnTimer \/ RestartIO \/ StopIO \/ JoinTimer \/ JoinThreadPool \/ LibFlags

-----------------------------------------------------------------------------
(* Requests to the stage *)

\* send_message_impl hands the message to the actor, if there is one.
Begun(kind) == [kind |-> kind, at |-> IF "client_actor" \in open THEN "piped" ELSE "lost"]

\* begin_send_message: nothing at all while the transport is not linked.
BeginSend(l, kind, behaviour) ==
    CASE ~l.linked -> UNCHANGED <<posted, req>>
      [] l.linked /\ behaviour = "async" -> posted' = Append(posted, kind) /\ UNCHANGED req
      [] l.linked /\ behaviour = "sync" -> req' = [req EXCEPT ![App] = Begun(kind)] /\ UNCHANGED posted

\* A worker of m_async_pool runs blocking_send.
TakeRequest(w) ==
    /\ pool = "open" /\ posted # <<>> /\ req[w] = Idle
    /\ req' = [req EXCEPT ![w] = Begun(Head(posted))]
    /\ posted' = Tail(posted)
    /\ UNCHANGED <<todo, lib, threads, pool, waiter, heard, sockets, stage, used>>

Moves(r, from, to) ==
    /\ req[r].at = from
    /\ req' = [req EXCEPT ![r].at = to]
    /\ UNCHANGED <<todo, lib, threads, pool, posted, waiter, heard, sockets, stage, used>>

\* The actor reads its pipe, and later the stage's reply from the socket.
HandleActorPipe(r) == "client_actor" \in open /\ Moves(r, "piped", "wired")
SockRecv(r) == {"client_actor", "client_sock"} \subseteq open /\ Moves(r, "wired", "inbox")

\* The event thread keeps the promise of the request.
Dispatch(r) == events["client"] # "none" /\ Moves(r, "inbox", "ready")

\* The callback of a request, with its reply or without one in time: a join
\* goes on with the synchronisation, a lost heartbeat leaves the stage.
Respond(r, ok) ==
    /\ req[r] # Idle
    /\ ok => req[r].at = "ready"
    /\ LET kind == req[r].kind
           l == CASE kind = "join" /\ ok ->
                       [lib EXCEPT !.connecting = FALSE, !.connected = TRUE, !.beat = TRUE]
                  [] kind = "beat" /\ ~ok -> LeaveStageComplete(lib)
                  [] OTHER -> lib
           syncs == kind = "join" /\ ok /\ l.linked
       IN  /\ lib' = l
           /\ posted' = IF syncs /\ r # App THEN Append(posted, "ask") ELSE posted
           /\ req' = [req EXCEPT ![r] = IF syncs /\ r = App THEN Begun("ask") ELSE Idle]
    /\ UNCHANGED <<todo, threads, pool, waiter, heard, sockets, stage, used>>

-----------------------------------------------------------------------------
(* The other threads *)

\* boost::thread calls the io loop, which returns at once when the context
\* is stopped; on a second init it is, until the application restarts it.
TimerRuns ==
    /\ timer = "starting"
    /\ timer' = IF io = "stopped" THEN "none" ELSE "running"
    /\ UNCHANGED <<todo, lib, io, events, requests, waiter, heard, sockets, stage, used>>

TimerReturns ==
    /\ timer = "running" /\ io = "stopped"
    /\ timer' = "none"
    /\ UNCHANGED <<todo, lib, io, events, requests, waiter, heard, sockets, stage, used>>

Heartbeat ==
    /\ timer = "running" /\ io = "ready" /\ lib.beat /\ lib.connected
    /\ Len(posted) < MaxQueue /\ used.beats < MaxBeats
    /\ used' = [used EXCEPT !.beats = @ + 1]
    /\ BeginSend(lib, "beat", "async")
    /\ UNCHANGED <<todo, lib, threads, pool, waiter, heard, sockets, stage>>

\* event_loop leaves at its next interruption point.
EventLoopEnds(t) ==
    /\ events[t] = "interrupted"
    /\ events' = [events EXCEPT ![t] = "none"]
    /\ UNCHANGED <<todo, lib, io, timer, requests, waiter, heard, sockets, stage, used>>

\* The stage says that it quits.
StageQuits ==
    /\ events["client"] # "none" /\ lib.connected
    /\ lib' = LeaveStageComplete(lib)
    /\ UNCHANGED <<todo, threads, requests, waiter, heard, sockets, stage, used>>

\* The first beacon of the stage keeps the promise auto join waits for.
HearBeacon ==
    /\ events["discovery"] # "none" /\ {"beacon", "beacon_actor"} \subseteq open /\ ~heard
    /\ heard' = TRUE
    /\ waiter' = [waiter EXCEPT !.promise = @ \/ (waiter.at \in {"posted", "waiting"} /\ ~lib.connected)]
    /\ UNCHANGED <<todo, lib, threads, requests, sockets, stage, used>>

\* join_stage: the test, and then the connection and the request.
MayJoin == lib.init /\ ~lib.connecting /\ ~lib.connected
JoinStage(behaviour) ==
    \E ok \in BOOLEAN :
        LET l == [lib EXCEPT !.connecting = TRUE,
                             !.linked = @ \/ (ok /\ "client_sock" \in open)]
        IN  lib' = l /\ BeginSend(l, "join", behaviour)

Wait(from, to) ==
    /\ waiter.at = from
    /\ waiter' = [waiter EXCEPT !.at = to, !.promise = @ /\ to # "none"]

\* join_on_beacon in m_thread_pool; a joined pool runs nothing.
JoinOnBeacon ==
    /\ \/ waiter.pool = "open" /\ Wait("posted", "waiting")
       \/ waiter.promise /\ Wait("waiting", "woken")
       \/ ~waiter.promise /\ Wait("waiting", "none")
       \/ MayJoin /\ Wait("woken", "joins")
       \/ ~MayJoin /\ Wait("woken", "none")
    /\ UNCHANGED <<todo, lib, threads, requests, heard, sockets, stage, used>>
JoinFromPool ==
    /\ Wait("joins", "none") /\ JoinStage("async")
    /\ UNCHANGED <<todo, threads, pool, heard, sockets, stage, used>>

-----------------------------------------------------------------------------
(* The public interface *)

Called == todo = <<>> /\ req[App] = Idle
LibraryInitGuard == lib.init
LibraryConnectedGuard == LibraryInitGuard /\ lib.connected
Room == Len(posted) < MaxQueue

InitClient ==
    /\ Called /\ ~lib.ending /\ ~lib.init /\ used.inits < MaxInits
    /\ used' = [used EXCEPT !.inits = @ + 1]
    /\ lib' = [lib EXCEPT !.destroyed = FALSE]
    /\ todo' = InitClientScript
    /\ UNCHANGED <<threads, requests, waiter, heard, sockets, stage>>

\* ZstClient::destroy, by the application or by the destructor of a library
\* that was never initialised.
Destroy ==
    /\ Called /\ ~lib.ending /\ ~lib.destroyed
    /\ lib' = [lib EXCEPT !.init = FALSE]
    /\ todo' = DestroyScript
    /\ UNCHANGED <<threads, requests, waiter, heard, sockets, stage, used>>

Join(behaviour) ==
    /\ Called /\ LibraryInitGuard /\ MayJoin /\ Room
    /\ JoinStage(behaviour)
    /\ UNCHANGED <<todo, threads, pool, waiter, heard, sockets, stage, used>>

JoinByName(behaviour) == heard /\ Join(behaviour)

AutoJoinByName ==
    \/ heard /\ Join("async")
    \/ /\ Called /\ LibraryInitGuard /\ ~heard /\ waiter.at = "none"
       /\ waiter' = [waiter EXCEPT !.at = "posted"]
       /\ UNCHANGED <<todo, lib, threads, requests, heard, sockets, stage, used>>

Leave ==
    /\ Called /\ LibraryInitGuard
    /\ lib' = LeaveStageComplete([lib EXCEPT !.connecting = @ /\ ~lib.connected])
    /\ UNCHANGED <<todo, threads, requests, waiter, heard, sockets, stage, used>>

\* Calls that ask the stage: deactivate and observe an entity, connect and
\* destroy a cable, activate a registered factory.
EntityCall(behaviour) ==
    /\ Called /\ LibraryConnectedGuard /\ Room
    /\ BeginSend(lib, "ask", behaviour)
    /\ UNCHANGED <<todo, lib, threads, pool, waiter, heard, sockets, stage, used>>
CableCall(behaviour) == EntityCall(behaviour)
RegisterFactory(behaviour) == EntityCall(behaviour)

StageInit ==
    /\ Called /\ stage = "new"
    /\ stage' = "up" /\ todo' = StageInitScript
    /\ UNCHANGED <<lib, threads, requests, waiter, heard, sockets, used>>
StageDestroy ==
    /\ Called /\ stage = "up"
    /\ stage' = "down" /\ todo' = StageDestroyScript
    /\ UNCHANGED <<lib, threads, requests, waiter, heard, sockets, used>>

-----------------------------------------------------------------------------
LibraryThread ==
    \/ ScriptStep
    \/ \E w \in Workers : TakeRequest(w)
    \/ \E r \in Requesters : HandleActorPipe(r) \/ Dispatch(r) \/ Respond(r, FALSE) \/ Respond(r, TRUE)
    \/ TimerRuns \/ TimerReturns \/ JoinOnBeacon \/ JoinFromPool
    \/ \E t \in Transports : EventLoopEnds(t)

LibraryNext ==
    \/ LibraryThread
    \/ \E r \in Requesters : SockRecv(r)
    \/ Heartbeat \/ StageQuits \/ HearBeacon
    \/ InitClient \/ Destroy \/ AutoJoinByName \/ Leave \/ StageInit \/ StageDestroy
    \/ \E b \in {"sync", "async"} :
           Join(b) \/ JoinByName(b) \/ EntityCall(b) \/ CableCall(b) \/ RegisterFactory(b)

LibrarySpec == LibraryInit /\ [][LibraryNext]_libraryVars

\* A thread that can run does.  blocking_send and join_on_beacon wait for at
\* most STAGE_TIMEOUT; the stage, its beacons and the application's calls owe
\* nothing.
LibraryFairness ==
    /\ WF_libraryVars(ScriptStep)
    /\ \A w \in Workers : WF_libraryVars(TakeRequest(w))
    /\ \A r \in Requesters : WF_libraryVars(HandleActorPipe(r)) /\ WF_libraryVars(Respond(r, FALSE))
    /\ WF_libraryVars(TimerRuns) /\ WF_libraryVars(TimerReturns)
    /\ WF_libraryVars(JoinOnBeacon) /\ WF_libraryVars(JoinFromPool)
    /\ \A t \in Transports : WF_libraryVars(EventLoopEnds(t))

LibraryFairSpec == LibrarySpec /\ LibraryFairness

-----------------------------------------------------------------------------
(* Properties *)

Flags == [{"init", "ending", "destroyed", "connecting", "connected", "linked", "beat"} -> BOOLEAN]
Kinds == {"join", "ask", "beat"}
RequestStates == [kind : Kinds \union {"none"}, at : {"none", "piped", "lost", "wired", "inbox", "ready"}]

\* Types: the flags of the library, its threads, requests and handles.
LibraryTypeOK ==
    /\ lib \in Flags
    /\ io \in {"ready", "stopped"} /\ timer \in {"none", "starting", "running"}
    /\ events \in [Transports -> {"none", "run", "interrupted"}]
    /\ pool \in {"open", "joined"}
    /\ posted \in Seq(Kinds) /\ req \in [Requesters -> RequestStates]
    /\ waiter \in [at : {"none", "posted", "waiting", "woken", "joins"}, promise : BOOLEAN,
                   pool : {"open", "joined"}]
    /\ heard \in BOOLEAN /\ open \subseteq Handles /\ refs \in Nat
    /\ zmq \in {"up", "down"} /\ stage \in {"new", "up", "down"}
    /\ used \in [{"inits", "failures", "beats"} -> Nat]

\* ZeroMQ is shut down (zst_zmq_dec_ref_count) only when no actor and no
\* socket of the process is left, whatever the order in which a client and a
\* stage of the process come and go, and whichever socket failed to open.
UnusedAtShutdown == [][zmq = "up" /\ zmq' = "down" => open' = {}]_libraryVars

\* Nothing of the client library runs any more.
Quiet ==
    /\ timer = "none"
    /\ \A t \in {"client", "graph", "discovery"} : events[t] = "none"
    /\ \A r \in Requesters : req[r] = Idle
    /\ waiter.pool = "joined"
    /\ open \subseteq StageHandles

\* destroy returns, whatever the threads of the library were doing, and has
\* stopped all of them.
DestroyEnds == lib.ending ~> (lib.destroyed /\ Quiet)
===============================================================================
