---------------------------- MODULE PeerHandshake ----------------------------
(***************************************************************************)
(* The handshake by which the stage connects two performers: a broadcaster *)
(* (connect_clients' output_client) and a listener (input_client).         *)
(*                                                                         *)
(* A request, to create a cable or to observe an entity, makes the stage   *)
(* tell the listener to listen and the broadcaster to start.  The listener *)
(* connects its SUB socket to the broadcaster's PUB socket and remembers   *)
(* the ID of the listen message; the broadcaster publishes a handshake     *)
(* message again and again on a timer, as whatever it publishes before the *)
(* sockets are connected is lost.  The first handshake that is heard makes *)
(* the listener answer the listen message.  The stage then records the     *)
(* pair, tells the broadcaster to stop, publishes the cable and answers    *)
(* the request.                                                            *)
(*                                                                         *)
(* The threads: on the stage the transport's event thread (handler), a     *)
(* pool thread for each listen message, and the event loop that reaps a    *)
(* performer that has left; on the listener its stage transport and its    *)
(* graph transport; on the broadcaster its stage transport, its timer      *)
(* thread and the application that calls process_events.  The pairs of     *)
(* performers do not share state, so one pair is modelled.  The listener   *)
(* may leave and another process may join under its name.                  *)
(***************************************************************************)
EXTENDS Naturals, Sequences

CONSTANTS
  Requests,     \* requests that need this pair connected
  Observes,     \* those of them that are observe requests; the rest are cables
  MaxJoins,     \* bound: processes that join under the listener's name
  MaxFlight,    \* bound: handshake messages kept in the listener's socket
  None          \* no request, no timer

ASSUME HandshakeAssumption ==
  /\ Observes \subseteq Requests
  /\ MaxJoins \in Nat \ {0}
  /\ MaxFlight \in Nat \ {0}
  /\ None \notin Requests

VARIABLES
  \* The stage.
  process,      \* the process that joined last under the listener's name
  life,         \* the life of the stage's proxy of it
  arriving,     \* its arriving event is deferred to the event loop
  subscribed,   \* the listener's URI is in m_connected_subscriber_peers
  request,      \* where each request is
  target,       \* the process whose proxy each request points to
  handler,      \* what the event thread is doing
  \* Messages under way.
  toListener,   \* listen messages, named by the request
  toBroadcaster,\* start and stop messages, news of the listener
  toStage,      \* answers to listen messages
  flight,       \* handshake messages that reached the listener's SUB socket
  \* The listener.
  pending,      \* m_pending_peer_connections[broadcaster]
  link,         \* SUB socket of each process: how far it ever got
  hearing,      \* connection_handshake_handler has answered, not yet erased
  \* The broadcaster.
  known,        \* its proxy of the listener, as find_entity sees it
  timer,        \* m_connection_timers[listener], named by the start message
  waits,        \* async_waits under way on each timer
  due,          \* calls of send_connection_broadcast that are due, by timer
  rearm,        \* the timer the running handler has found valid
  stopping,     \* the stop handler has cancelled the timer, not yet erased it
  fault         \* what memory was misused, or "none"

stageVars == <<process, life, arriving, subscribed, request, target, handler>>
netVars == <<toListener, toBroadcaster, toStage, flight>>
listenerVars == <<pending, link, hearing>>
broadcasterVars == <<known, timer, waits, due, rearm, stopping>>
vars == <<stageVars, netVars, listenerVars, broadcasterVars, fault>>

Processes == 1..MaxJoins
RequestAt == {"new", "refused", "connecting", "silent", "posted", "waiting",
              "answered", "failed", "done"}
News == [kind : {"start", "stop"}, req : Requests]
          \union [kind : {"leave", "join"}, req : {None}]

\* Every variable has its type.
TypeOK ==
  /\ process \in Processes
  /\ life \in {"joined", "leaving", "gone"}
  /\ arriving \in BOOLEAN
  /\ subscribed \in BOOLEAN
  /\ request \in [Requests -> RequestAt]
  /\ target \in [Requests -> Processes]
  /\ handler \in [at : {"idle", "connect", "start"},
                  req : Requests \union {None}]
  /\ toListener \in Seq(Requests)
  /\ toBroadcaster \in Seq(News)
  /\ toStage \in SUBSET Requests
  /\ flight \in 0..MaxFlight
  /\ pending \in Requests \union {None}
  /\ link \in [Processes -> {"none", "connecting", "up"}]
  /\ hearing \in BOOLEAN
  /\ known \in {"yes", "leaving", "no"}
  /\ timer \in Requests \union {None}
  /\ waits \in [Requests -> Nat]
  /\ due \in [Requests -> Nat]
  /\ rearm \in Requests \union {None}
  /\ stopping \in BOOLEAN
  /\ fault \in {"none", "performer", "null", "timer"}

\* Two performers that know each other and are not connected.
Init ==
  /\ process = 1
  /\ life = "joined"
  /\ arriving = FALSE
  /\ subscribed = FALSE
  /\ request = [r \in Requests |-> "new"]
  /\ target = [r \in Requests |-> 1]
  /\ handler = [at |-> "idle", req |-> None]
  /\ toListener = <<>>
  /\ toBroadcaster = <<>>
  /\ toStage = {}
  /\ flight = 0
  /\ pending = None
  /\ link = [p \in Processes |-> "none"]
  /\ hearing = FALSE
  /\ known = "yes"
  /\ timer = None
  /\ waits = [r \in Requests |-> 0]
  /\ due = [r \in Requests |-> 0]
  /\ rearm = None
  /\ stopping = FALSE
  /\ fault = "none"

\* The stage's proxy of process p has not been freed.
Live(p) == process = p /\ life # "gone"

\* No memory was misused so far.
Running == fault = "none"

\* What a message to the broadcaster says.
Tell(kind, r) == Append(toBroadcaster, [kind |-> kind, req |-> r])

At(r, place) == request' = [request EXCEPT ![r] = place]

\* A step that touched freed memory, or a null pointer: what follows is
\* undefined and not modelled.
Misuse(what) ==
  /\ fault' = what
  /\ UNCHANGED <<stageVars, netVars, listenerVars, broadcasterVars>>

-----------------------------------------------------------------------------
(* The stage: event thread *)

\* create_cable_handler up to its call of connect_clients: the plugs of a
\* listener that is gone are not found, otherwise the handler goes on with
\* the listener's proxy.  Requests are for different cables, which their plugs
\* accept; the cables themselves are not modelled here.
HandleCable(r) ==
  /\ Running
  /\ handler.at = "idle"
  /\ r \in Requests \ Observes
  /\ request[r] = "new"
  /\ \/ /\ life = "gone"
        /\ At(r, "refused")
        /\ UNCHANGED <<target, handler>>
     \/ /\ life # "gone"
        /\ At(r, "connecting")
        /\ target' = [target EXCEPT ![r] = process]
        /\ handler' = [at |-> "connect", req |-> r]
  /\ UNCHANGED <<process, life, arriving, subscribed, netVars, listenerVars,
                 broadcasterVars, fault>>

\* observe_entity_handler, whose sender is the listener: refused when the
\* pair is on record, otherwise on to connect_clients.
HandleObserve(r) ==
  /\ Running
  /\ handler.at = "idle"
  /\ r \in Observes
  /\ request[r] = "new"
  /\ life = "joined"
  /\ \/ /\ subscribed
        /\ At(r, "refused")
        /\ UNCHANGED <<target, handler>>
     \/ /\ ~subscribed
        /\ At(r, "connecting")
        /\ target' = [target EXCEPT ![r] = process]
        /\ handler' = [at |-> "connect", req |-> r]
  /\ UNCHANGED <<process, life, arriving, subscribed, netVars, listenerVars,
                 broadcasterVars, fault>>

\* The first half of connect_clients: a pair on record needs no handshake and
\* the function returns, the request's callback uncalled; otherwise the listen
\* message is handed to the transport's thread pool.
ConnectClients ==
  LET r == handler.req IN
  /\ Running
  /\ handler.at = "connect"
  /\ IF ~Live(target[r]) THEN Misuse("performer")
     ELSE
       /\ \/ /\ subscribed
             /\ At(r, "silent")
             /\ handler' = [at |-> "idle", req |-> None]
          \/ /\ ~subscribed
             /\ At(r, "posted")
             /\ handler' = [at |-> "start", req |-> r]
       /\ UNCHANGED <<process, life, arriving, target, subscribed, netVars,
                      listenerVars, broadcasterVars, fault>>

\* Its second half: the start message goes out from the event thread.
SendStart ==
  LET r == handler.req IN
  /\ Running
  /\ handler.at = "start"
  /\ IF ~Live(target[r]) THEN Misuse("performer")
     ELSE
       /\ toBroadcaster' = Tell("start", r)
       /\ handler' = [at |-> "idle", req |-> None]
       /\ UNCHANGED <<process, life, arriving, target, subscribed, request,
                      toListener, toStage, flight, listenerVars,
                      broadcasterVars, fault>>

\* An answer to a listen message resolves the promise of its ID; without a
\* promise it is dropped.
ReceiveAnswer(r) ==
  /\ Running
  /\ handler.at = "idle"
  /\ r \in toStage
  /\ toStage' = toStage \ {r}
  /\ \/ /\ request[r] = "waiting"
        /\ At(r, "answered")
     \/ /\ request[r] # "waiting"
        /\ UNCHANGED request
  /\ UNCHANGED <<process, life, arriving, target, subscribed, handler,
                 toListener, toBroadcaster, flight, listenerVars,
                 broadcasterVars, fault>>

-----------------------------------------------------------------------------
(* The stage: pool threads and event loop *)

\* A pool thread sends the listen message; the router drops it when the
\* process it is for has left.
SendListen(r) ==
  /\ Running
  /\ request[r] = "posted"
  /\ At(r, "waiting")
  /\ toListener' =
       IF process = target[r] /\ life = "joined"
       THEN Append(toListener, r) ELSE toListener
  /\ UNCHANGED <<process, life, arriving, target, subscribed, handler,
                 toBroadcaster, toStage, flight, listenerVars,
                 broadcasterVars, fault>>

\* The response callback of an answered listen message:
\* complete_client_connection records the listener's URI and tells the
\* broadcaster to stop, then the request's own callback publishes the cable
\* and answers OK.
CompleteConnection(r) ==
  /\ Running
  /\ request[r] = "answered"
  /\ IF ~Live(target[r]) THEN Misuse("performer")
     ELSE
       /\ subscribed' = TRUE
       /\ toBroadcaster' = Tell("stop", r)
       /\ At(r, "done")
       /\ UNCHANGED <<process, life, arriving, target, handler, toListener,
                      toStage, flight, listenerVars, broadcasterVars, fault>>

\* The response callback of a listen message nobody answered in STAGE_TIMEOUT:
\* verify_signal fails and nothing else is done.
ListenTimesOut(r) ==
  /\ Running
  /\ request[r] = "waiting"
  /\ At(r, "failed")
  /\ UNCHANGED <<process, life, arriving, target, subscribed, handler, netVars,
                 listenerVars, broadcasterVars, fault>>

\* The listener's process leaves and the stage takes its leave message, which
\* its earlier answers precede.  Messages to it are lost from now on.  Its URI
\* stays in the record of its broadcaster: nobody calls remove_subscriber.
ListenerLeaves ==
  /\ Running
  /\ handler.at = "idle"
  /\ life = "joined"
  /\ toStage = {}
  /\ life' = "leaving"
  /\ toBroadcaster' = Tell("leave", None)
  /\ toListener' = <<>>
  /\ flight' = 0
  /\ pending' = None
  /\ hearing' = FALSE
  /\ UNCHANGED <<process, arriving, subscribed, request, target, handler,
                 toStage, link, broadcasterVars, fault>>

\* The event loop reaps the proxy of a listener that has left.
StageReaps ==
  /\ Running
  /\ life = "leaving"
  /\ life' = "gone"
  /\ UNCHANGED <<process, arriving, subscribed, request, target, handler,
                 netVars, listenerVars, broadcasterVars, fault>>

\* create_client_handler: another process joins under the listener's name,
\* which must be free; its arriving event is deferred.  (While an older event
\* is deferred its process was reaped, which AnnounceJoin finds out.)
ListenerJoins ==
  /\ Running
  /\ handler.at = "idle"
  /\ life = "gone"
  /\ ~arriving
  /\ process < MaxJoins
  /\ process' = process + 1
  /\ life' = "joined"
  /\ arriving' = TRUE
  /\ UNCHANGED <<subscribed, request, target, handler, netVars, listenerVars,
                 broadcasterVars, fault>>

\* on_performer_arriving, in the event loop: the other performers are told.
AnnounceJoin ==
  /\ Running
  /\ arriving
  /\ IF life = "gone" THEN Misuse("performer")
     ELSE
       /\ toBroadcaster' = Tell("join", None)
       /\ arriving' = FALSE
       /\ UNCHANGED <<process, life, subscribed, request, target, handler,
                      toListener, toStage, flight, listenerVars,
                      broadcasterVars, fault>>

-----------------------------------------------------------------------------
(* The listener *)

\* Mutant: the listener answers when it is told to listen, not when it hears.
HearListen_AnswersAtOnce ==
  /\ Running
  /\ toListener # <<>>
  /\ pending' = None
  /\ toStage' = toStage \union {Head(toListener)}
  /\ link' = [link EXCEPT ![process] =
                IF @ = "none" THEN "connecting" ELSE @]
  /\ toListener' = Tail(toListener)
  /\ UNCHANGED <<stageVars, toBroadcaster, flight, hearing,
                 broadcasterVars, fault>>

\* listen_to_client_handler: remember the ID, replacing an older one, and
\* connect unless the address is connected already.
HearListen ==
  /\ Running
  /\ toListener # <<>>
  /\ pending' = Head(toListener)
  /\ link' = [link EXCEPT ![process] =
                IF @ = "none" THEN "connecting" ELSE @]
  /\ toListener' = Tail(toListener)
  /\ UNCHANGED <<stageVars, toBroadcaster, toStage, flight, hearing,
                 broadcasterVars, fault>>

\* ZeroMQ completes the connection; nothing published earlier is delivered.
LinkUp ==
  /\ Running
  /\ life = "joined"
  /\ link[process] = "connecting"
  /\ link' = [link EXCEPT ![process] = "up"]
  /\ UNCHANGED <<stageVars, netVars, pending, hearing, broadcasterVars, fault>>

\* Mutant: the entry is erased before the ID is read from it.
HearHandshake_EraseFirst ==
  /\ Running
  /\ ~hearing
  /\ flight > 0
  /\ flight' = flight - 1
  /\ pending' = None
  /\ hearing' = (pending # None)
  /\ UNCHANGED <<stageVars, toListener, toBroadcaster, toStage, link,
                 broadcasterVars, fault>>

\* connection_handshake_handler on the graph transport's thread: answer the
\* listen message that is pending, if one is.
HearHandshake ==
  /\ Running
  /\ ~hearing
  /\ flight > 0
  /\ flight' = flight - 1
  /\ \/ /\ pending = None
        /\ UNCHANGED <<toStage, hearing>>
     \/ /\ pending # None
        /\ toStage' = toStage \union {pending}
        /\ hearing' = TRUE
  /\ UNCHANGED <<stageVars, toListener, toBroadcaster, pending, link,
                 broadcasterVars, fault>>

\* ... and erase the entry under the broadcaster's URI, whatever it holds now.
HandshakeErase ==
  /\ Running
  /\ hearing
  /\ hearing' = FALSE
  /\ pending' = None
  /\ UNCHANGED <<stageVars, netVars, link, broadcasterVars, fault>>

-----------------------------------------------------------------------------
(* The broadcaster: messages from the stage *)

\* The stage's next message to the broadcaster, when its thread is free.
Hears(kind) ==
  /\ Running
  /\ ~stopping
  /\ toBroadcaster # <<>>
  /\ Head(toBroadcaster).kind = kind

\* All waits on timer t have ended: their handlers are due.
EndWaits(t) ==
  /\ due' = [due EXCEPT ![t] = @ + waits[t]]
  /\ waits' = [waits EXCEPT ![t] = 0]

\* start_connection_broadcast_handler: a timer is inserted unless there is
\* one, and a wait is begun on it.  The performer's URI is read before the
\* pointer is tested.
HearStart ==
  /\ Hears("start")
  /\ IF known = "no" THEN Misuse("null")
     ELSE LET t == IF timer = None THEN Head(toBroadcaster).req ELSE timer IN
       /\ timer' = t
       /\ waits' = [waits EXCEPT ![t] = @ + 1]
       /\ toBroadcaster' = Tail(toBroadcaster)
       /\ UNCHANGED <<stageVars, toListener, toStage, flight, listenerVars,
                      known, due, rearm, stopping, fault>>

\* stop_connection_broadcast_handler: cancelling ends the waits, and the
\* handlers run, as they take no error code.
HearStop ==
  /\ Hears("stop")
  /\ IF known = "no" THEN Misuse("null")
     ELSE
       /\ \/ /\ timer = None
             /\ UNCHANGED <<waits, due, stopping>>
          \/ /\ timer # None
             /\ EndWaits(timer)
             /\ stopping' = TRUE
       /\ toBroadcaster' = Tail(toBroadcaster)
       /\ UNCHANGED <<stageVars, toListener, toStage, flight, listenerVars,
                      known, timer, rearm, fault>>

\* ... and after its blocking wait it erases the timer, which ends the waits
\* begun meanwhile.
StopErase ==
  /\ Running
  /\ stopping
  /\ EndWaits(timer)
  /\ timer' = None
  /\ stopping' = FALSE
  /\ UNCHANGED <<stageVars, netVars, listenerVars, known, rearm, fault>>

\* client_leaving_handler: the proxy is on its way out and still found.
HearLeave ==
  /\ Hears("leave")
  /\ known' = IF known = "yes" THEN "leaving" ELSE known
  /\ toBroadcaster' = Tail(toBroadcaster)
  /\ UNCHANGED <<stageVars, toListener, toStage, flight, listenerVars,
                 timer, waits, due, rearm, stopping, fault>>

\* The application's process_events takes it out of the lookup.
Forget ==
  /\ Running
  /\ known = "leaving"
  /\ known' = "no"
  /\ UNCHANGED <<stageVars, netVars, listenerVars, timer, waits, due, rearm,
                 stopping, fault>>

\* create_proxy_entity: no new proxy while the old one is found.
HearJoin ==
  /\ Hears("join")
  /\ known' = IF known = "no" THEN "yes" ELSE known
  /\ toBroadcaster' = Tail(toBroadcaster)
  /\ UNCHANGED <<stageVars, toListener, toStage, flight, listenerVars,
                 timer, waits, due, rearm, stopping, fault>>

-----------------------------------------------------------------------------
(* The broadcaster: timer thread *)

TimerExpires ==
  /\ Running
  /\ timer # None
  /\ waits[timer] > 0
  /\ EndWaits(timer)
  /\ UNCHANGED <<stageVars, netVars, listenerVars, known, timer, rearm,
                 stopping, fault>>

\* Mutant: the handshake is published once.
SendHandshake_Once(t) ==
  /\ Running
  /\ rearm = None
  /\ due[t] > 0
  /\ due' = [due EXCEPT ![t] = @ - 1]
  /\ flight' = IF /\ life = "joined"
                  /\ link[process] = "up"
                  /\ flight < MaxFlight
               THEN flight + 1 ELSE flight
  /\ UNCHANGED <<stageVars, toListener, toBroadcaster, toStage, listenerVars,
                 known, timer, waits, rearm, stopping, fault>>

\* Mutant: the handler posts itself again without looking at the map.
SendHandshake_Forever(t) ==
  /\ Running
  /\ rearm = None
  /\ due[t] > 0
  /\ flight' = IF /\ life = "joined"
                  /\ link[process] = "up"
                  /\ flight < MaxFlight
               THEN flight + 1 ELSE flight
  /\ UNCHANGED <<stageVars, toListener, toBroadcaster, toStage, listenerVars,
                 broadcasterVars, fault>>

\* send_connection_broadcast publishes a handshake, which reaches a socket
\* that is connected, and looks for a timer under the listener's URI.
SendHandshake(t) ==
  /\ Running
  /\ rearm = None
  /\ due[t] > 0
  /\ due' = [due EXCEPT ![t] = @ - 1]
  /\ flight' = IF /\ life = "joined"
                  /\ link[process] = "up"
                  /\ flight < MaxFlight
               THEN flight + 1 ELSE flight
  /\ rearm' = IF timer # None THEN t ELSE None
  /\ UNCHANGED <<stageVars, toListener, toBroadcaster, toStage, listenerVars,
                 known, timer, waits, stopping, fault>>

\* Mutant: the expiry is set, the wait not begun.
LoopTimer_NoWait ==
  /\ Running
  /\ rearm # None
  /\ IF timer # rearm THEN Misuse("timer")
     ELSE
       /\ EndWaits(rearm)
       /\ rearm' = None
       /\ UNCHANGED <<stageVars, netVars, listenerVars, known, timer,
                      stopping, fault>>

\* If there was one the handler sets its own timer again.  expires_at ends
\* the other waits on that timer.
LoopTimer ==
  /\ Running
  /\ rearm # None
  /\ IF timer # rearm THEN Misuse("timer")
     ELSE
       /\ due' = [due EXCEPT ![rearm] = @ + waits[rearm]]
       /\ waits' = [waits EXCEPT ![rearm] = 1]
       /\ rearm' = None
       /\ UNCHANGED <<stageVars, netVars, listenerVars, known, timer,
                      stopping, fault>>

-----------------------------------------------------------------------------
(* The system *)

StageStep ==
  \/ \E r \in Requests : SendListen(r) \/ CompleteConnection(r)
  \/ \E r \in Requests : ReceiveAnswer(r)
  \/ ConnectClients
  \/ SendStart
  \/ StageReaps
  \/ AnnounceJoin

ListenerStep == HearListen \/ LinkUp \/ HearHandshake \/ HandshakeErase

BroadcasterStep ==
  \/ HearStart \/ HearStop \/ StopErase \/ HearLeave \/ Forget \/ HearJoin
  \/ TimerExpires
  \/ \E t \in Requests : SendHandshake(t)
  \/ LoopTimer

Environment ==
  \/ \E r \in Requests : HandleCable(r) \/ HandleObserve(r)
  \/ \E r \in Requests : ListenTimesOut(r)
  \/ ListenerLeaves
  \/ ListenerJoins

\* Nothing is said of a program that has misused memory.
Stopped == ~Running /\ UNCHANGED vars

Next == StageStep \/ ListenerStep \/ BroadcasterStep \/ Environment \/ Stopped

Spec == Init /\ [][Next]_vars

\* Each thread goes on, sockets connect and timers expire.  Nobody has to make
\* a request, leave or join, and a listen message need not time out.
FairSpec ==
  /\ Spec
  /\ \A r \in Requests : WF_vars(SendListen(r) \/ CompleteConnection(r))
  /\ WF_vars(ConnectClients \/ SendStart \/ \E r \in Requests : ReceiveAnswer(r))
  /\ WF_vars(HearListen)
  /\ WF_vars(LinkUp)
  /\ WF_vars(HearHandshake \/ HandshakeErase)
  /\ WF_vars(HearStart \/ HearStop \/ HearLeave \/ HearJoin \/ StopErase)
  /\ WF_vars(TimerExpires)
  /\ WF_vars(LoopTimer \/ \E t \in Requests : SendHandshake(t))

-----------------------------------------------------------------------------
(* Properties *)

\* A request is confirmed, its cable published and its requester answered OK,
\* only when the process it was made for has really been connected to the
\* broadcaster (connect_clients answers on the listener's word only).
ConfirmedIsHeard ==
  \A r \in Requests :
    request[r] = "done" => link[target[r]] = "up"

\* A listen message that waits for its answer is not forgotten while the
\* listener stays: it is on its way, pending at the listener, or its answer
\* is on its way; only another request of the pair can take its place.
ListenNotForgotten ==
  \A r \in Requests :
    /\ request[r] = "waiting"
    /\ process = target[r] /\ life = "joined"
    => \/ \E i \in 1..Len(toListener) : toListener[i] = r
       \/ pending = r
       \/ r \in toStage
       \/ \E q \in Requests \ {r} : request[q] \notin {"new", "refused"}

\* A timer in the map keeps the broadcast going: a wait is under way, a
\* handler is due or one is about to set it again.
BroadcastGoesOn ==
  timer # None /\ ~stopping =>
    waits[timer] > 0 \/ due[timer] > 0 \/ rearm = timer

\* A pair that is asked to connect becomes connected, although handshakes
\* published too early are lost, unless a listen message times out, the
\* listener leaves or memory is misused.
PairConnects ==
  \A r \in Requests :
    request[r] = "posted" ~>
      \/ subscribed
      \/ \E q \in Requests : request[q] = "failed"
      \/ process # target[r] \/ life # "joined"
      \/ fault # "none"

\* A broadcaster whose timer was erased falls silent, unless it is started
\* again: every handler that is still due looks at the map and ends.
StopSilences ==
  timer = None ~> \/ timer # None
                  \/ rearm = None /\ \A t \in Requests : waits[t] + due[t] = 0
                  \/ fault # "none"

=============================================================================
